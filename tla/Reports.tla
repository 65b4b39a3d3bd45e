------------------------------- MODULE Reports -------------------------------
(***************************************************************************)
(* Observations and issues of the backend: routes/obs.py and               *)
(* routes/issues.py take IoT events, reports and issues in,                *)
(* tasks/obs_analyzer.py turns them into issues and escalates the reports  *)
(* nobody evaluated.                                                       *)
(*                                                                         *)
(* The request handlers never give up the event loop.  escalation_loop     *)
(* does, while it sleeps and while it awaits the dispatch of each          *)
(* escalation, so that requests are handled between its snapshot of the    *)
(* overdue reports and its use of them.                                    *)
(***************************************************************************)
EXTENDS Naturals

CONSTANTS
    ReportIds, EventIds, IssueIds,  \* the uuids that may be issued
    Absent,                         \* "not in the dictionary", None
    Unknown                         \* an id never issued

VARIABLES
    reports,        \* state.reports; a report is whether its confidence is >= 70
    events,         \* the keys of state.iot_events
    pending,        \* state.pending_reports: "no", or the age of the entry
    issues,         \* state.issues
    scan,           \* escalation_loop: the report being dispatched, and the
                    \* rest of to_escalate
    escalations,    \* escalations[r]: dispatches of obs.report.escalation for r
    evaluated       \* history: the reports handle_report_evaluated was called for

vars == <<reports, events, pending, issues, scan, escalations, evaluated>>

Statuses == {"Open", "PendingReview", "UnderReview", "Resolved"}

\* made: who created the issue, which the code writes into its title.
Issue ==
    [origin : ReportIds \cup EventIds \cup {Absent, Unknown}, status : Statuses,
     made : {"client", "event", "report", "approval"}]

ASSUME ReportsAssumption ==
    /\ Absent \notin Issue \cup BOOLEAN \cup ReportIds \cup EventIds
    /\ Unknown \notin ReportIds \cup EventIds
    /\ ReportIds \cap EventIds = {}

\* Every dictionary of state.py holds records of its schema, and so does the loop.
TypeOK ==
    /\ reports \in [ReportIds -> BOOLEAN \cup {Absent}]
    /\ events \in SUBSET EventIds
    /\ pending \in [ReportIds -> {"no", "fresh", "overdue"}]
    /\ issues \in [IssueIds -> Issue \cup {Absent}]
    /\ scan \in [current : ReportIds \cup {Absent}, rest : SUBSET ReportIds]
    /\ escalations \in [ReportIds -> Nat]
    /\ evaluated \in SUBSET ReportIds

Asleep == [current |-> Absent, rest |-> {}]

Init ==
    /\ reports = [r \in ReportIds |-> Absent]
    /\ events = {}
    /\ pending = [r \in ReportIds |-> "no"]
    /\ issues = [i \in IssueIds |-> Absent]
    /\ scan = Asleep
    /\ escalations = [r \in ReportIds |-> 0]
    /\ evaluated = {}

-----------------------------------------------------------------------------

Stored(dict) == {k \in DOMAIN dict : dict[k] # Absent}
Unissued(dict) == DOMAIN dict \ Stored(dict)

DerivedFrom(o) == {i \in Stored(issues) : issues[i].origin = o}

\* The issues once a new one is stored under i.
WithIssue(i, origin, made) ==
    [issues EXCEPT ![i] = [origin |-> origin, status |-> "Open", made |-> made]]

\* The issues of table once report o is evaluated.
Reviewed(table, o) ==
    [i \in IssueIds |->
        IF table[i] # Absent /\ table[i].origin = o /\ table[i].status = "Open"
        THEN [table[i] EXCEPT !.status = "PendingReview"] ELSE table[i]]

\* (mutant) the report stays in the pending queue.
HandleReportEvaluatedKept(o, table) ==
    /\ evaluated' = evaluated \cup ({o} \cap ReportIds)
    /\ UNCHANGED pending
    /\ issues' = Reviewed(table, o)

\* handle_report_evaluated(o) on top of the given issues.
HandleReportEvaluated(o, table) ==
    /\ pending' = [r \in ReportIds |-> IF r = o THEN "no" ELSE pending[r]]
    /\ evaluated' = evaluated \cup ({o} \cap ReportIds)
    /\ issues' = Reviewed(table, o)

-----------------------------------------------------------------------------

\* POST /ingest/report, handle_ingress and handle_report_created: a confident
\* report becomes an issue at once.
IngestReport(r, confident, i) ==
    /\ r \in Unissued(reports)
    /\ reports' = [reports EXCEPT ![r] = confident]
    /\ pending' = [pending EXCEPT ![r] = "fresh"]
    /\ \/ /\ confident
          /\ i \in Unissued(issues)
          /\ issues' = WithIssue(i, r, "report")
       \/ ~confident /\ UNCHANGED issues
    /\ UNCHANGED <<events, scan, escalations, evaluated>>

\* POST /ingest/iot-event, handle_ingress and handle_iot_event.
IngestIoTEvent(e, active, i) ==
    /\ e \notin events
    /\ events' = events \cup {e}
    /\ \/ /\ active
          /\ i \in Unissued(issues)
          /\ issues' = WithIssue(i, e, "event")
       \/ ~active /\ UNCHANGED issues
    /\ UNCHANGED <<reports, pending, scan, escalations, evaluated>>

\* POST /reports/{o}/evaluate: o is any id, the report's existence is not checked.
EvaluateReport(o) ==
    /\ HandleReportEvaluated(o, issues)
    /\ UNCHANGED <<reports, events, scan, escalations>>

\* (mutant) no search for an issue that exists already.
ApproveReportAnew(r, i) ==
    /\ r \in Stored(reports)
    /\ i \in Unissued(issues)
    /\ HandleReportEvaluated(r, WithIssue(i, r, "approval"))
    /\ UNCHANGED <<reports, events, scan, escalations>>

\* POST /reports/{r}/approve: an issue is made unless one derives from r.
ApproveReport(r, i) ==
    /\ r \in Stored(reports)
    /\ \/ DerivedFrom(r) # {} /\ HandleReportEvaluated(r, issues)
       \/ /\ DerivedFrom(r) = {}
          /\ i \in Unissued(issues)
          /\ HandleReportEvaluated(r, WithIssue(i, r, "approval"))
    /\ UNCHANGED <<reports, events, scan, escalations>>

\* POST /issues: derived_from_id is whatever the client says.
CreateIssue(i, o) ==
    /\ i \in Unissued(issues)
    /\ issues' = WithIssue(i, o, "client")
    /\ UNCHANGED <<reports, events, pending, scan, escalations, evaluated>>

\* PATCH /issues/{i}/review, refused for a Resolved issue.
ReviewIssue(i, action) ==
    /\ i \in Stored(issues)
    /\ issues[i].status # "Resolved"
    /\ issues' = [issues EXCEPT ![i].status = IF action = "accept" THEN "UnderReview" ELSE "Open"]
    /\ UNCHANGED <<reports, events, pending, scan, escalations, evaluated>>

\* PATCH /issues/{i}/resolve
ResolveIssue(i) ==
    /\ i \in Stored(issues)
    /\ issues' = [issues EXCEPT ![i].status = "Resolved"]
    /\ UNCHANGED <<reports, events, pending, scan, escalations, evaluated>>

-----------------------------------------------------------------------------

\* ESCALATION_THRESHOLD_SEC have passed since r was registered.
BecomeOverdue(r) ==
    /\ pending[r] = "fresh"
    /\ pending' = [pending EXCEPT ![r] = "overdue"]
    /\ UNCHANGED <<reports, events, issues, scan, escalations, evaluated>>

\* The loop takes a report out of todo and is suspended in its dispatch, or
\* goes back to sleep when there is none.
DispatchNext(todo) ==
    \/ todo = {} /\ scan' = Asleep /\ UNCHANGED escalations
    \/ \E r \in todo :
          /\ scan' = [current |-> r, rest |-> todo \ {r}]
          /\ escalations' = [escalations EXCEPT ![r] = @ + 1]

\* (mutant) the comparison with the threshold is inverted.
ScanBeginsInverted ==
    /\ scan = Asleep
    /\ DispatchNext({r \in ReportIds : pending[r] = "fresh"})
    /\ UNCHANGED <<reports, events, pending, issues, evaluated>>

\* escalation_loop wakes up and collects what is overdue now.
ScanBegins ==
    /\ scan = Asleep
    /\ DispatchNext({r \in ReportIds : pending[r] = "overdue"})
    /\ UNCHANGED <<reports, events, pending, issues, evaluated>>

\* (mutant) the escalated report is not removed from the queue.
EscalationSentKept ==
    /\ scan.current # Absent
    /\ DispatchNext(scan.rest)
    /\ UNCHANGED <<reports, events, pending, issues, evaluated>>

\* (mutant) the first dispatch clears the whole snapshot from the queue and ends it.
EscalationSentClearing ==
    /\ scan.current # Absent
    /\ pending' = [r \in ReportIds |-> IF r \in {scan.current} \cup scan.rest THEN "no"
                                       ELSE pending[r]]
    /\ DispatchNext({})
    /\ UNCHANGED <<reports, events, issues, evaluated>>

\* The dispatch returns, with whatever verdict: the report is forgotten and the
\* next one of the snapshot is dispatched without looking at pending again.
EscalationSent ==
    /\ scan.current # Absent
    /\ pending' = [pending EXCEPT ![scan.current] = "no"]
    /\ DispatchNext(scan.rest)
    /\ UNCHANGED <<reports, events, issues, evaluated>>

-----------------------------------------------------------------------------

Known == Stored(reports) \cup events

Next ==
    \/ \E r \in ReportIds, confident \in BOOLEAN, i \in IssueIds : IngestReport(r, confident, i)
    \/ \E e \in EventIds, active \in BOOLEAN, i \in IssueIds : IngestIoTEvent(e, active, i)
    \/ \E o \in Known \cup {Unknown} : EvaluateReport(o)
    \/ \E r \in ReportIds, i \in IssueIds : ApproveReport(r, i)
    \/ \E i \in IssueIds, o \in Known \cup {Absent, Unknown} : CreateIssue(i, o)
    \/ \E i \in IssueIds, action \in {"accept", "reject"} : ReviewIssue(i, action)
    \/ \E i \in IssueIds : ResolveIssue(i)
    \/ \E r \in ReportIds : BecomeOverdue(r)
    \/ ScanBegins
    \/ EscalationSent

\* Time passes, sleep() ends and dispatch() returns (Delivery);
\* no client has to send anything.
Fairness ==
    /\ \A r \in ReportIds : WF_vars(BecomeOverdue(r))
    /\ WF_vars(ScanBegins)
    /\ WF_vars(EscalationSent)

Spec == Init /\ [][Next]_vars /\ Fairness

-----------------------------------------------------------------------------

\* Nobody is alarmed twice about one report, although the loop removes it from
\* the queue only after the await.
EscalatedAtMostOnce == \A r \in ReportIds : escalations[r] <= 1

\* A confident report and any number of approvals make at most one issue of it.
OneIssuePerReport ==
    \A r \in ReportIds :
       \A i, j \in DerivedFrom(r) :
          issues[i].made \in {"report", "approval"} /\ issues[j].made \in {"report", "approval"} => i = j

\* An issue waits for review only once its report was evaluated, that is when
\* it can no longer be escalated by a later scan.
ReviewAfterEvaluation ==
    \A i \in Stored(issues) : LET o == issues[i].origin IN
       issues[i].status = "PendingReview" /\ o \in ReportIds => pending[o] = "no"

\* What the loop holds is accounted for: a report in hand has been dispatched
\* once, one still in the snapshot has not, and a report that is no longer in the
\* queue was dispatched or somebody has evaluated it: none leaves it otherwise.
SnapshotSound ==
    /\ scan.current # Absent => escalations[scan.current] = 1
    /\ scan.current \notin scan.rest
    /\ \A r \in scan.rest : escalations[r] = 0 /\ pending[r] # "fresh"
    /\ \A r \in ReportIds :
          pending[r] # "no" /\ escalations[r] > 0 => r = scan.current
    /\ \A r \in Stored(reports) :
          pending[r] = "no" => escalations[r] > 0 \/ r \in evaluated

\* A Resolved issue stays so, and no issue is lost or changes its origin.
IssuesKept ==
    \A i \in Stored(issues) :
       /\ i \in Stored(issues') /\ issues'[i].origin = issues[i].origin
       /\ issues[i].status = "Resolved" => issues'[i].status = "Resolved"

ResolvedFinal == [][IssuesKept]_vars

\* Every report is eventually evaluated or escalated.
NoReportForgotten == \A r \in ReportIds : pending[r] # "no" ~> pending[r] = "no"

\* escalation_loop's docstring, tasks/obs_analyzer.py:70, and
\* docs/flows.md:29-30: it is the reports not evaluated that are escalated.
EscalatedOnlyWhilePending ==
    [][\A r \in ReportIds : escalations'[r] # escalations[r] => pending[r] = "overdue"]_vars

=============================================================================

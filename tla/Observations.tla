----------------------------- MODULE Observations -----------------------------
(***************************************************************************)
(* Observations and issues in the microservice build: obs-collector takes  *)
(* reports and IoT events in, obs-analyzer escalates the reports nobody    *)
(* evaluated and makes issues of active events, issue-manager keeps the    *)
(* issues.  They talk over NATS.  Each subscription is a queue of its own  *)
(* whose messages are handled one after the other, but the queues of one   *)
(* process are served independently: what was published first on one       *)
(* subject may be handled last.  A message nobody listens for is gone, and *)
(* so is the memory of a process that restarts.                            *)
(*                                                                         *)
(* Reports are evaluated by a flow outside the system, which publishes     *)
(* obs.report.evaluated.                                                   *)
(***************************************************************************)
EXTENDS FiniteSets, Naturals, Sequences

CONSTANTS
    ReportIds, EventIds, IssueIds,  \* the uuids that may be issued
    ClientIssueIds,     \* bound: the issues clients may make
    MaxCollected,       \* bound on the observations collected
    MaxEvaluations,     \* bound on the evaluations of a report
    MaxFaults,          \* bound on the restarts and failed calls
    Absent

VARIABLES
    collected,      \* obs-collector: the keys of _reports and _iot_events
    evaluations,    \* evaluations[r]: how often r was published as evaluated
    queues,         \* queues[s]: the messages of subscription s
    pending,        \* obs-analyzer: "no", or the age of the entry in _pending_reports
    scan,           \* obs-analyzer: the report _scan_and_escalate is publishing,
                    \* and the rest of to_escalate
    escalations,    \* escalations[r]: the messages obs.report.escalation for r
    issues,         \* issue-manager: _issues
    up,             \* up[p]: does process p run?
    forgotten,      \* the issues a restart has lost, whose uuids do not come back
    faults,         \* the restarts and failed calls so far
    lost            \* history: the reports obs-analyzer was not told of, or that
                    \* were with it when it ended

analyzerVars == <<pending, scan, escalations>>
faultVars == <<up, forgotten, faults, lost>>
vars == <<collected, evaluations, queues, analyzerVars, issues, faultVars>>

Processes == {"analyzer", "issue-manager"}

\* The subscriptions: what a process hears of a subject.
Subscriptions == {"events", "created", "evaluated", "evaluated for issues"}
Owner(s) == IF s = "evaluated for issues" THEN "issue-manager" ELSE "analyzer"

\* An event is published with its event_state, ACTIVE or not.
EventMessage == [event : EventIds, active : BOOLEAN]

Issue ==
    [origin : ReportIds \cup EventIds \cup {Absent},
     status : {"Open", "PendingReview", "UnderReview", "Resolved"},
     made : {"client", "event"}]

ASSUME ObservationsAssumption ==
    /\ Absent \notin Issue \cup ReportIds \cup EventIds
    /\ ReportIds \cap EventIds = {}
    /\ ClientIssueIds \subseteq IssueIds /\ IsFiniteSet(IssueIds)
    /\ MaxCollected \in Nat /\ MaxEvaluations \in Nat /\ MaxFaults \in Nat

\* Queues hold messages of their subject, and the processes what they have stored.
TypeOK ==
    /\ collected \in SUBSET (ReportIds \cup EventIds)
    /\ evaluations \in [ReportIds -> Nat]
    /\ DOMAIN queues = Subscriptions
    /\ queues["events"] \in Seq(EventMessage)
    /\ \A s \in Subscriptions \ {"events"} : queues[s] \in Seq(ReportIds)
    /\ pending \in [ReportIds -> {"no", "fresh", "overdue"}]
    /\ scan \in [current : ReportIds \cup {Absent}, rest : SUBSET ReportIds]
    /\ escalations \in [ReportIds -> Nat]
    /\ issues \in [IssueIds -> Issue \cup {Absent}]
    /\ up \in [Processes -> BOOLEAN]
    /\ forgotten \in SUBSET IssueIds
    /\ faults \in Nat /\ lost \in SUBSET ReportIds

Asleep == [current |-> Absent, rest |-> {}]

Init ==
    /\ collected = {}
    /\ evaluations = [r \in ReportIds |-> 0]
    /\ queues = [s \in Subscriptions |-> <<>>]
    /\ pending = [r \in ReportIds |-> "no"]
    /\ scan = Asleep
    /\ escalations = [r \in ReportIds |-> 0]
    /\ issues = [i \in IssueIds |-> Absent]
    /\ up = [p \in Processes |-> TRUE]
    /\ forgotten = {}
    /\ faults = 0 /\ lost = {}

-----------------------------------------------------------------------------

Stored(dict) == {k \in DOMAIN dict : dict[k] # Absent}
Fresh == {i \in IssueIds : issues[i] = Absent} \ forgotten

Fault == faults < MaxFaults /\ faults' = faults + 1

\* Core NATS hands a message to the subscriptions in ss whose process runs.
Publish(m, ss) ==
    queues' = [s \in Subscriptions |->
        IF s \in ss /\ up[Owner(s)] THEN Append(queues[s], m) ELSE queues[s]]

\* The next message of subscription s is m.
Receive(s, m) ==
    /\ queues[s] # <<>> /\ m = Head(queues[s])
    /\ queues' = [queues EXCEPT ![s] = Tail(@)]

WithIssue(i, origin, made) ==
    [issues EXCEPT ![i] = [origin |-> origin, status |-> "Open", made |-> made]]

-----------------------------------------------------------------------------
\* obs-collector, and the flow that evaluates

RoomForMore == Cardinality(collected) < MaxCollected

\* POST /ingest/report and handle_ingress: the report is stored before it is
\* announced, so that it stays when publish raises.
IngestReport(r) ==
    /\ r \notin collected /\ RoomForMore
    /\ collected' = collected \cup {r}
    /\ \/ /\ Publish(r, {"created"}) /\ UNCHANGED faults
          /\ lost' = IF up["analyzer"] THEN lost ELSE lost \cup {r}
       \/ Fault /\ lost' = lost \cup {r} /\ UNCHANGED queues
    /\ UNCHANGED <<evaluations, analyzerVars, issues, up, forgotten>>

\* POST /ingest/iot-event and handle_ingress, in the same way.
IngestIoTEvent(e, active) ==
    /\ e \notin collected /\ RoomForMore
    /\ collected' = collected \cup {e}
    /\ \/ Publish([event |-> e, active |-> active], {"events"}) /\ UNCHANGED faults
       \/ Fault /\ UNCHANGED queues
    /\ UNCHANGED <<evaluations, analyzerVars, issues, up, forgotten, lost>>

\* Somebody evaluates a report the collector shows, perhaps again.
Evaluate(r) ==
    /\ r \in collected /\ evaluations[r] < MaxEvaluations
    /\ evaluations' = [evaluations EXCEPT ![r] = @ + 1]
    /\ Publish(r, {"evaluated", "evaluated for issues"})
    /\ UNCHANGED <<collected, analyzerVars, issues, faultVars>>

-----------------------------------------------------------------------------
\* obs-analyzer

\* (mutant) the callback posts again when the answer of the first post is lost.
OnIoTEventRetried(e, active, i) ==
    /\ queues["events"] # <<>> /\ Head(queues["events"]) = [event |-> e, active |-> active]
    /\ active /\ up["issue-manager"] /\ i \in Fresh
    /\ issues' = WithIssue(i, e, "event")
    /\ \/ Receive("events", [event |-> e, active |-> active]) /\ UNCHANGED faults
       \/ Fault /\ UNCHANGED queues
    /\ UNCHANGED <<collected, evaluations, analyzerVars, up, forgotten, lost>>

\* on_iot_event: an active event is posted as an issue.  When the request
\* fails, before or after issue-manager has served it, the error is logged.
OnIoTEvent(e, active, i) ==
    /\ Receive("events", [event |-> e, active |-> active])
    /\ \/ ~active /\ UNCHANGED <<issues, faults>>
       \/ /\ active /\ up["issue-manager"] /\ i \in Fresh
          /\ issues' = WithIssue(i, e, "event") /\ UNCHANGED faults
       \/ active /\ ~up["issue-manager"] /\ UNCHANGED <<issues, faults>>
       \/ active /\ Fault /\ UNCHANGED issues
    /\ UNCHANGED <<collected, evaluations, analyzerVars, up, forgotten, lost>>

\* on_report and _handle_report_created
OnReport(r) ==
    /\ Receive("created", r)
    /\ pending' = [pending EXCEPT ![r] = "fresh"]
    /\ UNCHANGED <<collected, evaluations, scan, escalations, issues, faultVars>>

\* on_report_evaluated and _handle_report_evaluated
OnReportEvaluated(r) ==
    /\ Receive("evaluated", r)
    /\ pending' = [pending EXCEPT ![r] = "no"]
    /\ UNCHANGED <<collected, evaluations, scan, escalations, issues, faultVars>>

\* ESCALATION_THRESHOLD_SEC have passed since r was registered.
BecomeOverdue(r) ==
    /\ pending[r] = "fresh"
    /\ pending' = [pending EXCEPT ![r] = "overdue"]
    /\ UNCHANGED <<collected, evaluations, queues, scan, escalations, issues, faultVars>>

\* The loop is suspended in the publishing of a report of todo, or asleep.
PublishNext(todo) ==
    \/ todo = {} /\ scan' = Asleep
    \/ \E r \in todo : scan' = [current |-> r, rest |-> todo \ {r}]

\* _escalation_loop wakes up, and _scan_and_escalate collects what is overdue.
ScanBegins ==
    /\ up["analyzer"] /\ scan = Asleep
    /\ PublishNext({r \in ReportIds : pending[r] = "overdue"})
    /\ UNCHANGED <<collected, evaluations, queues, pending, escalations, issues, faultVars>>

\* (mutant) the published report stays in the queue.
EscalationPublishedKept ==
    /\ scan.current # Absent
    /\ escalations' = [escalations EXCEPT ![scan.current] = @ + 1]
    /\ PublishNext(scan.rest)
    /\ UNCHANGED <<collected, evaluations, queues, pending, issues, faultVars>>

\* The message is out: the report is forgotten, and the next one is published
\* without looking at _pending_reports again.
EscalationPublished ==
    /\ scan.current # Absent
    /\ escalations' = [escalations EXCEPT ![scan.current] = @ + 1]
    /\ pending' = [pending EXCEPT ![scan.current] = "no"]
    /\ PublishNext(scan.rest)
    /\ UNCHANGED <<collected, evaluations, queues, issues, faultVars>>

\* (mutant) the report is taken out before it is published.
PublishingFailsLate ==
    /\ scan.current # Absent /\ Fault
    /\ scan' = Asleep
    /\ pending' = [pending EXCEPT ![scan.current] = "no"]
    /\ UNCHANGED <<collected, evaluations, queues, escalations, issues, up, forgotten, lost>>

\* publish raises: the rest is left to the next scan, and so is this report.
PublishingFails ==
    /\ scan.current # Absent /\ Fault
    /\ scan' = Asleep
    /\ UNCHANGED <<collected, evaluations, queues, pending, escalations, issues,
                   up, forgotten, lost>>

-----------------------------------------------------------------------------
\* issue-manager

\* on_report_evaluated and _handle_report_evaluated
OnReportEvaluatedForIssues(r) ==
    /\ Receive("evaluated for issues", r)
    /\ issues' = [i \in IssueIds |->
          IF issues[i] # Absent /\ issues[i].origin = r /\ issues[i].status = "Open"
          THEN [issues[i] EXCEPT !.status = "PendingReview"] ELSE issues[i]]
    /\ UNCHANGED <<collected, evaluations, analyzerVars, faultVars>>

\* POST /issues, from any other client
CreateIssue(i, o) ==
    /\ up["issue-manager"] /\ i \in Fresh
    /\ issues' = WithIssue(i, o, "client")
    /\ UNCHANGED <<collected, evaluations, queues, analyzerVars, faultVars>>

\* PATCH /issues/{i}/review, refused for a Resolved issue
ReviewIssue(i, action) ==
    /\ i \in Stored(issues)
    /\ issues[i].status # "Resolved"
    /\ issues' = [issues EXCEPT ![i].status = IF action = "accept" THEN "UnderReview" ELSE "Open"]
    /\ UNCHANGED <<collected, evaluations, queues, analyzerVars, faultVars>>

\* PATCH /issues/{i}/resolve; nobody but ticket-manager's empty callback hears
\* issue.created, and nobody issue.resolved.
ResolveIssue(i) ==
    /\ i \in Stored(issues)
    /\ issues' = [issues EXCEPT ![i].status = "Resolved"]
    /\ UNCHANGED <<collected, evaluations, queues, analyzerVars, faultVars>>

-----------------------------------------------------------------------------

Waiting(s, m) == \E n \in DOMAIN queues[s] : queues[s][n] = m

\* Process p ends: its queues and dictionaries are gone.
Stops(p) ==
    /\ up[p] /\ Fault
    /\ up' = [up EXCEPT ![p] = FALSE]
    /\ queues' = [s \in Subscriptions |-> IF Owner(s) = p THEN <<>> ELSE queues[s]]
    /\ \/ /\ p = "analyzer"
          /\ pending' = [r \in ReportIds |-> "no"] /\ scan' = Asleep
          /\ lost' = lost \cup {r \in ReportIds : Waiting("created", r) \/ pending[r] # "no"}
          /\ UNCHANGED <<issues, forgotten>>
       \/ /\ p = "issue-manager"
          /\ issues' = [i \in IssueIds |-> Absent]
          /\ forgotten' = forgotten \cup Stored(issues)
          /\ UNCHANGED <<pending, scan, lost>>
    /\ UNCHANGED <<collected, evaluations, escalations>>

Starts(p) ==
    /\ ~up[p]
    /\ up' = [up EXCEPT ![p] = TRUE]
    /\ UNCHANGED <<collected, evaluations, queues, analyzerVars, issues,
                   forgotten, faults, lost>>

HandleEvent ==
    \E e \in EventIds, active \in BOOLEAN, i \in IssueIds \ ClientIssueIds :
       OnIoTEvent(e, active, i)

Next ==
    \/ \E r \in ReportIds : IngestReport(r) \/ Evaluate(r)
    \/ \E e \in EventIds, active \in BOOLEAN : IngestIoTEvent(e, active)
    \/ HandleEvent
    \/ \E r \in ReportIds :
          OnReport(r) \/ OnReportEvaluated(r) \/ OnReportEvaluatedForIssues(r) \/ BecomeOverdue(r)
    \/ ScanBegins \/ EscalationPublished \/ PublishingFails
    \/ \E i \in ClientIssueIds, o \in collected \cup {Absent} : CreateIssue(i, o)
    \/ \E i \in IssueIds, action \in {"accept", "reject"} : ReviewIssue(i, action)
    \/ \E i \in IssueIds : ResolveIssue(i)
    \/ \E p \in Processes : Stops(p) \/ Starts(p)

\* Each subscription is served, time passes, sleeps and calls end; nobody has to
\* send anything, or to start a process again.
Fairness ==
    /\ WF_vars(HandleEvent)
    /\ \A r \in ReportIds : WF_vars(OnReport(r)) /\ WF_vars(OnReportEvaluated(r))
                                /\ WF_vars(OnReportEvaluatedForIssues(r)) /\ WF_vars(BecomeOverdue(r))
    /\ WF_vars(ScanBegins)
    /\ WF_vars(EscalationPublished \/ PublishingFails)

Spec == Init /\ [][Next]_vars /\ Fairness

-----------------------------------------------------------------------------

\* A report is escalated at most once, although it stays in the queue while it is
\* published, again after publish has raised, and processes restart.
EscalatedAtMostOnce == \A r \in ReportIds : escalations[r] <= 1

\* What is not with obs-analyzer any more was escalated or evaluated, or it is one of
\* those that never got there or were there when the process ended: no other report is
\* dropped, whatever restarts and raising publications there have been.
NoReportDropped ==
    \A r \in ReportIds \cap collected :
       \/ Waiting("created", r) \/ pending[r] # "no"
       \/ escalations[r] > 0 \/ evaluations[r] > 0 \/ r \in lost

\* A report is escalated in the end, unless it is evaluated or lost: a failed scan is
\* made up for, and what arrives after a restart is served like before it.
NoReportForgotten ==
    \A r \in ReportIds :
       r \in collected ~> escalations[r] > 0 \/ evaluations[r] > 0 \/ r \in lost

\* Active events become issues as AtMostOnce says.
IssuesOf(e) == {i \in Stored(issues) : issues[i].origin = e /\ issues[i].made = "event"}

ActiveWaiting(e) ==
    {n \in DOMAIN queues["events"] : queues["events"][n] = [event |-> e, active |-> TRUE]}

Events == INSTANCE AtMostOnce WITH
    Topics <- EventIds, Limit <- 1,
    outstanding <- [e \in EventIds |-> Cardinality(ActiveWaiting(e))],
    handled <- [e \in EventIds |-> Cardinality(IssuesOf(e))],
    faulty <- faults > 0

ImplementsAtMostOnce == Events!Spec

=============================================================================

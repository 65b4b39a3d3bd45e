---------------------------- MODULE OpsDashboard ----------------------------
(***************************************************************************)
(* The flows of the operations dashboard, ops_dashboard/main.py, composed  *)
(* with the backend records it reads.  For each request the dashboard asks *)
(* the backend for its issues, tickets, work orders and payments in four   *)
(* concurrent requests, and joins the four lists into flows.  The backend  *)
(* answers each of the four when it gets to it, and serves other clients   *)
(* in between, so that the lists are of four different moments.            *)
(*                                                                         *)
(* Of a record the model keeps what the join and the flags look at.  The   *)
(* backend's actions are its handlers as far as they touch that; Reports,  *)
(* WorkOrders and Tickets have them in full.                               *)
(***************************************************************************)
CONSTANTS
    IssueIds, TicketIds, WorkOrderIds, PaymentIds,  \* the uuids that may be issued
    Queries,                                        \* the requests to the dashboard
    None                                            \* "not in the dictionary"

VARIABLES
    backend,        \* backend[path]: the records the backend lists under path
    got,            \* got[q]: the lists query q has, by path
    failed,         \* failed[q]: the paths whose request failed
    phase,          \* phase[q]: "idle", "waiting" for lists, "answered"
    before,         \* before[q]: backend when q began, kept to state properties
    flows           \* flows[q]: the answer to q

flowsVars == <<backend, phase, got, failed, before, flows>>

Paths == {"issues", "tickets", "work-orders", "payments"}

\* An issue is whether it is PendingReview, a ticket its addresses_issue_ids.
WorkOrder == [ticket : TicketIds \cup {None}, completed : BOOLEAN]
Payment == [workOrder : WorkOrderIds, paid : BOOLEAN]

Flow == [issue : IssueIds, tickets : SUBSET TicketIds, workOrders : SUBSET WorkOrderIds,
         payments : SUBSET PaymentIds, flags : SUBSET {"pending_review", "unpaid"}]

ASSUME DashboardAssumption ==
    /\ None \notin BOOLEAN \cup WorkOrder \cup Payment \cup TicketIds
    /\ \A is \in SUBSET IssueIds : is # None

Stored(dict) == {k \in DOMAIN dict : dict[k] # None}
Unissued(dict) == DOMAIN dict \ Stored(dict)
Empty(dict) == [k \in DOMAIN dict |-> None]

\* The backend's records and the flows have their schemas; no list a query holds names
\* a record the backend does not have.
FlowsTypeOK ==
    /\ DOMAIN backend = Paths
    /\ backend["issues"] \in [IssueIds -> BOOLEAN \cup {None}]
    /\ backend["tickets"] \in [TicketIds -> (SUBSET IssueIds) \cup {None}]
    /\ backend["work-orders"] \in [WorkOrderIds -> WorkOrder \cup {None}]
    /\ backend["payments"] \in [PaymentIds -> Payment \cup {None}]
    /\ phase \in [Queries -> {"idle", "waiting", "answered"}]
    /\ failed \in [Queries -> SUBSET Paths]
    /\ DOMAIN got = Queries /\ DOMAIN before = Queries
    /\ \A q \in Queries : \A path \in DOMAIN got[q] :
          path \in Paths /\ Stored(got[q][path]) \subseteq Stored(backend[path])
    /\ flows \in [Queries -> SUBSET Flow]

NoLists == [path \in {} |-> None]

FlowsInit ==
    /\ backend = [path \in Paths |->
          [id \in CASE path = "issues" -> IssueIds
                    [] path = "tickets" -> TicketIds
                    [] path = "work-orders" -> WorkOrderIds
                    [] path = "payments" -> PaymentIds |-> None]]
    /\ phase = [q \in Queries |-> "idle"]
    /\ got = [q \in Queries |-> NoLists]
    /\ failed = [q \in Queries |-> {}]
    /\ before = [q \in Queries |-> None]
    /\ flows = [q \in Queries |-> {}]

-----------------------------------------------------------------------------
\* The backend, for everybody else.

Create(path, id, record) ==
    /\ id \in Unissued(backend[path])
    /\ backend' = [backend EXCEPT ![path][id] = record]
    /\ UNCHANGED <<phase, got, failed, before, flows>>

Put(path, id, record) ==
    /\ id \in Stored(backend[path])
    /\ backend' = [backend EXCEPT ![path][id] = record]
    /\ UNCHANGED <<phase, got, failed, before, flows>>

CreateIssue(i) == Create("issues", i, FALSE)
HandleReportEvaluated(i) == Put("issues", i, TRUE)
ReviewIssue(i) == Put("issues", i, FALSE)

\* A client may name issues and tickets that are not there: what it names in
\* vain is left out.  An emergency work order may have no ticket.
CreateTicket(k, is) == is \subseteq Stored(backend["issues"]) /\ Create("tickets", k, is)

CreateWorkOrder(w, k) ==
    /\ k \in Stored(backend["tickets"]) \cup {None}
    /\ Create("work-orders", w, [ticket |-> k, completed |-> FALSE])

CompleteTask(w) ==
    /\ w \in Stored(backend["work-orders"])
    /\ Put("work-orders", w, [backend["work-orders"][w] EXCEPT !.completed = TRUE])

CreatePayment(p, w) ==
    /\ w \in Stored(backend["work-orders"])
    /\ Create("payments", p, [workOrder |-> w, paid |-> FALSE])

MarkPaid(p) ==
    /\ p \in Stored(backend["payments"])
    /\ Put("payments", p, [backend["payments"][p] EXCEPT !.paid = TRUE])

-----------------------------------------------------------------------------
\* _build_flows: the joins of four lists and the flags.

TicketsOf(lists, i) == {k \in Stored(lists["tickets"]) : i \in lists["tickets"][k]}

WorkOrdersOf(lists, i) ==
    {w \in Stored(lists["work-orders"]) : lists["work-orders"][w].ticket \in TicketsOf(lists, i)}

PaymentsFor(lists, w) == {p \in Stored(lists["payments"]) : lists["payments"][p].workOrder = w}

\* (mutant) all() where the code has any().
UnpaidUnlessAll(lists, w) ==
    /\ lists["work-orders"][w].completed
    /\ \E p \in PaymentsFor(lists, w) : ~lists["payments"][p].paid

\* A Completed work order of which no payment is Paid.
Unpaid(lists, w) ==
    /\ lists["work-orders"][w].completed
    /\ \A p \in PaymentsFor(lists, w) : ~lists["payments"][p].paid

\* (mutant) only issues that have a ticket make a flow.
BuildFlowsTicketed(lists) ==
    {[issue |-> i, tickets |-> TicketsOf(lists, i), workOrders |-> WorkOrdersOf(lists, i),
      payments |-> UNION {PaymentsFor(lists, w) : w \in WorkOrdersOf(lists, i)},
      flags |-> {}] : i \in {j \in Stored(lists["issues"]) : TicketsOf(lists, j) # {}}}

BuildFlows(lists) ==
    {[issue |-> i, tickets |-> TicketsOf(lists, i), workOrders |-> WorkOrdersOf(lists, i),
      payments |-> UNION {PaymentsFor(lists, w) : w \in WorkOrdersOf(lists, i)},
      flags |-> {flag \in {"pending_review", "unpaid"} :
                   \/ flag = "pending_review" /\ lists["issues"][i]
                   \/ flag = "unpaid" /\ \E w \in WorkOrdersOf(lists, i) : Unpaid(lists, w)}] :
     i \in Stored(lists["issues"])}

-----------------------------------------------------------------------------

With(lists, path, dict) ==
    [p \in DOMAIN lists \cup {path} |-> IF p = path THEN dict ELSE lists[p]]

\* GET /ops/flows, /ops/flows/{i} or /ops/problems: the four requests are sent.
ListFlows(q) ==
    /\ phase[q] = "idle"
    /\ phase' = [phase EXCEPT ![q] = "waiting"]
    /\ before' = [before EXCEPT ![q] = backend]
    /\ UNCHANGED <<backend, got, failed, flows>>

\* The backend serves one of them.
Fetch(q, path) ==
    /\ phase[q] = "waiting" /\ path \notin DOMAIN got[q]
    /\ got' = [got EXCEPT ![q] = With(@, path, backend[path])]
    /\ UNCHANGED <<backend, phase, failed, before, flows>>

\* One raises, times out or has another status than 200: an empty list is used.
FetchFails(q, path) ==
    /\ phase[q] = "waiting" /\ path \notin DOMAIN got[q]
    /\ got' = [got EXCEPT ![q] = With(@, path, Empty(backend[path]))]
    /\ failed' = [failed EXCEPT ![q] = @ \cup {path}]
    /\ UNCHANGED <<backend, phase, before, flows>>

\* gather() has them all.
Answer(q) ==
    /\ phase[q] = "waiting" /\ DOMAIN got[q] = Paths
    /\ phase' = [phase EXCEPT ![q] = "answered"]
    /\ flows' = [flows EXCEPT ![q] = BuildFlows(got[q])]
    /\ got' = [got EXCEPT ![q] = NoLists]
    /\ UNCHANGED <<backend, failed, before>>

-----------------------------------------------------------------------------

BackendStep ==
    \/ \E i \in IssueIds : CreateIssue(i) \/ HandleReportEvaluated(i) \/ ReviewIssue(i)
    \/ \E k \in TicketIds, is \in SUBSET IssueIds : CreateTicket(k, is)
    \/ \E w \in WorkOrderIds, k \in TicketIds \cup {None} : CreateWorkOrder(w, k)
    \/ \E w \in WorkOrderIds : CompleteTask(w)
    \/ \E p \in PaymentIds, w \in WorkOrderIds : CreatePayment(p, w)
    \/ \E p \in PaymentIds : MarkPaid(p)

FlowsNext ==
    \/ BackendStep
    \/ \E q \in Queries : ListFlows(q) \/ Answer(q)
    \/ \E q \in Queries, path \in Paths : Fetch(q, path) \/ FetchFails(q, path)

FlowsSpec == FlowsInit /\ [][FlowsNext]_flowsVars

-----------------------------------------------------------------------------

Answered(q) == phase[q] = "answered"

\* Whatever was paid before the request came is not called unpaid, although work
\* orders and payments are lists of different moments; provided the list of
\* payments is there.
NoFalseAlarm ==
    \A q \in Queries : Answered(q) /\ "payments" \notin failed[q] =>
       \A f \in flows[q] : "unpaid" \in f.flags =>
          \E w \in f.workOrders :
             /\ backend["work-orders"][w].completed
             /\ \A p \in PaymentsFor(before[q], w) : ~before[q]["payments"][p].paid

\* A work order that was Completed before the request came and is unpaid ever
\* since is reported with its issue, provided all lists are there.
NoAlarmMissed ==
    \A q \in Queries : Answered(q) /\ failed[q] = {} =>
       \A i \in Stored(before[q]["issues"]) : \A w \in WorkOrdersOf(before[q], i) :
          before[q]["work-orders"][w].completed /\ Unpaid(backend, w) =>
             \E f \in flows[q] : f.issue = i /\ "unpaid" \in f.flags

\* Every issue there was has one flow, in spite of failures of other lists; with
\* all lists the flow has every work order the issue had, and none it has not.
EveryIssueShown ==
    \A q \in Queries : Answered(q) /\ "issues" \notin failed[q] =>
       \A i \in Stored(before[q]["issues"]) :
          LET shown == {f \in flows[q] : f.issue = i} IN
          /\ \E f \in shown : shown = {f}
          /\ \A f \in shown :
                /\ f.workOrders \subseteq WorkOrdersOf(backend, i)
                /\ failed[q] = {} => WorkOrdersOf(before[q], i) \subseteq f.workOrders

=============================================================================

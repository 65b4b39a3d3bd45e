----------------------------- MODULE Assignments -----------------------------
(***************************************************************************)
(* From an approved estimate to a work order and its payment in the        *)
(* microservice build: ticket-manager, wo-manager and payment-manager,     *)
(* three processes with their dictionaries in memory.                      *)
(*                                                                         *)
(* ticket-manager publishes each approval on NATS, which hands it to       *)
(* wo-manager if that listens and to nobody otherwise.  wo-manager takes   *)
(* one message after the other and asks ticket-manager for the ticket      *)
(* before it makes the work order.  payment-manager asks wo-manager for    *)
(* the work order before it makes the payment.  Every process may be       *)
(* restarted in between and knows nothing afterwards.                      *)
(*                                                                         *)
(* The routes of wo-manager are those of WorkOrders; an invocation c of    *)
(* its dispatcher is here the message that is published instead: "pending" *)
(* once it is out, "error" when publish has raised, which leaves what was  *)
(* stored before it.                                                       *)
(***************************************************************************)
EXTENDS FiniteSets, Naturals, Sequences

CONSTANTS
    EstimateIds, PaymentIds,            \* the uuids that may be issued
    WorkOrderIds, TaskIds, BookingIds, TicketIds, Calls, Slots, Absent, Unknown,
    Misrouted,      \* an id whose GET is not answered by get_work_order, such as
                    \* "x/tasks", which another route refuses with 405
    ClientIds,      \* bound: the uuids and messages clients may use up
    MaxApprovals,   \* bound on the approvals
    MaxFaults       \* bound on the restarts, failed requests and failed publications

VARIABLES
    tickets,        \* ticket-manager: the keys of _tickets
    estimates,      \* ticket-manager: _estimates
    approvals,      \* approvals[k]: how often an estimate of ticket k was approved
    queue,          \* what wo-manager's subscription holds: tickets, in order
    fetching,       \* the ticket on_estimate_approved is waiting for
    listening,      \* does wo-manager run?
    workOrders, serviceTasks, bookings,     \* wo-manager, see WorkOrders
    notices, outcome,                       \* what it was to publish, and did
    checks,         \* payment-manager: checks[p] is the work order that is
                    \* answered for, whose payment p is about to be made
    payments,       \* payment-manager: _payments
    forgotten,      \* the uuids restarts have lost, which do not come back
    faults          \* the restarts, failed requests and failed publications so far

Orders == INSTANCE WorkOrders WITH TicketIds <- TicketIds \cup {Unknown}

ticketVars == <<tickets, estimates, approvals>>
chainVars == <<queue, fetching, listening>>
memoryVars == <<workOrders, serviceTasks, bookings>>
orderVars == <<memoryVars, notices, outcome>>
paymentVars == <<checks, payments>>
faultVars == <<forgotten, faults>>
vars == <<ticketVars, chainVars, orderVars, paymentVars, faultVars>>

Estimate == [ticket : TicketIds, status : {"draft", "approved"}]
Payment == [workOrder : WorkOrderIds \cup {Misrouted}, status : {"Pending", "Paid"}]

ASSUME AssignmentsAssumption ==
    /\ Absent \notin Estimate \cup Payment \cup TicketIds \cup WorkOrderIds \cup {Misrouted}
    /\ Unknown \notin TicketIds \cup WorkOrderIds /\ Slots \subseteq Nat \X Nat
    /\ Absent \notin Orders!WorkOrder \cup Orders!ServiceTask \cup Orders!Booking \cup Orders!Notice
    /\ Misrouted \notin WorkOrderIds
    /\ MaxApprovals \in Nat /\ MaxFaults \in Nat
    /\ IsFiniteSet(WorkOrderIds)

\* The dictionaries of the three services and the messages have their schemas.
TypeOK ==
    /\ tickets \in SUBSET TicketIds
    /\ estimates \in [EstimateIds -> Estimate \cup {Absent}]
    /\ approvals \in [TicketIds -> Nat]
    /\ queue \in Seq(TicketIds)
    /\ fetching \in TicketIds \cup {Absent}
    /\ listening \in BOOLEAN
    /\ Orders!TypeOK
    /\ checks \in [PaymentIds -> WorkOrderIds \cup {Misrouted, Absent}]
    /\ payments \in [PaymentIds -> Payment \cup {Absent}]
    /\ forgotten \in SUBSET (TicketIds \cup EstimateIds \cup PaymentIds
                             \cup WorkOrderIds \cup TaskIds \cup BookingIds)
    /\ faults \in Nat

Init ==
    /\ tickets = {}
    /\ estimates = [e \in EstimateIds |-> Absent]
    /\ approvals = [k \in TicketIds |-> 0]
    /\ queue = <<>>
    /\ fetching = Absent
    /\ listening = TRUE
    /\ Orders!Init
    /\ checks = [p \in PaymentIds |-> Absent]
    /\ payments = [p \in PaymentIds |-> Absent]
    /\ forgotten = {}
    /\ faults = 0

-----------------------------------------------------------------------------

Stored(dict) == Orders!Stored(dict)
Fresh(dict) == Orders!Unissued(dict) \ forgotten
Emptied(dict) == [id \in DOMAIN dict |-> Absent]

Fault == faults < MaxFaults /\ faults' = faults + 1

\* A restart: the process has lost these dictionaries.
Forget(ids) == forgotten' = forgotten \cup ids

-----------------------------------------------------------------------------
\* ticket-manager

\* POST /tickets
CreateTicket(k) ==
    /\ k \notin tickets \cup forgotten
    /\ tickets' = tickets \cup {k}
    /\ UNCHANGED <<estimates, approvals, chainVars, orderVars, paymentVars, faultVars>>

\* POST /estimates
CreateEstimate(e, k) ==
    /\ e \in Fresh(estimates)
    /\ k \in tickets
    /\ estimates' = [estimates EXCEPT ![e] = [ticket |-> k, status |-> "draft"]]
    /\ UNCHANGED <<tickets, approvals, chainVars, orderVars, paymentVars, faultVars>>

\* Core NATS: who does not listen misses the message.
Publish(k) == queue' = IF listening THEN Append(queue, k) ELSE queue

\* PATCH /estimates/{e}/approve, whatever the estimate's status is.  The estimate
\* stays approved when publish raises.
ApproveEstimate(e) ==
    /\ e \in Stored(estimates)
    /\ \A k \in TicketIds : approvals[k] < MaxApprovals
    /\ estimates' = [estimates EXCEPT ![e].status = "approved"]
    /\ approvals' = [approvals EXCEPT ![estimates[e].ticket] = @ + 1]
    /\ \/ Publish(estimates[e].ticket) /\ UNCHANGED faults
       \/ Fault /\ UNCHANGED queue
    /\ UNCHANGED <<tickets, fetching, listening, orderVars, paymentVars, forgotten>>

\* The process is replaced by a new one.
TicketManagerRestarts ==
    /\ Fault
    /\ Forget(tickets \cup Stored(estimates))
    /\ tickets' = {}
    /\ estimates' = Emptied(estimates)
    /\ UNCHANGED <<approvals, chainVars, orderVars, paymentVars>>

-----------------------------------------------------------------------------
\* wo-manager

\* Message c is published, or publish raises and the answer is 500.
Announce(c) ==
    \/ outcome'[c] = "pending" /\ UNCHANGED faults
    \/ outcome'[c] = "error" /\ Fault

\* The callback of the subscription begins with the next message and asks
\* ticket-manager for its ticket.
OnEstimateApproved ==
    /\ fetching = Absent /\ queue # <<>>
    /\ fetching' = Head(queue)
    /\ queue' = Tail(queue)
    /\ UNCHANGED <<ticketVars, listening, orderVars, paymentVars, faultVars>>

\* (mutant) the first message that comes while one is handled is dropped.
AutoCreateWorkOrderDropping(w, c) ==
    /\ fetching \in tickets /\ w \notin forgotten
    /\ Orders!OnEstimateApproved(w, fetching, c) /\ Announce(c)
    /\ fetching' = Absent
    /\ queue' = IF queue = <<>> THEN queue ELSE Tail(queue)
    /\ UNCHANGED <<ticketVars, listening, paymentVars, forgotten>>

\* _auto_create_work_order, when the ticket is there: the work order is stored,
\* and announced unless publish raises; the client library then goes on.
AutoCreateWorkOrder(w, c) ==
    /\ fetching \in tickets
    /\ w \notin forgotten
    /\ Orders!OnEstimateApproved(w, fetching, c) /\ Announce(c)
    /\ fetching' = Absent
    /\ UNCHANGED <<ticketVars, queue, listening, paymentVars, forgotten>>

\* (mutant) a ticket that is not found is asked for again and again.
FetchFailsForGood ==
    /\ fetching \in tickets /\ Fault
    /\ fetching' = Absent
    /\ UNCHANGED <<ticketVars, queue, listening, orderVars, paymentVars, forgotten>>

\* The ticket cannot be fetched: ticket-manager has forgotten it, or does not
\* answer.  The approval is logged and given up.
FetchFails ==
    /\ fetching # Absent
    /\ \/ fetching \notin tickets /\ UNCHANGED faults
       \/ Fault
    /\ fetching' = Absent
    /\ UNCHANGED <<ticketVars, queue, listening, orderVars, paymentVars, forgotten>>

\* The REST routes, which are those of the backend: two of them publish after
\* their changes of state.
Routes ==
    /\ listening
    /\ \/ /\ \/ \E w \in ClientIds \ forgotten, k \in tickets \cup {Unknown},
                   type \in Orders!WorkOrderTypes, ts \in SUBSET (TaskIds \ forgotten) :
                   w \in WorkOrderIds /\ Orders!CreateWorkOrder(w, k, type, ts)
             \/ \E w \in WorkOrderIds, t \in TaskIds \ forgotten :
                   Orders!AddTask(w, t) \/ Orders!CompleteTask(w, t)
             \/ \E b \in BookingIds \ forgotten, w \in Stored(workOrders) \cup {Unknown},
                   slot \in Slots : Orders!CreateBooking(b, w, slot[1], slot[2])
             \/ \E b \in BookingIds : Orders!ConfirmBooking(b)
          /\ UNCHANGED faults
       \/ \E c \in ClientIds \cap Calls :
             /\ \/ \E w \in ClientIds \ forgotten, k \in tickets \cup {Unknown, Absent},
                      ts \in SUBSET (TaskIds \ forgotten) :
                      w \in WorkOrderIds /\ Orders!CreateEmergencyWorkOrder(w, k, ts, c)
                \/ \E w \in WorkOrderIds : Orders!CompleteEmergencyWorkOrder(w, c)
             /\ Announce(c)
    /\ UNCHANGED <<ticketVars, chainVars, paymentVars, forgotten>>

\* (mutant) the tasks are kept where a restart does not empty them.
WoManagerStopsKeepingTasks ==
    /\ listening /\ Fault
    /\ listening' = FALSE
    /\ queue' = <<>> /\ fetching' = Absent
    /\ Forget(Stored(workOrders) \cup Stored(bookings))
    /\ workOrders' = Emptied(workOrders)
    /\ bookings' = Emptied(bookings)
    /\ UNCHANGED <<ticketVars, serviceTasks, notices, outcome, paymentVars>>

\* The process ends, killed or stopped.  A stop drains the subscription, but
\* closes the HTTP client first, so that what is still queued fails: either way
\* it is lost with the dictionaries.
WoManagerStops ==
    /\ listening /\ Fault
    /\ listening' = FALSE
    /\ queue' = <<>> /\ fetching' = Absent
    /\ Forget(Stored(workOrders) \cup Stored(serviceTasks) \cup Stored(bookings))
    /\ workOrders' = Emptied(workOrders)
    /\ serviceTasks' = Emptied(serviceTasks)
    /\ bookings' = Emptied(bookings)
    /\ UNCHANGED <<ticketVars, notices, outcome, paymentVars>>

WoManagerStarts ==
    /\ ~listening
    /\ listening' = TRUE
    /\ UNCHANGED <<ticketVars, queue, fetching, orderVars, paymentVars, faultVars>>

-----------------------------------------------------------------------------
\* payment-manager

\* (mutant) whatever the answer is, the payment is made.
CheckNothing(p, w) ==
    /\ p \in Fresh(payments) /\ checks[p] = Absent
    /\ checks' = [checks EXCEPT ![p] = w]
    /\ UNCHANGED <<ticketVars, chainVars, orderVars, payments, faultVars>>

\* POST /payments asks wo-manager, and goes on unless the answer is 404.  When
\* there is no answer the request fails and nothing happens.
CheckWorkOrder(p, w) ==
    /\ p \in Fresh(payments) /\ checks[p] = Absent
    /\ listening
    /\ w \in Stored(workOrders) \cup {Misrouted}
    /\ checks' = [checks EXCEPT ![p] = w]
    /\ UNCHANGED <<ticketVars, chainVars, orderVars, payments, faultVars>>

\* The answer arrives, and the payment is made.
CreatePayment(p) ==
    /\ checks[p] # Absent
    /\ payments' = [payments EXCEPT ![p] = [workOrder |-> checks[p], status |-> "Pending"]]
    /\ checks' = [checks EXCEPT ![p] = Absent]
    /\ UNCHANGED <<ticketVars, chainVars, orderVars, faultVars>>

\* PATCH /payments/{p}/mark-paid
MarkPaid(p) ==
    /\ p \in Stored(payments)
    /\ payments' = [payments EXCEPT ![p].status = "Paid"]
    /\ UNCHANGED <<ticketVars, chainVars, orderVars, checks, faultVars>>

\* A restart ends the requests that are under way, too.
PaymentManagerRestarts ==
    /\ Fault
    /\ Forget(Stored(payments))
    /\ payments' = Emptied(payments)
    /\ checks' = Emptied(checks)
    /\ UNCHANGED <<ticketVars, chainVars, orderVars>>

-----------------------------------------------------------------------------

\* The message in hand is settled.
Handling ==
    \/ \E w \in WorkOrderIds \ ClientIds, c \in Calls \ ClientIds : AutoCreateWorkOrder(w, c)
    \/ FetchFails

Next ==
    \/ \E k \in TicketIds : CreateTicket(k)
    \/ \E e \in EstimateIds, k \in TicketIds : CreateEstimate(e, k)
    \/ \E e \in EstimateIds : ApproveEstimate(e)
    \/ OnEstimateApproved
    \/ Handling
    \/ Routes
    \/ \E p \in PaymentIds, w \in WorkOrderIds \cup {Misrouted} : CheckWorkOrder(p, w)
    \/ \E p \in PaymentIds : CreatePayment(p) \/ MarkPaid(p)
    \/ TicketManagerRestarts \/ WoManagerStops \/ WoManagerStarts \/ PaymentManagerRestarts

\* The client library calls back for the next message as soon as the last
\* callback has returned, and httpx answers or gives up.
Fairness == WF_vars(OnEstimateApproved) /\ WF_vars(Handling)

Spec == Init /\ [][Next]_vars /\ Fairness

-----------------------------------------------------------------------------

\* The approvals of ticket k on their way to a work order.
UnderWay(k) ==
    Cardinality({i \in DOMAIN queue : queue[i] = k}) + (IF fetching = k THEN 1 ELSE 0)

\* The work orders there are because ticket k was approved, announced or not.
Assigned(k) ==
    {w \in Stored(workOrders) :
        /\ workOrders[w].ticket = k
        /\ workOrders[w].type = "CorrectiveMaintenance"
        /\ Orders!Sent("wo.assigned", w) # {}}

\* No approval makes two work orders, whatever is restarted, and as long as
\* nothing fails each has made one or is on its way to it.
ApprovalsAccounted ==
    \A k \in TicketIds : LET known == UnderWay(k) + Cardinality(Assigned(k)) IN
       known <= approvals[k] /\ (faults = 0 => known = approvals[k])

\* A payment is for a work order that wo-manager knew when it was asked, though it
\* may have been restarted since; get_work_order answers for any other id with 404.
PaymentsFor ==
    \A p \in Stored(payments) :
       payments[p].workOrder \in Stored(workOrders) \cup forgotten \cup {Misrouted}

\* wo-manager keeps what WorkOrders says of work orders and tasks when it restarts in
\* between or fails to publish: it loses the dictionaries together, and nothing said
\* or meant to be said of a lost work order is taken for one about a new.
WoManagerConsistent ==
    /\ Orders!TaskListsAgree /\ Orders!CompletedHonest /\ Orders!TimesMatchStatus
    /\ \A w \in WorkOrderIds :
          /\ \A c, d \in Orders!Sent("wo.assigned", w) : c = d
          /\ Orders!Forced(w) /\ w \notin forgotten =>
                /\ w \in Stored(workOrders)
                /\ workOrders[w].type = "EmergencyMaintenance"
                /\ workOrders[w].status = "Completed"

\* And what it says of bookings.
BookingsConsistent == Orders!NoDoubleBooking /\ Orders!ConfirmedMeansStarted

\* Approvals reach wo-manager as AtMostOnce says, and all are settled.
Approvals == INSTANCE AtMostOnce WITH
    Topics <- TicketIds, Limit <- MaxApprovals,
    outstanding <- [k \in TicketIds |-> UnderWay(k)],
    handled <- [k \in TicketIds |-> Cardinality(Assigned(k))],
    faulty <- faults > 0

ImplementsAtMostOnce == Approvals!Spec

=============================================================================

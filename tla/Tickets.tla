------------------------------ MODULE Tickets ------------------------------
(***************************************************************************)
(* Tickets, estimates and payments of the backend, composed with the work  *)
(* orders they lead to and are paid for: routes/tickets.py,                *)
(* routes/payments.py and the chain of records tasks/wo_scheduler.py makes *)
(* for a due schedule.                                                     *)
(*                                                                         *)
(* Approving an estimate calls on_estimate_approved directly, so that the  *)
(* approval and the new work order are one step; the caller is suspended   *)
(* only afterwards, in the dispatch of the notification.                   *)
(***************************************************************************)
EXTENDS FiniteSets, Naturals

CONSTANTS
    EstimateIds, PaymentIds,            \* the uuids that may be issued
    WorkOrderIds, TaskIds, BookingIds, TicketIds, Calls, Slots, Absent, Unknown

VARIABLES
    tickets,        \* the keys of state.tickets
    estimates,      \* state.estimates
    payments,       \* state.payments
    workOrders, serviceTasks, bookings, notices, outcome

\* A client may name a ticket that was never issued.
Orders == INSTANCE WorkOrders WITH TicketIds <- TicketIds \cup {Unknown}

orderVars == <<workOrders, serviceTasks, bookings, notices, outcome>>
vars == <<tickets, estimates, payments, orderVars>>

Estimate == [ticket : TicketIds, status : {"draft", "approved"}]
Payment == [workOrder : WorkOrderIds, status : {"Pending", "Paid"}]

ASSUME TicketsAssumption ==
    /\ Absent \notin Estimate \cup Payment
    /\ Unknown \notin TicketIds \cup WorkOrderIds /\ Slots \subseteq Nat \X Nat
    /\ Absent \notin Orders!WorkOrder \cup Orders!ServiceTask \cup Orders!Booking \cup Orders!Notice
    /\ IsFiniteSet(EstimateIds) /\ IsFiniteSet(WorkOrderIds)

\* Every dictionary of state.py holds records of its schema, work orders included.
TypeOK ==
    /\ tickets \in SUBSET TicketIds
    /\ estimates \in [EstimateIds -> Estimate \cup {Absent}]
    /\ payments \in [PaymentIds -> Payment \cup {Absent}]
    /\ Orders!TypeOK

Init ==
    /\ tickets = {}
    /\ estimates = [e \in EstimateIds |-> Absent]
    /\ payments = [p \in PaymentIds |-> Absent]
    /\ Orders!Init

-----------------------------------------------------------------------------

Stored(dict) == Orders!Stored(dict)
Unissued(dict) == Orders!Unissued(dict)

\* POST /tickets
CreateTicket(k) ==
    /\ k \notin tickets
    /\ tickets' = tickets \cup {k}
    /\ UNCHANGED <<estimates, payments, orderVars>>

\* POST /estimates
CreateEstimate(e, k) ==
    /\ e \in Unissued(estimates)
    /\ k \in tickets
    /\ estimates' = [estimates EXCEPT ![e] = [ticket |-> k, status |-> "draft"]]
    /\ UNCHANGED <<tickets, payments, orderVars>>

\* (mutant) an estimate of a ticket that has a work order announces that one.
ApproveEstimateAnnouncing(e, w, c) ==
    /\ e \in Stored(estimates)
    /\ estimates' = [estimates EXCEPT ![e].status = "approved"]
    /\ \/ /\ w \in Stored(workOrders) /\ workOrders[w].ticket = estimates[e].ticket
          /\ Orders!Send(c, "wo.assigned", w)
          /\ UNCHANGED <<workOrders, serviceTasks, bookings>>
       \/ /\ \A v \in Stored(workOrders) : workOrders[v].ticket # estimates[e].ticket
          /\ Orders!OnEstimateApproved(w, estimates[e].ticket, c)
    /\ UNCHANGED <<tickets, payments>>

\* (mutant) only the first approval for a ticket makes a work order.
ApproveEstimateOnce(e, w, c) ==
    /\ e \in Stored(estimates)
    /\ estimates' = [estimates EXCEPT ![e].status = "approved"]
    /\ \/ /\ \A v \in Stored(workOrders) : workOrders[v].ticket # estimates[e].ticket
          /\ Orders!OnEstimateApproved(w, estimates[e].ticket, c)
       \/ /\ \E v \in Stored(workOrders) : workOrders[v].ticket = estimates[e].ticket
          /\ UNCHANGED orderVars
    /\ UNCHANGED <<tickets, payments>>

\* PATCH /estimates/{e}/approve, whatever the estimate's status is.  The branch
\* of on_estimate_approved for a ticket that is gone is dead, see TicketsKnown.
ApproveEstimate(e, w, c) ==
    /\ e \in Stored(estimates)
    /\ estimates' = [estimates EXCEPT ![e].status = "approved"]
    /\ Orders!OnEstimateApproved(w, estimates[e].ticket, c)
    /\ UNCHANGED <<tickets, payments>>

\* _trigger of wo_scheduler, up to its suspension: a ticket, an estimate that is
\* approved at once and the work order; see Schedules for when it runs.
TriggerSchedule(k, e, w, c) ==
    /\ k \notin tickets /\ tickets' = tickets \cup {k}
    /\ e \in Unissued(estimates)
    /\ estimates' = [estimates EXCEPT ![e] = [ticket |-> k, status |-> "approved"]]
    /\ Orders!OnEstimateApproved(w, k, c)
    /\ UNCHANGED payments

\* POST /payments: the work order must exist, in whatever status.
CreatePayment(p, w) ==
    /\ p \in Unissued(payments)
    /\ w \in Stored(workOrders)
    /\ payments' = [payments EXCEPT ![p] = [workOrder |-> w, status |-> "Pending"]]
    /\ UNCHANGED <<tickets, estimates, orderVars>>

\* PATCH /payments/{p}/mark-paid
MarkPaid(p) ==
    /\ p \in Stored(payments)
    /\ payments' = [payments EXCEPT ![p].status = "Paid"]
    /\ UNCHANGED <<tickets, estimates, orderVars>>

-----------------------------------------------------------------------------

\* What the other routes do to work orders meanwhile: everything but
\* on_estimate_approved, which nobody else calls.
OrdersStep ==
    /\ \/ \E w \in WorkOrderIds, k \in tickets \cup {Unknown}, type \in Orders!WorkOrderTypes,
             ts \in SUBSET TaskIds : Orders!CreateWorkOrder(w, k, type, ts)
       \/ \E w \in WorkOrderIds, k \in tickets \cup {Unknown, Absent},
             ts \in SUBSET TaskIds, c \in Calls : Orders!CreateEmergencyWorkOrder(w, k, ts, c)
       \/ \E w \in WorkOrderIds, t \in TaskIds :
             Orders!AddTask(w, t) \/ Orders!CompleteTask(w, t)
       \/ \E w \in WorkOrderIds, c \in Calls : Orders!CompleteEmergencyWorkOrder(w, c)
       \/ \E b \in BookingIds, w \in Stored(workOrders) \cup {Unknown},
             slot \in Slots : Orders!CreateBooking(b, w, slot[1], slot[2])
       \/ \E b \in BookingIds : Orders!ConfirmBooking(b)
       \/ \E c \in Calls : Orders!NoticeSettled(c)
    /\ UNCHANGED <<tickets, estimates, payments>>

Next ==
    \/ \E k \in TicketIds : CreateTicket(k)
    \/ \E e \in EstimateIds, k \in TicketIds : CreateEstimate(e, k)
    \/ \E e \in EstimateIds, w \in WorkOrderIds, c \in Calls : ApproveEstimate(e, w, c)
    \/ \E k \in TicketIds, e \in EstimateIds, w \in WorkOrderIds, c \in Calls :
          TriggerSchedule(k, e, w, c)
    \/ \E p \in PaymentIds, w \in WorkOrderIds : CreatePayment(p, w)
    \/ \E p \in PaymentIds : MarkPaid(p)
    \/ OrdersStep

Spec == Init /\ [][Next]_vars /\ Orders!Fairness

-----------------------------------------------------------------------------

Approved(k) == {e \in Stored(estimates) : estimates[e].ticket = k /\ estimates[e].status = "approved"}

\* The work orders on_estimate_approved made for ticket k: it alone announces a
\* CorrectiveMaintenance.
Assigned(k) ==
    {w \in Stored(workOrders) :
        /\ workOrders[w].ticket = k
        /\ workOrders[w].type = "CorrectiveMaintenance"
        /\ Orders!Sent("wo.assigned", w) # {}}

\* An estimate belongs to a ticket that is there, so that on_estimate_approved
\* never skips the work order.
TicketsKnown == \A e \in Stored(estimates) : estimates[e].ticket \in tickets

\* No approval is lost: a ticket has at least as many announced work orders as
\* approved estimates, two estimates of one ticket included.
WorkForEveryApproval ==
    \A k \in TicketIds : Cardinality(Approved(k)) <= Cardinality(Assigned(k))

\* A payment is for a work order that is there, and a Paid one stays Paid.
PaymentsFor == \A p \in Stored(payments) : payments[p].workOrder \in Stored(workOrders)

\* A payment marked as paid, an approved estimate and a ticket stay what they are.
SettledStays ==
    /\ tickets \subseteq tickets'
    /\ \A p \in Stored(payments) :
          p \in Stored(payments') /\ payments'[p].workOrder = payments[p].workOrder
             /\ (payments[p].status = "Paid" => payments'[p].status = "Paid")
    /\ \A e \in Stored(estimates) :
          e \in Stored(estimates') /\ estimates'[e].ticket = estimates[e].ticket
             /\ (estimates[e].status = "approved" => estimates'[e].status = "approved")

SettlementFinal == [][SettledStays]_vars

\* Whatever route a work order comes from, an approval, a schedule or an emergency,
\* nobody is told of it twice, and who is told of an emergency's completion is told
\* the truth for good, however often it is completed.
NoticesTrue == Orders!NoticesTrue

=============================================================================

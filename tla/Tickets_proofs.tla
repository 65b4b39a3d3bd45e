--------------------------- MODULE Tickets_proofs ---------------------------
EXTENDS Tickets, FiniteSetTheorems, TLAPS

\* The proofs about work orders, which hold of the composition as well.
OrdersProofs == INSTANCE WorkOrders_proofs WITH TicketIds <- TicketIds \cup {Unknown}

-----------------------------------------------------------------------------
\* Orders and OrdersProofs are two instances of one module.
LEMMA SameAssumption ==
    Absent \notin OrdersProofs!WorkOrder \cup OrdersProofs!ServiceTask
                 \cup OrdersProofs!Booking \cup OrdersProofs!Notice
  BY TicketsAssumption DEF Orders!WorkOrder, OrdersProofs!WorkOrder, Orders!ServiceTask, OrdersProofs!ServiceTask,
     Orders!Booking, OrdersProofs!Booking, Orders!Notice, OrdersProofs!Notice,
     Orders!WorkOrderTypes, OrdersProofs!WorkOrderTypes

LEMMA SameType ==
    /\ Orders!TypeOK <=> OrdersProofs!TypeOK
    /\ (Orders!TypeOK)' <=> (OrdersProofs!TypeOK)'
  BY DEF Orders!TypeOK, OrdersProofs!TypeOK, Orders!WorkOrder, OrdersProofs!WorkOrder, Orders!ServiceTask, OrdersProofs!ServiceTask,
     Orders!Booking, OrdersProofs!Booking, Orders!Notice, OrdersProofs!Notice,
     Orders!WorkOrderTypes, OrdersProofs!WorkOrderTypes, Orders!Dispatcher!TypeOK,
     OrdersProofs!Dispatcher!TypeOK, Orders!Dispatcher!Outcomes,
     OrdersProofs!Dispatcher!Outcomes, Orders!Dispatcher!Verdicts,
     OrdersProofs!Dispatcher!Verdicts

LEMMA SameInit == Orders!Init <=> OrdersProofs!Init
  BY DEF Orders!Init, OrdersProofs!Init, Orders!Dispatcher!Init, OrdersProofs!Dispatcher!Init

LEMMA SameNext == [Orders!Next]_orderVars <=> [OrdersProofs!Next]_OrdersProofs!vars
  BY DEF Orders!Next, OrdersProofs!Next, orderVars, OrdersProofs!vars, Orders!Stored, OrdersProofs!Stored, Orders!Unissued, OrdersProofs!Unissued, Orders!Send,
     OrdersProofs!Send, Orders!SendNothing, OrdersProofs!SendNothing, Orders!StoreTasks,
     OrdersProofs!StoreTasks, Orders!Store, OrdersProofs!Store, Orders!BuildWorkOrder,
     OrdersProofs!BuildWorkOrder, Orders!OnEstimateApproved,
     OrdersProofs!OnEstimateApproved, Orders!CreateWorkOrder, OrdersProofs!CreateWorkOrder,
     Orders!CreateEmergencyWorkOrder, OrdersProofs!CreateEmergencyWorkOrder, Orders!AddTask,
     OrdersProofs!AddTask, Orders!AllDoneWith, OrdersProofs!AllDoneWith,
     Orders!CompleteTask, OrdersProofs!CompleteTask, Orders!CompleteEmergencyWorkOrder,
     OrdersProofs!CompleteEmergencyWorkOrder, Orders!BookingsOverlap,
     OrdersProofs!BookingsOverlap, Orders!CreateBooking, OrdersProofs!CreateBooking,
     Orders!ConfirmBooking, OrdersProofs!ConfirmBooking, Orders!NoticeSettled,
     OrdersProofs!NoticeSettled, Orders!WorkOrderTypes, OrdersProofs!WorkOrderTypes,
     Orders!Dispatcher!Accept, OrdersProofs!Dispatcher!Accept, Orders!Dispatcher!Return,
     OrdersProofs!Dispatcher!Return, Orders!Dispatcher!Settle,
     OrdersProofs!Dispatcher!Settle, Orders!Dispatcher!Verdicts,
     OrdersProofs!Dispatcher!Verdicts

-----------------------------------------------------------------------------
(***************************************************************************)
(* The composition implements WorkOrders: every step either leaves the     *)
(* work orders alone or is one of their actions.                           *)
(***************************************************************************)

LEMMA OrdersStepRefines == ASSUME TypeOK, OrdersStep PROVE Orders!Next
<1>1. tickets \cup {Unknown} \subseteq TicketIds \cup {Unknown}
  BY DEF TypeOK
<1>2. ASSUME NEW w \in WorkOrderIds, NEW k \in tickets \cup {Unknown},
             NEW type \in Orders!WorkOrderTypes, NEW ts \in SUBSET TaskIds,
             Orders!CreateWorkOrder(w, k, type, ts)
      PROVE Orders!Next
  BY <1>1, <1>2 DEF Orders!Next
<1>3. ASSUME NEW w \in WorkOrderIds, NEW k \in tickets \cup {Unknown, Absent},
             NEW ts \in SUBSET TaskIds, NEW c \in Calls,
             Orders!CreateEmergencyWorkOrder(w, k, ts, c)
      PROVE Orders!Next
  BY <1>1, <1>3 DEF Orders!Next
<1>4. ASSUME NEW w \in WorkOrderIds, NEW t \in TaskIds,
             Orders!AddTask(w, t) \/ Orders!CompleteTask(w, t)
      PROVE Orders!Next
  BY <1>4 DEF Orders!Next
<1>5. ASSUME NEW w \in WorkOrderIds, NEW c \in Calls, Orders!CompleteEmergencyWorkOrder(w, c)
      PROVE Orders!Next
  BY <1>5 DEF Orders!Next
<1>6. ASSUME NEW b \in BookingIds, NEW w \in Stored(workOrders) \cup {Unknown},
             NEW slot \in Slots, Orders!CreateBooking(b, w, slot[1], slot[2])
      PROVE Orders!Next
  BY <1>6 DEF Orders!Next, Stored
<1>7. ASSUME NEW b \in BookingIds, Orders!ConfirmBooking(b)
      PROVE Orders!Next
  BY <1>7 DEF Orders!Next
<1>8. ASSUME NEW c \in Calls, Orders!NoticeSettled(c)
      PROVE Orders!Next
  BY <1>8 DEF Orders!Next
<1> QED
  BY <1>2, <1>3, <1>4, <1>5, <1>6, <1>7, <1>8 DEF OrdersStep

LEMMA NextRefines == ASSUME TypeOK, [Next]_vars PROVE [Orders!Next]_orderVars
<1>1. ASSUME NEW e \in EstimateIds, NEW w \in WorkOrderIds, NEW c \in Calls, ApproveEstimate(e, w, c)
      PROVE Orders!Next
  <2>1. estimates[e].ticket \in TicketIds \cup {Unknown}
    BY <1>1 DEF ApproveEstimate, TypeOK, Estimate, Stored, Orders!Stored
  <2> QED
    BY <1>1, <2>1 DEF ApproveEstimate, Orders!Next
<1>2. ASSUME NEW k \in TicketIds, NEW e \in EstimateIds, NEW w \in WorkOrderIds, NEW c \in Calls,
             TriggerSchedule(k, e, w, c)
      PROVE Orders!Next
  BY <1>2 DEF TriggerSchedule, Orders!Next
<1>3. CASE \/ \E k \in TicketIds : CreateTicket(k)
           \/ \E e \in EstimateIds, k \in TicketIds : CreateEstimate(e, k)
           \/ \E p \in PaymentIds, w \in WorkOrderIds : CreatePayment(p, w)
           \/ \E p \in PaymentIds : MarkPaid(p)
           \/ UNCHANGED vars
  BY <1>3 DEF CreateTicket, CreateEstimate, CreatePayment, MarkPaid, vars
<1> QED
  BY <1>1, <1>2, <1>3, OrdersStepRefines DEF Next

-----------------------------------------------------------------------------
(***************************************************************************)
(* What WorkOrders_proofs knows of work orders is kept by the composition, *)
(* and tickets, estimates and payments refer to what is there.             *)
(***************************************************************************)
IInv ==
    /\ TypeOK
    /\ OrdersProofs!IInv
    /\ TicketsKnown
    /\ PaymentsFor
    /\ WorkForEveryApproval

LEMMA TypeStep == TypeOK /\ [Next]_vars => TypeOK'
<1> SUFFICES ASSUME TypeOK, [Next]_vars PROVE TypeOK'
  OBVIOUS
<1>1. Orders!TypeOK'
  <2>1. OrdersProofs!TypeOK /\ [OrdersProofs!Next]_OrdersProofs!vars
    BY NextRefines, SameType, SameNext DEF TypeOK
  <2>2. OrdersProofs!TypeOK'
    BY <2>1, SameAssumption, TicketsAssumption, OrdersProofs!TypeStep
  <2> QED
    BY <2>2, SameType
<1>2. /\ tickets' \in SUBSET TicketIds
      /\ estimates' \in [EstimateIds -> Estimate \cup {Absent}]
      /\ payments' \in [PaymentIds -> Payment \cup {Absent}]
  <2> USE DEF Stored, Unissued, Orders!Stored, Orders!Unissued
  <2>1. ASSUME NEW k \in TicketIds, CreateTicket(k)
        PROVE  <1>2!:
    BY <2>1 DEF CreateTicket, TypeOK
  <2>2. ASSUME NEW e \in EstimateIds, NEW k \in TicketIds, CreateEstimate(e, k)
        PROVE  <1>2!:
    BY <2>2 DEF CreateEstimate, TypeOK, Estimate
  <2>3. ASSUME NEW e \in EstimateIds, NEW w \in WorkOrderIds, NEW c \in Calls,
               ApproveEstimate(e, w, c)
        PROVE  <1>2!:
    BY <2>3 DEF ApproveEstimate, TypeOK, Estimate
  <2>4. ASSUME NEW k \in TicketIds, NEW e \in EstimateIds, NEW w \in WorkOrderIds,
               NEW c \in Calls, TriggerSchedule(k, e, w, c)
        PROVE  <1>2!:
    BY <2>4 DEF TriggerSchedule, TypeOK, Estimate
  <2>5. ASSUME NEW p \in PaymentIds, NEW w \in WorkOrderIds, CreatePayment(p, w)
        PROVE  <1>2!:
    BY <2>5 DEF CreatePayment, TypeOK, Payment
  <2>6. ASSUME NEW p \in PaymentIds, MarkPaid(p)
        PROVE  <1>2!:
    BY <2>6 DEF MarkPaid, TypeOK, Payment
  <2>7. CASE OrdersStep \/ UNCHANGED vars
    BY <2>7 DEF OrdersStep, vars, TypeOK
  <2> QED
    BY <2>1, <2>2, <2>3, <2>4, <2>5, <2>6, <2>7 DEF Next
<1> QED
  BY <1>1, <1>2 DEF TypeOK

\* Work orders, their type and their ticket stay, and so do the notifications.
LEMMA AssignedStays ==
    ASSUME TypeOK, OrdersProofs!IInv, [Next]_vars, NEW k
    PROVE  Assigned(k) \subseteq Assigned(k)'
<1>1. OrdersProofs!TypeOK /\ OrdersProofs!NoticesBegun /\ [OrdersProofs!Next]_OrdersProofs!vars
  BY NextRefines, SameNext DEF OrdersProofs!IInv, OrdersProofs!NoticesStored
<1>2. OrdersProofs!Progress
  BY <1>1, SameAssumption, TicketsAssumption, OrdersProofs!ProgressStep
<1>3. ASSUME NEW w, OrdersProofs!Sent("wo.assigned", w) # {}
      PROVE  OrdersProofs!Sent("wo.assigned", w)' # {}
  BY <1>1, <1>3, SameAssumption, TicketsAssumption, OrdersProofs!SentStays
<1>4. ASSUME NEW w \in Assigned(k)
      PROVE  w \in Assigned(k)'
  <2>1. /\ w \in OrdersProofs!Stored(workOrders)
        /\ workOrders[w].ticket = k /\ workOrders[w].type = "CorrectiveMaintenance"
    BY DEF Assigned, Stored, Orders!Stored, OrdersProofs!Stored
  <2>2. /\ w \in OrdersProofs!Stored(workOrders')
        /\ workOrders'[w].ticket = k /\ workOrders'[w].type = "CorrectiveMaintenance"
    BY <1>2, <2>1 DEF OrdersProofs!Progress
  <2>3. OrdersProofs!Sent("wo.assigned", w) # {}
    BY DEF Assigned, Orders!Sent, OrdersProofs!Sent, Orders!Stored, OrdersProofs!Stored
  <2>4. Orders!Sent("wo.assigned", w)' # {}
    BY <1>3, <2>3 DEF Orders!Sent, OrdersProofs!Sent, Orders!Stored, OrdersProofs!Stored
  <2> QED
    BY <2>2, <2>4 DEF Assigned, Stored, Orders!Stored, OrdersProofs!Stored
<1> QED
  BY <1>4

\* An approval makes a work order that was not there.
LEMMA ApprovalAssigns ==
    ASSUME TypeOK, NEW w \in WorkOrderIds, NEW k \in TicketIds, NEW c \in Calls,
           Orders!OnEstimateApproved(w, k, c)
    PROVE  w \notin Assigned(k) /\ w \in Assigned(k)'
<1> DEFINE record == [ticket |-> k, type |-> "CorrectiveMaintenance", status |-> "Open",
                      tasks |-> {}, started |-> FALSE, done |-> FALSE]
           notice == [topic |-> "wo.assigned", workOrder |-> w]
<1>1. /\ w \in Orders!Unissued(workOrders)
      /\ workOrders' = [workOrders EXCEPT ![w] = record]
      /\ notices' = [notices EXCEPT ![c] = notice]
  BY DEF Orders!OnEstimateApproved, Orders!BuildWorkOrder, Orders!Store, Orders!Send
<1>2. record \in Orders!WorkOrder /\ notice \in Orders!Notice
  BY DEF Orders!WorkOrder, Orders!WorkOrderTypes, Orders!Notice
<1>3. record # Absent /\ notice # Absent
  BY <1>2, TicketsAssumption
<1>4. /\ workOrders'[w] # Absent /\ w \in DOMAIN workOrders'
      /\ workOrders'[w].ticket = k /\ workOrders'[w].type = "CorrectiveMaintenance"
  BY <1>1, <1>3 DEF TypeOK, Orders!TypeOK
<1>5. /\ notices'[c] # Absent /\ c \in DOMAIN notices'
      /\ notices'[c].topic = "wo.assigned" /\ notices'[c].workOrder = w
  BY <1>1, <1>3 DEF TypeOK, Orders!TypeOK
<1>6. Orders!Sent("wo.assigned", w)' # {}
  BY <1>5 DEF Orders!Sent, Orders!Stored
<1> QED
  BY <1>1, <1>4, <1>6 DEF Assigned, Stored, Orders!Stored, Orders!Unissued

\* If one more estimate of k is approved and one more work order of k is there,
\* the work orders are still as many.
LEMMA OneMoreEach ==
    ASSUME NEW A, NEW B, NEW S, NEW T, NEW e, NEW w, IsFiniteSet(A), IsFiniteSet(T),
           Cardinality(A) <= Cardinality(S), B \subseteq A \cup {e},
           S \cup {w} \subseteq T, w \notin S
    PROVE  Cardinality(B) <= Cardinality(T)
<1>1. IsFiniteSet(S) /\ IsFiniteSet(S \cup {w}) /\ IsFiniteSet(A \cup {e})
  BY FS_Subset, FS_AddElement
<1>2. Cardinality(S \cup {w}) = Cardinality(S) + 1
  BY <1>1, FS_AddElement
<1>3. Cardinality(S \cup {w}) <= Cardinality(T)
  BY FS_Subset
<1>4. Cardinality(B) <= Cardinality(A \cup {e})
  BY <1>1, FS_Subset
<1>5. Cardinality(A \cup {e}) <= Cardinality(A) + 1
  <2>1. Cardinality(A) \in Nat
    BY FS_CardinalityType
  <2>2. Cardinality(A \cup {e}) \in {Cardinality(A), Cardinality(A) + 1}
    BY FS_AddElement
  <2> QED
    BY <2>1, <2>2
<1>6. /\ Cardinality(A) \in Nat /\ Cardinality(S) \in Nat /\ Cardinality(T) \in Nat
      /\ IsFiniteSet(B) /\ Cardinality(B) \in Nat /\ Cardinality(A \cup {e}) \in Nat
  BY <1>1, FS_Subset, FS_CardinalityType
<1> QED
  BY <1>2, <1>3, <1>4, <1>5, <1>6

LEMMA WorkStep ==
    ASSUME TypeOK, TypeOK', OrdersProofs!IInv, WorkForEveryApproval, [Next]_vars
    PROVE  WorkForEveryApproval'
<1> SUFFICES ASSUME NEW k \in TicketIds
             PROVE  Cardinality(Approved(k)') <= Cardinality(Assigned(k)')
  BY DEF WorkForEveryApproval
<1>1. /\ IsFiniteSet(Approved(k)) /\ IsFiniteSet(Assigned(k)') /\ IsFiniteSet(Assigned(k))
      /\ IsFiniteSet(Approved(k)')
  <2>1. Approved(k) \subseteq EstimateIds /\ Approved(k)' \subseteq EstimateIds
    BY DEF Approved, Stored, Orders!Stored, TypeOK
  <2>2. Assigned(k) \subseteq WorkOrderIds /\ Assigned(k)' \subseteq WorkOrderIds
    BY DEF Assigned, Stored, Orders!Stored, TypeOK, Orders!TypeOK
  <2> QED
    BY <2>1, <2>2, TicketsAssumption, FS_Subset
<1>2. Cardinality(Approved(k)) <= Cardinality(Assigned(k)) /\ Assigned(k) \subseteq Assigned(k)'
  BY AssignedStays DEF WorkForEveryApproval
<1>3. CASE Approved(k)' \subseteq Approved(k)
  <2>1. Cardinality(Approved(k)') <= Cardinality(Approved(k))
    BY <1>1, <1>3, FS_Subset
  <2>2. Cardinality(Assigned(k)) <= Cardinality(Assigned(k)')
    BY <1>1, <1>2, FS_Subset
  <2>3. /\ Cardinality(Approved(k)) \in Nat /\ Cardinality(Approved(k)') \in Nat
        /\ Cardinality(Assigned(k)) \in Nat /\ Cardinality(Assigned(k)') \in Nat
    BY <1>1, FS_CardinalityType
  <2> QED
    BY <1>2, <2>1, <2>2, <2>3
<1>4. ASSUME NEW e \in EstimateIds, NEW w \in WorkOrderIds, NEW c \in Calls, NEW q \in TicketIds,
             Orders!OnEstimateApproved(w, q, c),
             Approved(k)' \subseteq Approved(k) \cup (IF q = k THEN {e} ELSE {})
      PROVE  Cardinality(Approved(k)') <= Cardinality(Assigned(k)')
  <2>1. CASE q # k
    BY <1>3, <1>4, <2>1
  <2>2. CASE q = k
    <3>1. w \notin Assigned(k) /\ w \in Assigned(k)'
      BY <1>4, <2>2, ApprovalAssigns
    <3>2. Approved(k)' \subseteq Approved(k) \cup {e} /\ Assigned(k) \cup {w} \subseteq Assigned(k)'
      BY <1>2, <1>4, <2>2, <3>1
    <3> QED
      BY <1>1, <1>2, <3>1, <3>2, OneMoreEach
  <2> QED
    BY <2>1, <2>2
<1>5. ASSUME NEW e \in EstimateIds, NEW w \in WorkOrderIds, NEW c \in Calls, ApproveEstimate(e, w, c)
      PROVE  Cardinality(Approved(k)') <= Cardinality(Assigned(k)')
  <2>1. estimates[e] \in Estimate /\ estimates[e].ticket \in TicketIds
    BY <1>5 DEF ApproveEstimate, Stored, Orders!Stored, TypeOK, Estimate
  <2>2. /\ estimates'[e].ticket = estimates[e].ticket
        /\ \A d \in EstimateIds \ {e} : estimates'[d] = estimates[d]
        /\ DOMAIN estimates = EstimateIds /\ DOMAIN estimates' = EstimateIds
    BY <1>5, <2>1 DEF ApproveEstimate, Estimate, TypeOK
  <2>3. Approved(k)' \subseteq Approved(k) \cup (IF estimates[e].ticket = k THEN {e} ELSE {})
    BY <2>2 DEF Approved, Stored, Orders!Stored
  <2> QED
    BY <1>4, <1>5, <2>1, <2>3 DEF ApproveEstimate
<1>6. ASSUME NEW q \in TicketIds, NEW e \in EstimateIds, NEW w \in WorkOrderIds, NEW c \in Calls,
             TriggerSchedule(q, e, w, c)
      PROVE  Cardinality(Approved(k)') <= Cardinality(Assigned(k)')
  <2>1. /\ estimates'[e].ticket = q
        /\ \A d \in EstimateIds \ {e} : estimates'[d] = estimates[d]
        /\ DOMAIN estimates = EstimateIds /\ DOMAIN estimates' = EstimateIds
    BY <1>6 DEF TriggerSchedule, TypeOK
  <2>2. Approved(k)' \subseteq Approved(k) \cup (IF q = k THEN {e} ELSE {})
    BY <2>1 DEF Approved, Stored, Orders!Stored
  <2> QED
    BY <1>4, <1>6, <2>2 DEF TriggerSchedule
<1>7. ASSUME NEW e \in EstimateIds, NEW q \in TicketIds, CreateEstimate(e, q)
      PROVE  Approved(k)' \subseteq Approved(k)
  <2>1. /\ estimates'[e].status = "draft"
        /\ \A d \in EstimateIds \ {e} : estimates'[d] = estimates[d]
        /\ DOMAIN estimates = EstimateIds /\ DOMAIN estimates' = EstimateIds
    BY <1>7 DEF CreateEstimate, TypeOK
  <2> QED
    BY <2>1 DEF Approved, Stored, Orders!Stored
<1>8. CASE UNCHANGED estimates
  BY <1>3, <1>8 DEF Approved, Stored, Orders!Stored
<1> QED
  BY <1>3, <1>5, <1>6, <1>7, <1>8 DEF Next, CreateTicket, CreatePayment, MarkPaid, OrdersStep, vars

-----------------------------------------------------------------------------

LEMMA TicketsKnownStep ==
    ASSUME TypeOK, TicketsKnown, [Next]_vars
    PROVE  TicketsKnown'
<1> USE DEF TicketsKnown, Stored, Unissued, Orders!Stored, Orders!Unissued, TypeOK
<1>1. ASSUME NEW k \in TicketIds, CreateTicket(k)
      PROVE  TicketsKnown'
  BY <1>1 DEF CreateTicket
<1>2. ASSUME NEW e \in EstimateIds, NEW k \in TicketIds, CreateEstimate(e, k)
      PROVE  TicketsKnown'
  BY <1>2 DEF CreateEstimate
<1>3. ASSUME NEW e \in EstimateIds, NEW w \in WorkOrderIds, NEW c \in Calls,
             ApproveEstimate(e, w, c)
      PROVE  TicketsKnown'
  <2>1. estimates[e] \in Estimate
    BY <1>3 DEF ApproveEstimate
  <2> QED
    BY <1>3, <2>1 DEF ApproveEstimate, Estimate
<1>4. ASSUME NEW k \in TicketIds, NEW e \in EstimateIds, NEW w \in WorkOrderIds, NEW c \in Calls,
             TriggerSchedule(k, e, w, c)
      PROVE  TicketsKnown'
  BY <1>4 DEF TriggerSchedule
<1>5. CASE UNCHANGED <<tickets, estimates>>
  BY <1>5
<1> QED
  BY <1>1, <1>2, <1>3, <1>4, <1>5 DEF Next, CreatePayment, MarkPaid, OrdersStep, vars

\* A stored work order is never removed, so that a payment keeps its own.
LEMMA PaymentsForStep ==
    ASSUME TypeOK, PaymentsFor, [Next]_vars
    PROVE  PaymentsFor'
<1>1. Stored(workOrders) \subseteq Stored(workOrders')
  <2>1. OrdersProofs!TypeOK /\ [OrdersProofs!Next]_OrdersProofs!vars
    BY NextRefines, SameType, SameNext DEF TypeOK
  <2>2. OrdersProofs!Progress
    BY <2>1, SameAssumption, TicketsAssumption, OrdersProofs!ProgressStep
  <2> QED
    BY <2>2 DEF OrdersProofs!Progress, OrdersProofs!Stored, Stored, Orders!Stored
<1> USE DEF PaymentsFor, Stored, Unissued, Orders!Stored, Orders!Unissued, TypeOK
<1>2. ASSUME NEW p \in PaymentIds, NEW w \in WorkOrderIds, CreatePayment(p, w)
      PROVE  PaymentsFor'
  BY <1>2 DEF CreatePayment, orderVars
<1>3. ASSUME NEW p \in PaymentIds, MarkPaid(p)
      PROVE  PaymentsFor'
  <2>1. payments[p] \in Payment
    BY <1>3 DEF MarkPaid
  <2> QED
    BY <1>1, <1>3, <2>1 DEF MarkPaid, Payment
<1>4. CASE UNCHANGED payments
  BY <1>1, <1>4
<1> QED
  BY <1>2, <1>3, <1>4 DEF Next, CreateTicket, CreateEstimate, ApproveEstimate, TriggerSchedule,
     OrdersStep, vars

LEMMA InitIInv == Init => IInv
<1> SUFFICES ASSUME Init PROVE IInv
  OBVIOUS
<1>1. OrdersProofs!IInv
  BY SameInit, SameAssumption, TicketsAssumption, OrdersProofs!InitIInv DEF Init
<1>2. TypeOK
  BY <1>1, SameType DEF OrdersProofs!IInv, Init, TypeOK
<1>3. Stored(estimates) = {} /\ Stored(payments) = {}
  BY DEF Init, Stored, Orders!Stored
<1>4. ASSUME NEW k \in TicketIds
      PROVE  Cardinality(Approved(k)) <= Cardinality(Assigned(k))
  <2>1. Approved(k) = {}
    BY <1>3 DEF Approved
  <2>2. Assigned(k) = {}
    BY DEF Init, Orders!Init, Assigned, Stored, Orders!Stored
  <2> QED
    BY <2>1, <2>2, FS_EmptySet
<1> QED
  BY <1>1, <1>2, <1>3, <1>4 DEF IInv, TicketsKnown, PaymentsFor, WorkForEveryApproval

LEMMA InductiveStep == IInv /\ [Next]_vars => IInv'
<1> SUFFICES ASSUME IInv, [Next]_vars PROVE IInv'
  OBVIOUS
<1>1. TypeOK'
  BY TypeStep DEF IInv
<1>2. OrdersProofs!IInv'
  <2>1. OrdersProofs!IInv /\ [OrdersProofs!Next]_OrdersProofs!vars
    BY NextRefines, SameNext DEF IInv
  <2> QED
    BY <2>1, SameAssumption, TicketsAssumption, OrdersProofs!InductiveStep
<1> QED
  BY <1>1, <1>2, TicketsKnownStep, PaymentsForStep, WorkStep DEF IInv

-----------------------------------------------------------------------------

\* The inductive invariant holds in every reachable state.
THEOREM Invariance == Spec => []IInv
  BY InitIInv, InductiveStep, PTL DEF Spec

\* Every store holds records of its schema: state.tickets to state.payments.
THEOREM TypeCorrect == Spec => []TypeOK
<1>1. IInv => TypeOK
  BY DEF IInv
<1> QED
  BY <1>1, Invariance, PTL

\* Work orders with tickets, payments and the scheduler around them: a work order is
\* announced once and a completed emergency stays completed.
THEOREM NoticesAlwaysTrue == Spec => []NoticesTrue
<1>1. IInv => NoticesTrue
  <2> SUFFICES ASSUME OrdersProofs!IInv PROVE NoticesTrue
    BY DEF IInv
  <2>1. OrdersProofs!NoticesTrue
    BY DEF OrdersProofs!IInv, OrdersProofs!NoticesTrueBut, OrdersProofs!NoticesTrue
  <2> QED
    BY <2>1 DEF NoticesTrue, Orders!NoticesTrue, OrdersProofs!NoticesTrue, Orders!Sent, OrdersProofs!Sent,
       Orders!Forced, OrdersProofs!Forced, Orders!Stored, OrdersProofs!Stored
<1> QED
  BY <1>1, Invariance, PTL

\* approve_estimate and _trigger: the ticket of an estimate is always there.
THEOREM TicketsAlwaysKnown == Spec => []TicketsKnown
<1>1. IInv => TicketsKnown
  BY DEF IInv
<1> QED
  BY <1>1, Invariance, PTL

\* create_payment: the work order of a payment is always there.
THEOREM PaymentsAlwaysFor == Spec => []PaymentsFor
<1>1. IInv => PaymentsFor
  BY DEF IInv
<1> QED
  BY <1>1, Invariance, PTL

\* approve_estimate and on_estimate_approved: no approval goes without its work
\* order, however many estimates a ticket has.
THEOREM ApprovalsNeverLost == Spec => []WorkForEveryApproval
<1>1. IInv => WorkForEveryApproval
  BY DEF IInv
<1> QED
  BY <1>1, Invariance, PTL

\* mark_paid, approve_estimate: what is settled is never taken back.
THEOREM SettlementStays == Spec => SettlementFinal
<1>1. TypeOK /\ [Next]_vars => [SettledStays]_vars
  <2> SUFFICES ASSUME TypeOK, [Next]_vars PROVE SettledStays \/ UNCHANGED vars
    OBVIOUS
  <2> USE DEF SettledStays, Stored, Unissued, Orders!Stored, Orders!Unissued, TypeOK
  <2>1. ASSUME NEW k \in TicketIds, CreateTicket(k)
        PROVE  SettledStays
    BY <2>1 DEF CreateTicket
  <2>2. ASSUME NEW e \in EstimateIds, NEW k \in TicketIds, CreateEstimate(e, k)
        PROVE  SettledStays
    BY <2>2 DEF CreateEstimate
  <2>3. ASSUME NEW e \in EstimateIds, NEW w \in WorkOrderIds, NEW c \in Calls,
               ApproveEstimate(e, w, c)
        PROVE  SettledStays
    <3>1. estimates[e] \in Estimate
      BY <2>3 DEF ApproveEstimate
    <3>2. estimates'[e] \in Estimate
      BY <2>3, <3>1 DEF ApproveEstimate, Estimate
    <3> QED
      BY <2>3, <3>1, <3>2, TicketsAssumption DEF ApproveEstimate, Estimate
  <2>4. ASSUME NEW k \in TicketIds, NEW e \in EstimateIds, NEW w \in WorkOrderIds,
               NEW c \in Calls, TriggerSchedule(k, e, w, c)
        PROVE  SettledStays
    BY <2>4 DEF TriggerSchedule
  <2>5. ASSUME NEW p \in PaymentIds, NEW w \in WorkOrderIds, CreatePayment(p, w)
        PROVE  SettledStays
    BY <2>5 DEF CreatePayment
  <2>6. ASSUME NEW p \in PaymentIds, MarkPaid(p)
        PROVE  SettledStays
    <3>1. payments[p] \in Payment
      BY <2>6 DEF MarkPaid
    <3>2. payments'[p] \in Payment
      BY <2>6, <3>1 DEF MarkPaid, Payment
    <3> QED
      BY <2>6, <3>1, <3>2, TicketsAssumption DEF MarkPaid, Payment
  <2>7. CASE OrdersStep
    BY <2>7 DEF OrdersStep
  <2> QED
    BY <2>1, <2>2, <2>3, <2>4, <2>5, <2>6, <2>7 DEF Next
<1> QED
  BY <1>1, TypeCorrect, PTL DEF Spec, SettlementFinal

=============================================================================

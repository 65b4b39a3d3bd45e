-------------------------- MODULE WorkOrders_proofs --------------------------
EXTENDS WorkOrders, TLAPS

(***************************************************************************)
(* The inductive invariant.  The last two conjuncts are what the others    *)
(* lean on: a notification names a stored work order and belongs to an     *)
(* invocation of dispatch() that has begun (so no invocation is ever used  *)
(* twice and Forced never turns false), and a booking made for a work      *)
(* order was made when that work order existed.                            *)
(*                                                                         *)
(* What is said of notifications is said for work orders that may be lost, *)
(* which none are here, but wo-manager's are when it restarts.             *)
(***************************************************************************)
NoticesBegun == \A c \in Calls : notices[c] = Absent <=> outcome[c] = "idle"

NoticesStored(lost) ==
    /\ NoticesBegun
    /\ \A c \in Calls :
          notices[c] # Absent => notices[c].workOrder \in Stored(workOrders) \cup lost

NoticesTrueBut(lost) ==
    \A w \in WorkOrderIds :
       /\ \A c, d \in Sent("wo.assigned", w) : c = d
       /\ Forced(w) /\ w \notin lost =>
             /\ w \in Stored(workOrders)
             /\ workOrders[w].type = "EmergencyMaintenance"
             /\ workOrders[w].status = "Completed"

BookingsStored ==
    \A b \in Stored(bookings) : bookings[b].workOrder \in Stored(workOrders) \cup {Unknown}

IInv ==
    /\ TypeOK
    /\ TaskListsAgree
    /\ CompletedHonest
    /\ TimesMatchStatus
    /\ NoDoubleBooking
    /\ ConfirmedMeansStarted
    /\ NoticesTrue
    /\ NoticesStored({})
    /\ BookingsStored

-----------------------------------------------------------------------------

LEMMA InitIInv == Init => IInv
  BY WorkOrdersAssumption DEF Init, IInv, TypeOK, TaskListsAgree, CompletedHonest,
     TimesMatchStatus, NoDoubleBooking, ConfirmedMeansStarted, NoticesTrue, NoticesStored,
     NoticesBegun,
     BookingsStored, Stored, Sent, Forced, Dispatcher!Init, Dispatcher!TypeOK, Dispatcher!Outcomes

\* What complete_task changes, field by field.
LEMMA CompleteTaskEffect ==
    ASSUME TypeOK, NEW w \in WorkOrderIds, NEW t \in TaskIds, CompleteTask(w, t)
    PROVE  /\ workOrders' \in [WorkOrderIds -> WorkOrder \cup {Absent}]
           /\ serviceTasks' \in [TaskIds -> ServiceTask \cup {Absent}]
           /\ workOrders[w] \in WorkOrder /\ workOrders'[w] \in WorkOrder
           /\ serviceTasks[t] \in ServiceTask /\ serviceTasks'[t] \in ServiceTask
           /\ \A v \in WorkOrderIds \ {w} : workOrders'[v] = workOrders[v]
           /\ \A u \in TaskIds \ {t} : serviceTasks'[u] = serviceTasks[u]
           /\ serviceTasks'[t].completed
           /\ serviceTasks'[t].workOrder = serviceTasks[t].workOrder
           /\ workOrders'[w].type = workOrders[w].type
           /\ workOrders'[w].ticket = workOrders[w].ticket
           /\ workOrders'[w].tasks = workOrders[w].tasks
           /\ AllDoneWith(w, t) =>
                 workOrders'[w].status = "Completed" /\ workOrders'[w].done
           /\ ~AllDoneWith(w, t) =>
                 /\ workOrders'[w].status = IF workOrders[w].status = "Open" THEN "InProgress"
                                            ELSE workOrders[w].status
                 /\ workOrders'[w].done = workOrders[w].done
           /\ workOrders[w].status = "Open" => workOrders'[w].started
           /\ workOrders[w].status # "Open" => workOrders'[w].started = workOrders[w].started
<1> DEFINE status == IF AllDoneWith(w, t) THEN "Completed"
                     ELSE IF workOrders[w].status = "Open" THEN "InProgress"
                     ELSE workOrders[w].status
           started == IF workOrders[w].status = "Open" THEN TRUE ELSE workOrders[w].started
           done == IF AllDoneWith(w, t) THEN TRUE ELSE workOrders[w].done
<1>1. workOrders[w] \in WorkOrder /\ serviceTasks[t] \in ServiceTask
  BY DEF CompleteTask, TypeOK, Stored
<1>2. /\ status \in {"Open", "InProgress", "Completed"}
      /\ started \in BOOLEAN
      /\ done \in BOOLEAN
  BY <1>1 DEF WorkOrder
<1>3. /\ AllDoneWith(w, t) => status = "Completed" /\ done
      /\ ~AllDoneWith(w, t) =>
            /\ status = IF workOrders[w].status = "Open" THEN "InProgress" ELSE workOrders[w].status
            /\ done = workOrders[w].done
      /\ workOrders[w].status = "Open" => started
      /\ workOrders[w].status # "Open" => started = workOrders[w].started
  OBVIOUS
<1>4. workOrders' = [workOrders EXCEPT ![w].status = status, ![w].started = started,
                                       ![w].done = done]
  BY DEF CompleteTask
<1> HIDE DEF status, started, done
<1>5. /\ workOrders' \in [WorkOrderIds -> WorkOrder \cup {Absent}]
      /\ workOrders'[w] \in WorkOrder
      /\ \A v \in WorkOrderIds \ {w} : workOrders'[v] = workOrders[v]
      /\ workOrders'[w].type = workOrders[w].type
      /\ workOrders'[w].ticket = workOrders[w].ticket
      /\ workOrders'[w].tasks = workOrders[w].tasks
      /\ workOrders'[w].status = status
      /\ workOrders'[w].started = started
      /\ workOrders'[w].done = done
  BY <1>1, <1>2, <1>4 DEF WorkOrder, TypeOK
<1>6. /\ serviceTasks' \in [TaskIds -> ServiceTask \cup {Absent}]
      /\ serviceTasks'[t] \in ServiceTask
      /\ \A u \in TaskIds \ {t} : serviceTasks'[u] = serviceTasks[u]
      /\ serviceTasks'[t].completed
      /\ serviceTasks'[t].workOrder = serviceTasks[t].workOrder
  BY <1>1 DEF CompleteTask, ServiceTask, TypeOK
<1> QED
  BY <1>1, <1>3, <1>5, <1>6

LEMMA TypeStep == TypeOK /\ [Next]_vars => TypeOK'
<1> SUFFICES ASSUME TypeOK, [Next]_vars PROVE TypeOK'
  OBVIOUS
<1> USE WorkOrdersAssumption DEF TypeOK, Dispatcher!TypeOK, Dispatcher!Outcomes, Stored, Unissued
<1>1. ASSUME NEW w \in WorkOrderIds, NEW k \in TicketIds, NEW c \in Calls,
             OnEstimateApproved(w, k, c)
      PROVE TypeOK'
  BY <1>1 DEF OnEstimateApproved, BuildWorkOrder, Store, StoreTasks, Send, Dispatcher!Accept, Dispatcher!Settle, Dispatcher!Verdicts,
     WorkOrder, ServiceTask, Notice, WorkOrderTypes
<1>2. ASSUME NEW w \in WorkOrderIds, NEW k \in TicketIds, NEW type \in WorkOrderTypes,
             NEW ts \in SUBSET TaskIds, CreateWorkOrder(w, k, type, ts)
      PROVE TypeOK'
  BY <1>2 DEF CreateWorkOrder, BuildWorkOrder, Store, StoreTasks, SendNothing, WorkOrder, ServiceTask
<1>3. ASSUME NEW w \in WorkOrderIds, NEW k \in TicketIds \cup {Absent},
             NEW ts \in SUBSET TaskIds, NEW c \in Calls, CreateEmergencyWorkOrder(w, k, ts, c)
      PROVE TypeOK'
  BY <1>3 DEF CreateEmergencyWorkOrder, Store, StoreTasks, Send, Dispatcher!Accept, Dispatcher!Settle, Dispatcher!Verdicts,
     WorkOrder, ServiceTask, Notice, WorkOrderTypes
<1>4. ASSUME NEW w \in WorkOrderIds, NEW t \in TaskIds, AddTask(w, t)
      PROVE TypeOK'
  BY <1>4 DEF AddTask, StoreTasks, SendNothing, WorkOrder, ServiceTask
<1>5. ASSUME NEW w \in WorkOrderIds, NEW t \in TaskIds, CompleteTask(w, t)
      PROVE TypeOK'
  BY <1>5, CompleteTaskEffect DEF CompleteTask, SendNothing
<1>6. ASSUME NEW w \in WorkOrderIds, NEW c \in Calls, CompleteEmergencyWorkOrder(w, c)
      PROVE TypeOK'
  BY <1>6 DEF CompleteEmergencyWorkOrder, Send, Dispatcher!Accept, Dispatcher!Settle, Dispatcher!Verdicts,
     WorkOrder, Notice
<1>7. ASSUME NEW b \in BookingIds, NEW w \in Stored(workOrders) \cup {Unknown},
             NEW slot \in Slots, CreateBooking(b, w, slot[1], slot[2])
      PROVE TypeOK'
  BY <1>7 DEF CreateBooking, SendNothing, Booking
<1>8. ASSUME NEW b \in BookingIds, ConfirmBooking(b)
      PROVE TypeOK'
  BY <1>8 DEF ConfirmBooking, SendNothing, Booking, WorkOrder
<1>9. ASSUME NEW c \in Calls, NoticeSettled(c)
      PROVE TypeOK'
  BY <1>9 DEF NoticeSettled, Dispatcher!Return, Dispatcher!Settle, Dispatcher!Verdicts
<1>10. CASE UNCHANGED vars
  BY <1>10 DEF vars
<1> QED
  BY <1>1, <1>2, <1>3, <1>4, <1>5, <1>6, <1>7, <1>8, <1>9, <1>10 DEF Next

-----------------------------------------------------------------------------

\* What no step does to a stored work order, task or booking: the records
\* stay, with what identifies them, and progress is not undone.
Progress ==
    /\ \A w \in Stored(workOrders) :
          /\ w \in Stored(workOrders')
          /\ workOrders'[w].type = workOrders[w].type
          /\ workOrders'[w].ticket = workOrders[w].ticket
          /\ workOrders[w].tasks \subseteq workOrders'[w].tasks
          /\ workOrders[w].status # "Open" => workOrders'[w].status # "Open"
          /\ workOrders[w].status = "Completed" =>
                workOrders'[w].status = "Completed" /\ workOrders'[w].tasks = workOrders[w].tasks
    /\ \A t \in Stored(serviceTasks) :
          /\ t \in Stored(serviceTasks')
          /\ serviceTasks'[t].workOrder = serviceTasks[t].workOrder
          /\ serviceTasks[t].completed => serviceTasks'[t].completed
    /\ \A b \in Stored(bookings) :
          /\ b \in Stored(bookings')
          /\ bookings[b].status = "Confirmed" => bookings'[b].status = "Confirmed"

LEMMA ProgressStep == TypeOK /\ [Next]_vars => Progress
<1> SUFFICES ASSUME TypeOK, [Next]_vars PROVE Progress
  OBVIOUS
<1> USE WorkOrdersAssumption DEF TypeOK, Progress, Stored, Unissued
<1>1. ASSUME NEW w \in WorkOrderIds, NEW record \in WorkOrder, Store(w, record)
      PROVE Progress
  BY <1>1 DEF Store, StoreTasks, WorkOrder, ServiceTask
<1>2. ASSUME NEW w \in WorkOrderIds, NEW t \in TaskIds, AddTask(w, t)
      PROVE Progress
  BY <1>2 DEF AddTask, StoreTasks, WorkOrder, ServiceTask
<1>3. ASSUME NEW w \in WorkOrderIds, NEW t \in TaskIds, CompleteTask(w, t)
      PROVE Progress
  <2>1. /\ workOrders'[w] \in WorkOrder
        /\ \A v \in WorkOrderIds \ {w} : workOrders'[v] = workOrders[v]
        /\ workOrders'[w].type = workOrders[w].type
        /\ workOrders'[w].ticket = workOrders[w].ticket
        /\ workOrders'[w].tasks = workOrders[w].tasks
        /\ workOrders[w].status # "Open" => workOrders'[w].status # "Open"
        /\ workOrders[w].status = "Completed" => workOrders'[w].status = "Completed"
    BY <1>3, CompleteTaskEffect
  <2>2. /\ serviceTasks'[t] \in ServiceTask
        /\ \A u \in TaskIds \ {t} : serviceTasks'[u] = serviceTasks[u]
        /\ serviceTasks'[t].completed
        /\ serviceTasks'[t].workOrder = serviceTasks[t].workOrder
    BY <1>3, CompleteTaskEffect
  <2>3. DOMAIN workOrders' = WorkOrderIds /\ DOMAIN serviceTasks' = TaskIds
    BY <1>3, CompleteTaskEffect
  <2> QED
    BY <1>3, <2>1, <2>2, <2>3 DEF CompleteTask
<1>4. ASSUME NEW w \in WorkOrderIds, NEW c \in Calls, CompleteEmergencyWorkOrder(w, c)
      PROVE Progress
  BY <1>4 DEF CompleteEmergencyWorkOrder, WorkOrder
<1>5. ASSUME NEW b \in BookingIds, NEW w \in Stored(workOrders) \cup {Unknown},
             NEW slot \in Slots, CreateBooking(b, w, slot[1], slot[2])
      PROVE Progress
  BY <1>5 DEF CreateBooking, Booking
<1>6. ASSUME NEW b \in BookingIds, ConfirmBooking(b)
      PROVE Progress
  BY <1>6 DEF ConfirmBooking, Booking, WorkOrder
<1>7. ASSUME UNCHANGED <<workOrders, serviceTasks, bookings>>
      PROVE Progress
  BY <1>7
<1> QED
  <2>1. ASSUME NEW w \in WorkOrderIds, NEW k \in TicketIds, NEW type \in WorkOrderTypes,
               NEW ts \in SUBSET TaskIds, BuildWorkOrder(w, k, type, ts)
        PROVE Progress
    BY <2>1, <1>1 DEF BuildWorkOrder, WorkOrder
  <2>2. ASSUME NEW w \in WorkOrderIds, NEW k \in TicketIds \cup {Absent},
               NEW ts \in SUBSET TaskIds, NEW c \in Calls, CreateEmergencyWorkOrder(w, k, ts, c)
        PROVE Progress
    BY <2>2, <1>1 DEF CreateEmergencyWorkOrder, WorkOrder, WorkOrderTypes
  <2> HIDE DEF TypeOK, Progress, Stored, Unissued
  <2>3. CASE UNCHANGED vars
    BY <2>3, <1>7 DEF vars
  <2> QED
    BY <2>1, <2>2, <2>3, <1>2, <1>3, <1>4, <1>5, <1>6, <1>7
    DEF Next, OnEstimateApproved, CreateWorkOrder, NoticeSettled, WorkOrderTypes

-----------------------------------------------------------------------------
\* One lemma per conjunct of the invariant.  Each first treats the operations
\* that can disturb it and then reads Next as those operations.

LEMMA NoticesStep ==
    ASSUME TypeOK, NEW lost, NoticesTrueBut(lost), NoticesStored(lost), [Next]_vars,
           \A w \in Unissued(workOrders) : w \in Stored(workOrders') => w \notin lost
    PROVE  NoticesTrueBut(lost)' /\ NoticesStored(lost)'
<1>1. Progress /\ TypeOK'
  BY ProgressStep, TypeStep
<1> USE WorkOrdersAssumption
<1>2. ASSUME UNCHANGED notices, NEW c \in Calls,
             UNCHANGED outcome \/ Dispatcher!Return(c)
      PROVE  NoticesTrueBut(lost)' /\ NoticesStored(lost)'
  BY <1>1, <1>2 DEF TypeOK, NoticesTrueBut, NoticesStored, NoticesBegun, Progress, Sent, Forced, Stored,
     Dispatcher!Return, Dispatcher!Settle, Dispatcher!TypeOK, Dispatcher!Verdicts
<1>3. ASSUME NEW w \in WorkOrderIds, NEW c \in Calls, NEW topic, Send(c, topic, w),
             topic \in {"wo.assigned", "wo.emergency.completed"}, w \in Stored(workOrders')
      PROVE  /\ NoticesStored(lost)'
             /\ notices'[c].topic = topic /\ notices'[c].workOrder = w
             /\ \A d \in Calls \ {c} : notices'[d] = notices[d]
             /\ c \notin Stored(notices)
             /\ Stored(notices') = Stored(notices) \cup {c}
  <2>1. notices[c] = Absent
    BY <1>3 DEF Send, NoticesStored, NoticesBegun
  <2>2. /\ notices' = [notices EXCEPT ![c] = [topic |-> topic, workOrder |-> w]]
        /\ \E v \in {"pending", "success", "error"} : outcome' = [outcome EXCEPT ![c] = v]
    BY <1>3 DEF Send, Dispatcher!Accept, Dispatcher!Settle, Dispatcher!Verdicts
  <2>3. [topic |-> topic, workOrder |-> w] \in Notice
    BY <1>3 DEF Notice
  <2> QED
    BY <1>1, <1>3, <2>1, <2>2, <2>3 DEF TypeOK, NoticesStored, NoticesBegun, Progress, Stored, Dispatcher!TypeOK
<1>4. ASSUME NEW w \in WorkOrderIds, NEW c \in Calls, w \in Unissued(workOrders),
             w \in Stored(workOrders'), Send(c, "wo.assigned", w)
      PROVE  NoticesTrueBut(lost)' /\ NoticesStored(lost)'
  <2>1. \A v \in WorkOrderIds : Sent("wo.emergency.completed", v)' = Sent("wo.emergency.completed", v)
    BY <1>3, <1>4 DEF Sent, Stored, TypeOK
  <2>2. \A v \in WorkOrderIds \ {w} : Sent("wo.assigned", v)' = Sent("wo.assigned", v)
    BY <1>3, <1>4 DEF Sent, Stored, TypeOK
  <2>3. Sent("wo.assigned", w)' = {c}
    BY <1>3, <1>4 DEF Sent, Stored, Unissued, TypeOK, NoticesStored, NoticesBegun
  <2> QED
    BY <1>1, <1>3, <1>4, <2>1, <2>2, <2>3 DEF NoticesTrueBut, Forced, Progress
<1>5. ASSUME NEW w \in WorkOrderIds, NEW c \in Calls, w \in Stored(workOrders'),
             workOrders'[w].type = "EmergencyMaintenance", workOrders'[w].status = "Completed",
             Send(c, "wo.emergency.completed", w)
      PROVE  NoticesTrueBut(lost)' /\ NoticesStored(lost)'
  <2>1. \A v \in WorkOrderIds \ {w} : Sent("wo.emergency.completed", v)' = Sent("wo.emergency.completed", v)
    BY <1>3, <1>5 DEF Sent, Stored, TypeOK
  <2>2. \A v \in WorkOrderIds : Sent("wo.assigned", v)' = Sent("wo.assigned", v)
    BY <1>3, <1>5 DEF Sent, Stored, TypeOK
  <2> QED
    BY <1>1, <1>3, <1>5, <2>1, <2>2 DEF NoticesTrueBut, Forced, Progress
<1>6. ASSUME NEW w \in WorkOrderIds, NEW record \in WorkOrder, Store(w, record)
      PROVE  w \in Unissued(workOrders) /\ w \in Stored(workOrders')
  BY <1>6 DEF Store, TypeOK, Stored, Unissued
<1>7. ASSUME NEW w \in WorkOrderIds, NEW k \in TicketIds, NEW c \in Calls,
             OnEstimateApproved(w, k, c)
      PROVE  NoticesTrueBut(lost)' /\ NoticesStored(lost)'
  <2>1. [ticket |-> k, type |-> "CorrectiveMaintenance", status |-> "Open", tasks |-> {},
         started |-> FALSE, done |-> FALSE] \in WorkOrder
    BY DEF WorkOrder, WorkOrderTypes
  <2> QED
    BY <1>4, <1>6, <1>7, <2>1 DEF OnEstimateApproved, BuildWorkOrder
<1>8. ASSUME NEW w \in WorkOrderIds, NEW k \in TicketIds \cup {Absent},
             NEW ts \in SUBSET TaskIds, NEW c \in Calls, CreateEmergencyWorkOrder(w, k, ts, c)
      PROVE  NoticesTrueBut(lost)' /\ NoticesStored(lost)'
  <2>1. [ticket |-> k, type |-> "EmergencyMaintenance", status |-> "InProgress", tasks |-> ts,
         started |-> TRUE, done |-> FALSE] \in WorkOrder
    BY DEF WorkOrder, WorkOrderTypes
  <2> QED
    BY <1>4, <1>6, <1>8, <2>1 DEF CreateEmergencyWorkOrder
<1>9. ASSUME NEW w \in WorkOrderIds, NEW c \in Calls, CompleteEmergencyWorkOrder(w, c)
      PROVE  NoticesTrueBut(lost)' /\ NoticesStored(lost)'
  <2>1. /\ w \in Stored(workOrders')
        /\ workOrders'[w].type = "EmergencyMaintenance"
        /\ workOrders'[w].status = "Completed"
    BY <1>9 DEF CompleteEmergencyWorkOrder, TypeOK, WorkOrder, Stored
  <2> QED
    BY <1>5, <1>9, <2>1 DEF CompleteEmergencyWorkOrder
<1>10. CASE UNCHANGED <<notices, outcome>>
  <2>1. CASE Calls = {}
    BY <1>10, <2>1 DEF NoticesTrueBut, NoticesStored, NoticesBegun, Sent, Forced, Stored, TypeOK
  <2> QED
    BY <1>2, <1>10, <2>1
<1> QED
  BY <1>2, <1>7, <1>8, <1>9, <1>10 DEF Next, CreateWorkOrder, AddTask, CompleteTask,
     CreateBooking, ConfirmBooking, SendNothing, NoticeSettled, vars

LEMMA StoreTasksEffect ==
    ASSUME TypeOK, NEW w \in WorkOrderIds, NEW ts \in SUBSET TaskIds,
           ts \subseteq Unissued(serviceTasks), StoreTasks(w, ts)
    PROVE  /\ Stored(serviceTasks') = Stored(serviceTasks) \cup ts
           /\ ts \cap Stored(serviceTasks) = {}
           /\ \A t \in ts : serviceTasks'[t].workOrder = w
           /\ \A t \in Stored(serviceTasks) : serviceTasks'[t] = serviceTasks[t]
<1> DEFINE fresh == [workOrder |-> w, completed |-> FALSE]
<1>1. fresh # Absent /\ fresh.workOrder = w
  <2>1. fresh \in ServiceTask
    BY DEF ServiceTask
  <2>2. fresh # Absent
    BY <2>1, WorkOrdersAssumption
  <2> QED
    BY <2>2
<1>2. serviceTasks' = [t \in TaskIds |-> IF t \in ts THEN fresh ELSE serviceTasks[t]]
  BY DEF StoreTasks
<1> HIDE DEF fresh
<1>3. /\ DOMAIN serviceTasks = TaskIds /\ DOMAIN serviceTasks' = TaskIds
      /\ \A t \in ts : serviceTasks'[t] = fresh
      /\ \A t \in TaskIds \ ts : serviceTasks'[t] = serviceTasks[t]
  BY <1>2 DEF TypeOK
<1>4. \A t \in ts : serviceTasks[t] = Absent
  BY <1>3 DEF Stored, Unissued
<1> QED
  BY <1>1, <1>3, <1>4 DEF Stored

\* A new record and its tasks; b is any of the operations that store one.
LEMMA StoreEffect ==
    ASSUME TypeOK, NEW w \in WorkOrderIds, NEW record \in WorkOrder, Store(w, record)
    PROVE  /\ Stored(workOrders') = Stored(workOrders) \cup {w}
           /\ w \notin Stored(workOrders)
           /\ workOrders'[w] = record
           /\ \A v \in Stored(workOrders) : workOrders'[v] = workOrders[v]
           /\ Stored(serviceTasks') = Stored(serviceTasks) \cup record.tasks
           /\ record.tasks \cap Stored(serviceTasks) = {}
           /\ \A t \in record.tasks : serviceTasks'[t].workOrder = w
           /\ \A t \in Stored(serviceTasks) : serviceTasks'[t] = serviceTasks[t]
           /\ UNCHANGED bookings
<1>1. /\ Stored(workOrders') = Stored(workOrders) \cup {w}
      /\ w \notin Stored(workOrders)
      /\ workOrders'[w] = record
      /\ \A v \in Stored(workOrders) : workOrders'[v] = workOrders[v]
  BY WorkOrdersAssumption DEF Store, TypeOK, Stored, Unissued
<1>2. record.tasks \in SUBSET TaskIds
  BY DEF WorkOrder
<1>3. StoreTasks(w, record.tasks) /\ record.tasks \subseteq Unissued(serviceTasks) /\ UNCHANGED bookings
  BY DEF Store
<1>4. /\ Stored(serviceTasks') = Stored(serviceTasks) \cup record.tasks
      /\ record.tasks \cap Stored(serviceTasks) = {}
      /\ \A t \in record.tasks : serviceTasks'[t].workOrder = w
      /\ \A t \in Stored(serviceTasks) : serviceTasks'[t] = serviceTasks[t]
  BY <1>2, <1>3, StoreTasksEffect
<1> QED
  BY <1>1, <1>3, <1>4

LEMMA AddTaskEffect ==
    ASSUME TypeOK, NEW w \in WorkOrderIds, NEW t \in TaskIds, AddTask(w, t)
    PROVE  /\ w \in Stored(workOrders)
           /\ Stored(workOrders') = Stored(workOrders)
           /\ workOrders[w].status # "Completed"
           /\ workOrders'[w].tasks = workOrders[w].tasks \cup {t}
           /\ workOrders'[w].status = workOrders[w].status
           /\ workOrders'[w].started = workOrders[w].started
           /\ workOrders'[w].done = workOrders[w].done
           /\ \A v \in Stored(workOrders) \ {w} : workOrders'[v] = workOrders[v]
           /\ Stored(serviceTasks') = Stored(serviceTasks) \cup {t}
           /\ t \notin Stored(serviceTasks)
           /\ serviceTasks'[t].workOrder = w
           /\ \A u \in Stored(serviceTasks) : serviceTasks'[u] = serviceTasks[u]
           /\ UNCHANGED bookings
<1>1. workOrders[w] \in WorkOrder /\ w \in Stored(workOrders)
  BY DEF AddTask, Stored, TypeOK
<1>2. /\ Stored(workOrders') = Stored(workOrders)
      /\ workOrders'[w].tasks = workOrders[w].tasks \cup {t}
      /\ workOrders'[w].status = workOrders[w].status
      /\ workOrders'[w].started = workOrders[w].started
      /\ workOrders'[w].done = workOrders[w].done
      /\ \A v \in Stored(workOrders) \ {w} : workOrders'[v] = workOrders[v]
  <2>1. /\ workOrders'[w] \in WorkOrder
        /\ workOrders'[w].tasks = workOrders[w].tasks \cup {t}
        /\ workOrders'[w].status = workOrders[w].status
        /\ workOrders'[w].started = workOrders[w].started
        /\ workOrders'[w].done = workOrders[w].done
        /\ \A v \in WorkOrderIds \ {w} : workOrders'[v] = workOrders[v]
        /\ DOMAIN workOrders = WorkOrderIds /\ DOMAIN workOrders' = WorkOrderIds
    BY <1>1 DEF AddTask, WorkOrder, TypeOK
  <2>2. workOrders'[w] # Absent
    BY <2>1, WorkOrdersAssumption
  <2> QED
    BY <1>1, <2>1, <2>2 DEF Stored
<1>3. /\ Stored(serviceTasks') = Stored(serviceTasks) \cup {t}
      /\ t \notin Stored(serviceTasks)
      /\ serviceTasks'[t].workOrder = w
      /\ \A u \in Stored(serviceTasks) : serviceTasks'[u] = serviceTasks[u]
  BY StoreTasksEffect DEF AddTask, Unissued
<1> QED
  BY <1>1, <1>2, <1>3 DEF AddTask

\* complete_task again, in terms of what is stored.
LEMMA CompleteTaskStores ==
    ASSUME TypeOK, NEW w \in WorkOrderIds, NEW t \in TaskIds, CompleteTask(w, t)
    PROVE  /\ w \in Stored(workOrders) /\ t \in Stored(serviceTasks)
           /\ Stored(workOrders') = Stored(workOrders)
           /\ Stored(serviceTasks') = Stored(serviceTasks)
           /\ \A v \in Stored(workOrders) \ {w} : workOrders'[v] = workOrders[v]
           /\ \A u \in Stored(serviceTasks) \ {t} : serviceTasks'[u] = serviceTasks[u]
           /\ UNCHANGED bookings
<1>1. /\ workOrders'[w] # Absent /\ workOrders[w] # Absent
      /\ serviceTasks'[t] # Absent /\ serviceTasks[t] # Absent
  BY CompleteTaskEffect, WorkOrdersAssumption
<1>2. DOMAIN workOrders' = WorkOrderIds /\ DOMAIN serviceTasks' = TaskIds
  BY CompleteTaskEffect
<1>3. DOMAIN workOrders = WorkOrderIds /\ DOMAIN serviceTasks = TaskIds
  BY DEF TypeOK
<1>4. /\ \A v \in WorkOrderIds \ {w} : workOrders'[v] = workOrders[v]
      /\ \A u \in TaskIds \ {t} : serviceTasks'[u] = serviceTasks[u]
  BY CompleteTaskEffect
<1>5. w \in Stored(workOrders) /\ t \in Stored(serviceTasks) /\ UNCHANGED bookings
  BY DEF CompleteTask
<1> QED
  BY <1>1, <1>2, <1>3, <1>4, <1>5 DEF Stored

LEMMA CompleteEmergencyEffect ==
    ASSUME TypeOK, NEW w \in WorkOrderIds, NEW c \in Calls, CompleteEmergencyWorkOrder(w, c)
    PROVE  /\ w \in Stored(workOrders)
           /\ Stored(workOrders') = Stored(workOrders)
           /\ workOrders'[w].type = "EmergencyMaintenance"
           /\ workOrders'[w].tasks = workOrders[w].tasks
           /\ workOrders'[w].status = "Completed"
           /\ workOrders'[w].started = workOrders[w].started
           /\ workOrders'[w].done
           /\ \A v \in Stored(workOrders) \ {w} : workOrders'[v] = workOrders[v]
           /\ UNCHANGED <<serviceTasks, bookings>>
<1>1. workOrders[w] \in WorkOrder /\ w \in Stored(workOrders)
  BY DEF CompleteEmergencyWorkOrder, Stored, TypeOK
<1>2. /\ workOrders'[w] \in WorkOrder
      /\ workOrders'[w].type = workOrders[w].type
      /\ workOrders'[w].tasks = workOrders[w].tasks
      /\ workOrders'[w].status = "Completed"
      /\ workOrders'[w].started = workOrders[w].started
      /\ workOrders'[w].done
      /\ \A v \in WorkOrderIds \ {w} : workOrders'[v] = workOrders[v]
      /\ DOMAIN workOrders = WorkOrderIds /\ DOMAIN workOrders' = WorkOrderIds
  BY <1>1 DEF CompleteEmergencyWorkOrder, WorkOrder, TypeOK
<1>3. workOrders'[w] # Absent
  BY <1>2, WorkOrdersAssumption
<1> QED
  BY <1>1, <1>2, <1>3 DEF CompleteEmergencyWorkOrder, Stored

\* confirm_booking: w is the booking's work order, stored or not.
LEMMA ConfirmBookingEffect ==
    ASSUME TypeOK, NEW b \in BookingIds, ConfirmBooking(b)
    PROVE  /\ b \in Stored(bookings)
           /\ Stored(bookings') = Stored(bookings)
           /\ \A a \in Stored(bookings) :
                 /\ bookings'[a].workOrder = bookings[a].workOrder
                 /\ bookings'[a].start = bookings[a].start
                 /\ bookings'[a].end = bookings[a].end
           /\ \A a \in Stored(bookings) \ {b} : bookings'[a] = bookings[a]
           /\ Stored(workOrders') = Stored(workOrders)
           /\ \A v \in Stored(workOrders) :
                 /\ workOrders'[v].tasks = workOrders[v].tasks
                 /\ workOrders'[v].done = workOrders[v].done
                 /\ \/ workOrders'[v] = workOrders[v]
                    \/ /\ workOrders[v].status = "Open"
                       /\ workOrders'[v].status = "InProgress"
                       /\ workOrders'[v].started
                 /\ v = bookings[b].workOrder => workOrders'[v].status # "Open"
           /\ UNCHANGED serviceTasks
<1>1. bookings[b] \in Booking /\ b \in Stored(bookings)
  BY DEF ConfirmBooking, Stored, TypeOK
<1>2. /\ bookings'[b] \in Booking
      /\ bookings'[b].workOrder = bookings[b].workOrder
      /\ bookings'[b].start = bookings[b].start
      /\ bookings'[b].end = bookings[b].end
      /\ \A a \in BookingIds \ {b} : bookings'[a] = bookings[a]
      /\ DOMAIN bookings = BookingIds /\ DOMAIN bookings' = BookingIds
  BY <1>1 DEF ConfirmBooking, Booking, TypeOK
<1>3. bookings'[b] # Absent
  BY <1>2, WorkOrdersAssumption
<1>4. Stored(bookings') = Stored(bookings)
  BY <1>1, <1>2, <1>3 DEF Stored
<1> DEFINE w == bookings[b].workOrder
<1>5. CASE /\ w \in Stored(workOrders) /\ workOrders[w].status = "Open"
           /\ workOrders' = [workOrders EXCEPT ![w].status = "InProgress", ![w].started = TRUE]
  <2>1. workOrders[w] \in WorkOrder /\ w \in WorkOrderIds
    BY <1>5 DEF Stored, TypeOK
  <2>2. /\ workOrders'[w] \in WorkOrder
        /\ workOrders'[w].tasks = workOrders[w].tasks
        /\ workOrders'[w].status = "InProgress"
        /\ workOrders'[w].started
        /\ workOrders'[w].done = workOrders[w].done
        /\ \A v \in WorkOrderIds \ {w} : workOrders'[v] = workOrders[v]
        /\ DOMAIN workOrders = WorkOrderIds /\ DOMAIN workOrders' = WorkOrderIds
    BY <1>5, <2>1 DEF WorkOrder, TypeOK
  <2>3. workOrders'[w] # Absent
    BY <2>2, WorkOrdersAssumption
  <2>4. Stored(workOrders') = Stored(workOrders)
    BY <1>5, <2>1, <2>2, <2>3 DEF Stored
  <2>5. \A v \in Stored(workOrders) : v \in WorkOrderIds
    BY <2>2 DEF Stored
  <2> HIDE DEF w
  <2>6. UNCHANGED serviceTasks
    BY DEF ConfirmBooking
  <2> QED
    BY <1>1, <1>2, <1>4, <1>5, <2>2, <2>4, <2>5, <2>6 DEF Stored, w
<1>6. CASE /\ w \in Stored(workOrders) => workOrders[w].status # "Open"
           /\ UNCHANGED workOrders
  BY <1>1, <1>2, <1>4, <1>6 DEF ConfirmBooking, Stored
<1> QED
  BY <1>5, <1>6 DEF ConfirmBooking

\* A record as a handler first stores it.
Fresh(record) ==
    /\ record.status \in {"Open", "InProgress"}
    /\ record.started <=> record.status = "InProgress"
    /\ ~record.done

\* Next, read as what happens to the three dictionaries.
LEMMA NextCases ==
    ASSUME [Next]_vars
    PROVE  \/ \E w \in WorkOrderIds : \E record \in WorkOrder : Store(w, record) /\ Fresh(record)
           \/ \E w \in WorkOrderIds, t \in TaskIds : AddTask(w, t)
           \/ \E w \in WorkOrderIds, t \in TaskIds : CompleteTask(w, t)
           \/ \E w \in WorkOrderIds, c \in Calls : CompleteEmergencyWorkOrder(w, c)
           \/ \E b \in BookingIds, w \in Stored(workOrders) \cup {Unknown},
                 slot \in Slots : CreateBooking(b, w, slot[1], slot[2])
           \/ \E b \in BookingIds : ConfirmBooking(b)
           \/ UNCHANGED <<workOrders, serviceTasks, bookings>>
<1>1. ASSUME NEW w \in WorkOrderIds, NEW k \in TicketIds, NEW type \in WorkOrderTypes,
             NEW ts \in SUBSET TaskIds, BuildWorkOrder(w, k, type, ts)
      PROVE  \E record \in WorkOrder : Store(w, record) /\ Fresh(record)
  <2> DEFINE r == [ticket |-> k, type |-> type, status |-> "Open", tasks |-> ts,
                   started |-> FALSE, done |-> FALSE]
  <2>1. r \in WorkOrder
    BY DEF WorkOrder
  <2>2. Fresh(r)
    BY DEF Fresh
  <2> QED
    BY <1>1, <2>1, <2>2 DEF BuildWorkOrder
<1>2. ASSUME NEW w \in WorkOrderIds, NEW k \in TicketIds \cup {Absent},
             NEW ts \in SUBSET TaskIds, NEW c \in Calls, CreateEmergencyWorkOrder(w, k, ts, c)
      PROVE  \E record \in WorkOrder : Store(w, record) /\ Fresh(record)
  <2> DEFINE r == [ticket |-> k, type |-> "EmergencyMaintenance", status |-> "InProgress",
                   tasks |-> ts, started |-> TRUE, done |-> FALSE]
  <2>1. r \in WorkOrder
    BY DEF WorkOrder, WorkOrderTypes
  <2>2. Fresh(r)
    BY DEF Fresh
  <2> QED
    BY <1>2, <2>1, <2>2 DEF CreateEmergencyWorkOrder
<1>3. ASSUME NEW w \in WorkOrderIds, NEW k \in TicketIds, NEW c \in Calls, OnEstimateApproved(w, k, c)
      PROVE  \E record \in WorkOrder : Store(w, record) /\ Fresh(record)
  BY <1>1, <1>3 DEF OnEstimateApproved, WorkOrderTypes
<1> QED
  BY <1>1, <1>2, <1>3 DEF Next, CreateWorkOrder, NoticeSettled, vars

\* A notification that was handed to the dispatcher stays what it was.
LEMMA NoticesKept ==
    ASSUME TypeOK, NoticesBegun, [Next]_vars, NEW c \in Calls, c \in Stored(notices)
    PROVE  c \in Stored(notices') /\ notices'[c] = notices[c]
<1>1. ASSUME NEW d \in Calls, NEW topic, NEW v, Send(d, topic, v)
      PROVE  c \in Stored(notices') /\ notices'[c] = notices[c]
  <2>1. c # d
    BY <1>1 DEF Send, NoticesBegun, Stored
  <2> QED
    BY <1>1, <2>1 DEF Send, Stored, TypeOK
<1>2. CASE UNCHANGED notices
  BY <1>2
<1> QED
  BY <1>1, <1>2 DEF Next, OnEstimateApproved, CreateWorkOrder, CreateEmergencyWorkOrder, AddTask,
     CompleteTask, CompleteEmergencyWorkOrder, CreateBooking, ConfirmBooking, NoticeSettled,
     SendNothing, vars

LEMMA SentStays ==
    ASSUME TypeOK, NoticesBegun, [Next]_vars, NEW topic, NEW w, Sent(topic, w) # {}
    PROVE  Sent(topic, w)' # {}
<1>1. PICK c \in Calls : c \in Stored(notices) /\ notices[c].topic = topic
                         /\ notices[c].workOrder = w
  BY DEF Sent, Stored, TypeOK
<1>2. c \in Stored(notices') /\ notices'[c] = notices[c]
  BY <1>1, NoticesKept
<1> QED
  BY <1>1, <1>2 DEF Sent

LEMMA ForcedStays ==
    ASSUME TypeOK, NoticesBegun, [Next]_vars, NEW w \in WorkOrderIds, Forced(w)
    PROVE  Forced(w)'
  BY SentStays DEF Forced

LEMMA ForcedByCompletion ==
    ASSUME TypeOK, NEW w \in WorkOrderIds, NEW c \in Calls, CompleteEmergencyWorkOrder(w, c)
    PROVE  Forced(w)'
<1>1. notices' = [notices EXCEPT ![c] = [topic |-> "wo.emergency.completed", workOrder |-> w]]
  BY DEF CompleteEmergencyWorkOrder, Send
<1>2. [topic |-> "wo.emergency.completed", workOrder |-> w] \in Notice
  BY DEF Notice
<1>3. /\ notices'[c].topic = "wo.emergency.completed"
      /\ notices'[c].workOrder = w
      /\ notices'[c] # Absent
      /\ c \in DOMAIN notices'
  BY <1>1, <1>2, WorkOrdersAssumption DEF TypeOK
<1> QED
  BY <1>3 DEF Forced, Sent, Stored

-----------------------------------------------------------------------------

LEMMA TaskListsStep == TypeOK /\ TaskListsAgree /\ [Next]_vars => TaskListsAgree'
<1> SUFFICES ASSUME TypeOK, TaskListsAgree, [Next]_vars PROVE TaskListsAgree'
  OBVIOUS
<1>1. ASSUME NEW w \in WorkOrderIds, NEW record \in WorkOrder, Store(w, record)
      PROVE  TaskListsAgree'
  BY <1>1, StoreEffect DEF TaskListsAgree
<1>2. ASSUME NEW w \in WorkOrderIds, NEW t \in TaskIds, AddTask(w, t)
      PROVE  TaskListsAgree'
  BY <1>2, AddTaskEffect DEF TaskListsAgree
<1>3. ASSUME NEW w \in WorkOrderIds, NEW t \in TaskIds, CompleteTask(w, t)
      PROVE  TaskListsAgree'
  BY <1>3, CompleteTaskStores, CompleteTaskEffect DEF TaskListsAgree
<1>4. ASSUME NEW w \in WorkOrderIds, NEW c \in Calls, CompleteEmergencyWorkOrder(w, c)
      PROVE  TaskListsAgree'
  BY <1>4, CompleteEmergencyEffect DEF TaskListsAgree
<1>5. ASSUME NEW b \in BookingIds, ConfirmBooking(b)
      PROVE  TaskListsAgree'
  BY <1>5, ConfirmBookingEffect DEF TaskListsAgree
<1>6. CASE UNCHANGED <<workOrders, serviceTasks>>
  BY <1>6 DEF TaskListsAgree
<1> QED
  BY NextCases, <1>1, <1>2, <1>3, <1>4, <1>5, <1>6 DEF CreateBooking

LEMMA TimesStep == TypeOK /\ NoticesBegun /\ TimesMatchStatus /\ [Next]_vars => TimesMatchStatus'
<1> SUFFICES ASSUME TypeOK, NoticesBegun, TimesMatchStatus, [Next]_vars PROVE TimesMatchStatus'
  OBVIOUS
<1>1. \A w \in Stored(workOrders) : w \in WorkOrderIds /\ workOrders[w] \in WorkOrder
  BY DEF Stored, TypeOK
<1>2. \A w \in Stored(workOrders) : Forced(w) => Forced(w)'
  BY <1>1, ForcedStays
<1>3. ASSUME NEW w \in WorkOrderIds, NEW record \in WorkOrder, Store(w, record), Fresh(record)
      PROVE  TimesMatchStatus'
  BY <1>2, <1>3, StoreEffect DEF TimesMatchStatus, Fresh
<1>4. ASSUME NEW w \in WorkOrderIds, NEW t \in TaskIds, AddTask(w, t)
      PROVE  TimesMatchStatus'
  BY <1>2, <1>4, AddTaskEffect DEF TimesMatchStatus
<1>5. ASSUME NEW w \in WorkOrderIds, NEW t \in TaskIds, CompleteTask(w, t)
      PROVE  TimesMatchStatus'
  BY <1>1, <1>2, <1>5, CompleteTaskStores, CompleteTaskEffect DEF TimesMatchStatus, WorkOrder
<1>6. ASSUME NEW w \in WorkOrderIds, NEW c \in Calls, CompleteEmergencyWorkOrder(w, c)
      PROVE  TimesMatchStatus'
  BY <1>2, <1>6, CompleteEmergencyEffect, ForcedByCompletion DEF TimesMatchStatus
<1>7. ASSUME NEW b \in BookingIds, ConfirmBooking(b)
      PROVE  TimesMatchStatus'
  BY <1>2, <1>7, ConfirmBookingEffect DEF TimesMatchStatus
<1>8. CASE UNCHANGED workOrders
  BY <1>2, <1>8 DEF TimesMatchStatus
<1> QED
  BY NextCases, <1>3, <1>4, <1>5, <1>6, <1>7, <1>8 DEF CreateBooking

LEMMA CompletedStep ==
    TypeOK /\ NoticesBegun /\ TaskListsAgree /\ CompletedHonest /\ [Next]_vars => CompletedHonest'
<1> SUFFICES ASSUME TypeOK, NoticesBegun, TaskListsAgree, CompletedHonest, [Next]_vars
             PROVE  CompletedHonest'
  OBVIOUS
<1>1. \A w \in Stored(workOrders) : w \in WorkOrderIds /\ workOrders[w].tasks \subseteq Stored(serviceTasks)
  BY DEF Stored, TypeOK, TaskListsAgree
<1>2. \A w \in Stored(workOrders) : Forced(w) => Forced(w)'
  BY <1>1, ForcedStays
<1>3. Progress
  BY ProgressStep
<1>4. ASSUME NEW w \in WorkOrderIds, NEW record \in WorkOrder, Store(w, record), Fresh(record)
      PROVE  CompletedHonest'
  BY <1>1, <1>2, <1>4, StoreEffect DEF CompletedHonest, Fresh
<1>5. ASSUME NEW w \in WorkOrderIds, NEW t \in TaskIds, AddTask(w, t)
      PROVE  CompletedHonest'
  BY <1>1, <1>2, <1>5, AddTaskEffect DEF CompletedHonest
<1>6. ASSUME NEW w \in WorkOrderIds, NEW t \in TaskIds, CompleteTask(w, t)
      PROVE  CompletedHonest'
  <2>1. \A v \in Stored(workOrders) \ {w} : workOrders'[v] = workOrders[v]
    BY <1>6, CompleteTaskStores
  <2>2. /\ w \in Stored(workOrders)
        /\ workOrders'[w].tasks = workOrders[w].tasks
        /\ serviceTasks'[t].completed
    BY <1>6, CompleteTaskStores, CompleteTaskEffect
  <2>3. workOrders'[w].status = "Completed" =>
           AllDoneWith(w, t) \/ workOrders[w].status = "Completed"
    BY <1>6, CompleteTaskEffect
  <2>4. AllDoneWith(w, t) => \A u \in workOrders[w].tasks : serviceTasks'[u].completed
    BY <1>1, <1>3, <2>2 DEF AllDoneWith, Progress
  <2>5. Stored(workOrders') = Stored(workOrders)
    BY <1>6, CompleteTaskStores
  <2> QED
    BY <1>1, <1>2, <1>3, <2>1, <2>2, <2>3, <2>4, <2>5 DEF CompletedHonest, Progress
<1>7. ASSUME NEW w \in WorkOrderIds, NEW c \in Calls, CompleteEmergencyWorkOrder(w, c)
      PROVE  CompletedHonest'
  BY <1>2, <1>7, CompleteEmergencyEffect, ForcedByCompletion DEF CompletedHonest
<1>8. ASSUME NEW b \in BookingIds, ConfirmBooking(b)
      PROVE  CompletedHonest'
  BY <1>2, <1>8, ConfirmBookingEffect DEF CompletedHonest
<1>9. CASE UNCHANGED <<workOrders, serviceTasks>>
  BY <1>2, <1>9 DEF CompletedHonest
<1> QED
  BY NextCases, <1>4, <1>5, <1>6, <1>7, <1>8, <1>9 DEF CreateBooking

LEMMA BookingsStep ==
    TypeOK /\ NoDoubleBooking /\ BookingsStored /\ ConfirmedMeansStarted /\ [Next]_vars =>
       NoDoubleBooking' /\ BookingsStored' /\ ConfirmedMeansStarted'
<1> SUFFICES ASSUME TypeOK, NoDoubleBooking, BookingsStored, ConfirmedMeansStarted, [Next]_vars
             PROVE  NoDoubleBooking' /\ BookingsStored' /\ ConfirmedMeansStarted'
  OBVIOUS
<1>1. Progress
  BY ProgressStep
<1>2. Unknown \notin Stored(workOrders')
  BY TypeStep, WorkOrdersAssumption DEF Stored, TypeOK
<1>3. ASSUME UNCHANGED bookings
      PROVE  NoDoubleBooking' /\ BookingsStored' /\ ConfirmedMeansStarted'
  BY <1>1, <1>2, <1>3 DEF NoDoubleBooking, BookingsStored, ConfirmedMeansStarted, Progress
<1>4. ASSUME NEW b \in BookingIds, ConfirmBooking(b)
      PROVE  NoDoubleBooking' /\ BookingsStored' /\ ConfirmedMeansStarted'
  BY <1>1, <1>2, <1>4, ConfirmBookingEffect
  DEF NoDoubleBooking, BookingsStored, ConfirmedMeansStarted, Progress
<1>5. ASSUME NEW b \in BookingIds, NEW w \in Stored(workOrders) \cup {Unknown},
             NEW slot \in Slots, CreateBooking(b, w, slot[1], slot[2])
      PROVE  NoDoubleBooking' /\ BookingsStored' /\ ConfirmedMeansStarted'
  <2> DEFINE booked == [workOrder |-> w, start |-> slot[1], end |-> slot[2], status |-> "Tentative"]
  <2>0. slot[1] \in Nat /\ slot[2] \in Nat
    BY WorkOrdersAssumption
  <2>1. booked \in Booking
    BY <2>0 DEF Booking, Stored, TypeOK
  <2>2. booked # Absent
    BY <2>1, WorkOrdersAssumption
  <2>3. /\ booked.workOrder = w /\ booked.start = slot[1] /\ booked.end = slot[2]
        /\ booked.status # "Confirmed"
    OBVIOUS
  <2> HIDE DEF booked
  <2>4. /\ b \notin Stored(bookings)
        /\ Stored(bookings') = Stored(bookings) \cup {b}
        /\ bookings'[b] = booked
        /\ \A a \in Stored(bookings) : bookings'[a] = bookings[a]
    BY <1>5, <2>2 DEF CreateBooking, Stored, Unissued, TypeOK, booked
  <2>5. \A a \in Stored(bookings) :
           bookings[a].workOrder = w => ~(slot[1] < bookings[a].end /\ bookings[a].start < slot[2])
    <3>1. \A a \in Stored(bookings) : bookings[a] \in Booking
      BY DEF Stored, TypeOK
    <3> QED
      BY <1>5, <2>0, <3>1 DEF CreateBooking, BookingsOverlap, Booking
  <2>6. NoDoubleBooking'
    BY <2>3, <2>4, <2>5 DEF NoDoubleBooking
  <2>7. UNCHANGED workOrders
    BY <1>5 DEF CreateBooking
  <2> QED
    BY <2>3, <2>4, <2>6, <2>7 DEF BookingsStored, ConfirmedMeansStarted
<1> QED
  BY NextCases, <1>3, <1>4, <1>5 DEF Store, AddTask, CompleteTask, CompleteEmergencyWorkOrder

-----------------------------------------------------------------------------

LEMMA InductiveStep == IInv /\ [Next]_vars => IInv'
<1> SUFFICES ASSUME IInv, [Next]_vars PROVE IInv'
  OBVIOUS
<1>1. /\ NoticesTrueBut({}) <=> NoticesTrue
      /\ NoticesTrueBut({})' <=> NoticesTrue'
  BY DEF NoticesTrueBut, NoticesTrue, Forced
<1>2. NoticesTrue' /\ NoticesStored({})'
  BY <1>1, NoticesStep DEF IInv
<1> QED
  BY <1>2, TypeStep, TaskListsStep, CompletedStep, TimesStep, BookingsStep
  DEF IInv, NoticesStored

\* The invariant holds in every reachable state, for any sets of identifiers,
\* calls and instants.
THEOREM Invariance == Spec => []IInv
  BY InitIInv, InductiveStep, PTL DEF Spec

\* Type correctness of the four dictionaries and of the dispatcher's calls.
THEOREM TypeCorrect == Spec => []TypeOK
  BY Invariance, PTL DEF IInv

\* complete_task, add_task and complete_emergency_work_order together: a
\* Completed work order has no unfinished task unless it was forced.
THEOREM CompletedIsHonest == Spec => []CompletedHonest
  BY Invariance, PTL DEF IInv

\* The task lists of work orders and the tasks' own work_order_id agree.
THEOREM TaskListsAlwaysAgree == Spec => []TaskListsAgree
  BY Invariance, PTL DEF IInv

\* started_at and done_at tell the status truly.
THEOREM TimesAlwaysMatch == Spec => []TimesMatchStatus
  BY Invariance, PTL DEF IInv

\* create_booking never lets two bookings of a work order meet, for any
\* slots, empty and reversed ones included.
THEOREM NeverDoubleBooked == Spec => []NoDoubleBooking
  BY Invariance, PTL DEF IInv

\* A confirmed booking's work order is under way, however bookings,
\* confirmations and completions interleave.
THEOREM ConfirmedHasStarted == Spec => []ConfirmedMeansStarted
  BY Invariance, PTL DEF IInv

\* Assignments are announced once, completions of emergencies truthfully.
THEOREM NoticesAlwaysTrue == Spec => []NoticesTrue
  BY Invariance, PTL DEF IInv

\* No step takes back a completion, a confirmation or a record.
THEOREM CompletedStaysFrozen == Spec => CompletedFrozen
<1>1. TypeOK /\ [Next]_vars => [NothingUndone]_vars
  BY ProgressStep DEF Progress, NothingUndone
<1> QED
  BY <1>1, TypeCorrect, PTL DEF Spec, CompletedFrozen

=============================================================================

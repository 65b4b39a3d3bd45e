------------------------- MODULE Assignments_proofs -------------------------
EXTENDS Assignments, FiniteSetTheorems, TLAPS

\* The proofs about work orders say what a route of wo-manager does to them.
OrdersProofs == INSTANCE WorkOrders_proofs WITH TicketIds <- TicketIds \cup {Unknown}

-----------------------------------------------------------------------------
\* Orders and OrdersProofs are two instances of one module.
LEMMA SameAssumption ==
    Absent \notin OrdersProofs!WorkOrder \cup OrdersProofs!ServiceTask
                 \cup OrdersProofs!Booking \cup OrdersProofs!Notice
  BY AssignmentsAssumption
  DEF Orders!WorkOrder, OrdersProofs!WorkOrder, Orders!ServiceTask, OrdersProofs!ServiceTask,
      Orders!Booking, OrdersProofs!Booking, Orders!Notice, OrdersProofs!Notice,
      Orders!WorkOrderTypes, OrdersProofs!WorkOrderTypes

LEMMA SameType ==
    /\ Orders!TypeOK <=> OrdersProofs!TypeOK
    /\ (Orders!TypeOK)' <=> (OrdersProofs!TypeOK)'
  BY DEF Orders!TypeOK, OrdersProofs!TypeOK, Orders!WorkOrder, OrdersProofs!WorkOrder,
     Orders!ServiceTask, OrdersProofs!ServiceTask, Orders!Booking, OrdersProofs!Booking,
     Orders!Notice, OrdersProofs!Notice, Orders!WorkOrderTypes, OrdersProofs!WorkOrderTypes,
     Orders!Dispatcher!TypeOK, OrdersProofs!Dispatcher!TypeOK, Orders!Dispatcher!Outcomes,
     OrdersProofs!Dispatcher!Outcomes, Orders!Dispatcher!Verdicts,
     OrdersProofs!Dispatcher!Verdicts

LEMMA SameInit == Orders!Init <=> OrdersProofs!Init
  BY DEF Orders!Init, OrdersProofs!Init, Orders!Dispatcher!Init, OrdersProofs!Dispatcher!Init

LEMMA SameNext == Orders!Next <=> OrdersProofs!Next
  BY DEF Orders!Next, OrdersProofs!Next, Orders!Stored, OrdersProofs!Stored, Orders!Unissued,
     OrdersProofs!Unissued, Orders!Send, OrdersProofs!Send, Orders!SendNothing,
     OrdersProofs!SendNothing, Orders!StoreTasks, OrdersProofs!StoreTasks, Orders!Store,
     OrdersProofs!Store, Orders!BuildWorkOrder, OrdersProofs!BuildWorkOrder,
     Orders!OnEstimateApproved, OrdersProofs!OnEstimateApproved, Orders!CreateWorkOrder,
     OrdersProofs!CreateWorkOrder, Orders!CreateEmergencyWorkOrder,
     OrdersProofs!CreateEmergencyWorkOrder, Orders!AddTask, OrdersProofs!AddTask,
     Orders!AllDoneWith, OrdersProofs!AllDoneWith, Orders!CompleteTask,
     OrdersProofs!CompleteTask, Orders!CompleteEmergencyWorkOrder,
     OrdersProofs!CompleteEmergencyWorkOrder, Orders!BookingsOverlap,
     OrdersProofs!BookingsOverlap, Orders!CreateBooking, OrdersProofs!CreateBooking,
     Orders!ConfirmBooking, OrdersProofs!ConfirmBooking, Orders!NoticeSettled,
     OrdersProofs!NoticeSettled, Orders!WorkOrderTypes, OrdersProofs!WorkOrderTypes,
     Orders!Dispatcher!Accept, OrdersProofs!Dispatcher!Accept, Orders!Dispatcher!Return,
     OrdersProofs!Dispatcher!Return, Orders!Dispatcher!Settle,
     OrdersProofs!Dispatcher!Settle, Orders!Dispatcher!Verdicts,
     OrdersProofs!Dispatcher!Verdicts

\* A step of WorkOrders keeps the types of wo-manager's dictionaries.
LEMMA OrdersType == ASSUME Orders!TypeOK, Orders!Next PROVE Orders!TypeOK'
<1>1. OrdersProofs!TypeOK /\ [OrdersProofs!Next]_OrdersProofs!vars
  BY SameType, SameNext
<1>2. OrdersProofs!TypeOK'
  BY <1>1, SameAssumption, AssignmentsAssumption, OrdersProofs!TypeStep
<1> QED
  BY <1>2, SameType

\* What fails is counted, in a publication too.
LEMMA FaultEffect ==
    ASSUME faults \in Nat,
           \/ UNCHANGED faults
           \/ Fault
           \/ \E c : Announce(c)
    PROVE  faults' \in Nat /\ (faults' = faults \/ faults' # 0)
  BY DEF Fault, Announce

LEMMA RoutesRefine == ASSUME TypeOK, Routes PROVE Orders!Next
<1>1. tickets \cup {Unknown} \subseteq TicketIds \cup {Unknown}
  BY DEF TypeOK
<1>2. ASSUME NEW w \in WorkOrderIds, NEW k \in tickets \cup {Unknown},
             NEW type \in Orders!WorkOrderTypes, NEW ts \in SUBSET TaskIds,
             Orders!CreateWorkOrder(w, k, type, ts)
      PROVE Orders!Next
  BY <1>1, <1>2 DEF Orders!Next
<1>3. ASSUME NEW w \in WorkOrderIds, NEW k \in tickets \cup {Unknown, Absent},
             NEW ts \in SUBSET TaskIds, NEW c \in Calls,
             Orders!CreateEmergencyWorkOrder(w, k, ts, c)
      PROVE Orders!Next
  BY <1>1, <1>3 DEF Orders!Next
<1>4. ASSUME NEW w \in WorkOrderIds, NEW t \in TaskIds,
             Orders!AddTask(w, t) \/ Orders!CompleteTask(w, t)
      PROVE Orders!Next
  BY <1>4 DEF Orders!Next
<1>5. ASSUME NEW w \in WorkOrderIds, NEW c \in Calls, Orders!CompleteEmergencyWorkOrder(w, c)
      PROVE Orders!Next
  BY <1>5 DEF Orders!Next
<1>6. ASSUME NEW b \in BookingIds, NEW w \in Stored(workOrders) \cup {Unknown},
             NEW slot \in Slots, Orders!CreateBooking(b, w, slot[1], slot[2])
      PROVE Orders!Next
  BY <1>6 DEF Orders!Next, Stored
<1>7. ASSUME NEW b \in BookingIds, Orders!ConfirmBooking(b)
      PROVE Orders!Next
  BY <1>7 DEF Orders!Next
<1>8. /\ \A w \in WorkOrderIds, k \in tickets \cup {Unknown}, type \in Orders!WorkOrderTypes,
            ts \in SUBSET TaskIds : ~Orders!CreateWorkOrder(w, k, type, ts) \/ Orders!Next
      /\ \A w \in WorkOrderIds, k \in tickets \cup {Unknown, Absent}, ts \in SUBSET TaskIds,
            c \in Calls : ~Orders!CreateEmergencyWorkOrder(w, k, ts, c) \/ Orders!Next
  BY <1>2, <1>3
<1>9. \A ts : ts \in SUBSET (TaskIds \ forgotten) => ts \in SUBSET TaskIds
  OBVIOUS
<1> QED
  BY <1>4, <1>5, <1>6, <1>7, <1>8, <1>9 DEF Routes
-----------------------------------------------------------------------------
(***************************************************************************)
(* A message that was published names a work order wo-manager has or has   *)
(* lost, so that a new one is never taken for announced.                   *)
(***************************************************************************)
Noted ==
    \A c \in Calls :
       /\ notices[c] = Absent <=> outcome[c] = "idle"
       /\ notices[c] # Absent => notices[c].workOrder \in Stored(workOrders) \cup forgotten

\* Stored work orders stay what they were.
WorkOrdersStay ==
    \A w \in Stored(workOrders) :
       /\ w \in Stored(workOrders')
       /\ workOrders'[w].type = workOrders[w].type
       /\ workOrders'[w].ticket = workOrders[w].ticket

LEMMA OrdersStay == ASSUME Orders!TypeOK, Orders!Next PROVE WorkOrdersStay
<1>1. OrdersProofs!TypeOK /\ [OrdersProofs!Next]_OrdersProofs!vars
  BY SameType, SameNext
<1>2. OrdersProofs!Progress
  BY <1>1, SameAssumption, AssignmentsAssumption, OrdersProofs!ProgressStep
<1> QED
  BY <1>2 DEF OrdersProofs!Progress, OrdersProofs!Stored, WorkOrdersStay, Stored, Orders!Stored

LEMMA SendEffect ==
    ASSUME Orders!TypeOK, Noted, WorkOrdersStay, UNCHANGED forgotten,
           NEW w \in WorkOrderIds, w \in Stored(workOrders'), NEW c \in Calls,
           NEW topic \in {"wo.assigned", "wo.emergency.completed"}, Orders!Send(c, topic, w)
    PROVE  /\ Noted'
           /\ notices[c] = Absent
           /\ notices'[c].topic = topic /\ notices'[c].workOrder = w /\ notices'[c] # Absent
           /\ \A v \in WorkOrderIds \ {w} :
                 Orders!Sent("wo.assigned", v)' = Orders!Sent("wo.assigned", v)
           /\ topic # "wo.assigned" =>
                 Orders!Sent("wo.assigned", w)' = Orders!Sent("wo.assigned", w)
           /\ topic = "wo.assigned" => Orders!Sent("wo.assigned", w)' # {}
<1>1. notices[c] = Absent
  BY DEF Orders!Send, Noted
<1>2. /\ notices' = [notices EXCEPT ![c] = [topic |-> topic, workOrder |-> w]]
      /\ \E o \in {"pending", "success", "error"} : outcome' = [outcome EXCEPT ![c] = o]
      /\ DOMAIN notices = Calls /\ DOMAIN outcome = Calls
  BY DEF Orders!Send, Orders!Dispatcher!Accept, Orders!Dispatcher!Settle,
     Orders!Dispatcher!Verdicts, Orders!TypeOK, Orders!Dispatcher!TypeOK
<1>3. [topic |-> topic, workOrder |-> w] # Absent
  <2>1. [topic |-> topic, workOrder |-> w] \in Orders!Notice
    BY DEF Orders!Notice
  <2> QED
    BY <2>1, AssignmentsAssumption
<1>4. /\ notices'[c].topic = topic /\ notices'[c].workOrder = w /\ notices'[c] # Absent
      /\ outcome'[c] # "idle"
      /\ \A d \in Calls \ {c} : notices'[d] = notices[d] /\ outcome'[d] = outcome[d]
      /\ DOMAIN notices' = Calls
  BY <1>2, <1>3
<1>5. Noted'
  BY <1>4 DEF Noted, WorkOrdersStay
<1>6. \A v : Orders!Sent("wo.assigned", v)' =
         Orders!Sent("wo.assigned", v)
            \cup (IF v = w /\ topic = "wo.assigned" THEN {c} ELSE {})
  BY <1>1, <1>2, <1>4 DEF Orders!Sent, Orders!Stored
<1> QED
  BY <1>1, <1>4, <1>5, <1>6

\* A fresh uuid has not been announced.
LEMMA NotAnnounced ==
    ASSUME Orders!TypeOK, Noted, NEW w, w \notin Stored(workOrders), w \notin forgotten
    PROVE  Orders!Sent("wo.assigned", w) = {}
  BY DEF Noted, Orders!Sent, Orders!Stored, Orders!TypeOK

LEMMA NothingSent ==
    ASSUME Noted, WorkOrdersStay, UNCHANGED <<notices, outcome, forgotten>>
    PROVE  Noted' /\ \A v : Orders!Sent("wo.assigned", v)' = Orders!Sent("wo.assigned", v)
  BY DEF Noted, WorkOrdersStay, Orders!Sent, Orders!Stored

LEMMA StoreEffect ==
    ASSUME Orders!TypeOK, NEW w \in WorkOrderIds, NEW record \in Orders!WorkOrder,
           Orders!Store(w, record)
    PROVE  /\ w \notin Stored(workOrders)
           /\ w \in Stored(workOrders') /\ workOrders'[w] = record
           /\ \A v \in WorkOrderIds \ {w} : workOrders'[v] = workOrders[v]
           /\ DOMAIN workOrders = WorkOrderIds /\ DOMAIN workOrders' = WorkOrderIds
<1>1. record # Absent
  BY AssignmentsAssumption
<1> QED
  BY <1>1 DEF Orders!Store, Orders!TypeOK, Stored, Orders!Stored, Orders!Unissued

\* One work order changes; if its announcement does not, neither do those assigned.
LEMMA AssignedKept ==
    ASSUME WorkOrdersStay, NEW k, NEW w \in WorkOrderIds,
           DOMAIN workOrders = WorkOrderIds, DOMAIN workOrders' = WorkOrderIds,
           \A v \in WorkOrderIds \ {w} :
              /\ workOrders'[v] = workOrders[v]
              /\ Orders!Sent("wo.assigned", v)' = Orders!Sent("wo.assigned", v)
    PROVE  /\ Assigned(k)' \ {w} = Assigned(k) \ {w}
           /\ w \in Stored(workOrders)
              /\ Orders!Sent("wo.assigned", w)' = Orders!Sent("wo.assigned", w) =>
                    Assigned(k)' = Assigned(k)
<1>1. \A v \in WorkOrderIds \ {w} : v \in Assigned(k)' <=> v \in Assigned(k)
  BY DEF Assigned, Stored, Orders!Stored
<1>2. Assigned(k) \subseteq WorkOrderIds /\ Assigned(k)' \subseteq WorkOrderIds
  BY DEF Assigned, Stored, Orders!Stored
<1>3. ASSUME w \in Stored(workOrders),
             Orders!Sent("wo.assigned", w)' = Orders!Sent("wo.assigned", w)
      PROVE  w \in Assigned(k)' <=> w \in Assigned(k)
  BY <1>3 DEF Assigned, WorkOrdersStay
<1> QED
  BY <1>1, <1>2, <1>3
\* No route assigns a work order because of an approval.
LEMMA RoutesAssignNothing ==
    ASSUME TypeOK, Noted, Routes
    PROVE  Noted' /\ \A k : Assigned(k)' = Assigned(k)
<1>0. /\ Orders!TypeOK /\ Orders!TypeOK' /\ WorkOrdersStay
      /\ UNCHANGED forgotten
      /\ DOMAIN workOrders = WorkOrderIds /\ DOMAIN workOrders' = WorkOrderIds
  <2>1. Orders!TypeOK
    BY DEF TypeOK
  <2>2. Orders!TypeOK' /\ WorkOrdersStay
    BY <2>1, RoutesRefine, OrdersType, OrdersStay
  <2>3. DOMAIN workOrders = WorkOrderIds /\ DOMAIN workOrders' = WorkOrderIds
    BY <2>1, <2>2 DEF Orders!TypeOK
  <2> QED
    BY <2>1, <2>2, <2>3 DEF Routes, faultVars
<1>1. ASSUME NEW w \in WorkOrderIds, w \notin forgotten, NEW k \in TicketIds \cup {Unknown},
             NEW type \in Orders!WorkOrderTypes, NEW ts \in SUBSET TaskIds,
             Orders!CreateWorkOrder(w, k, type, ts)
      PROVE  Noted' /\ \A q : Assigned(q)' = Assigned(q)
  <2> DEFINE record == [ticket |-> k, type |-> type, status |-> "Open", tasks |-> ts,
                        started |-> FALSE, done |-> FALSE]
  <2>1. record \in Orders!WorkOrder
    BY DEF Orders!WorkOrder
  <2>2. Orders!Store(w, record) /\ UNCHANGED <<notices, outcome>>
    BY <1>1 DEF Orders!CreateWorkOrder, Orders!BuildWorkOrder, Orders!SendNothing
  <2> HIDE DEF record
  <2>3. /\ w \notin Stored(workOrders)
        /\ \A v \in WorkOrderIds \ {w} : workOrders'[v] = workOrders[v]
    BY <1>0, <2>1, <2>2, StoreEffect
  <2>4. Noted' /\ \A v : Orders!Sent("wo.assigned", v)' = Orders!Sent("wo.assigned", v)
    BY <1>0, <2>2, NothingSent
  <2>5. Orders!Sent("wo.assigned", w) = {}
    BY <1>0, <1>1, <2>3, NotAnnounced
  <2>6. ASSUME NEW q PROVE Assigned(q)' = Assigned(q)
    <3>1. Assigned(q)' \ {w} = Assigned(q) \ {w}
      BY <1>0, <2>3, <2>4, AssignedKept
    <3>2. w \notin Assigned(q) /\ w \notin Assigned(q)'
      BY <2>3, <2>4, <2>5 DEF Assigned
    <3> QED
      BY <3>1, <3>2
  <2> QED
    BY <2>4, <2>6
<1>2. ASSUME NEW w \in WorkOrderIds, w \notin forgotten,
             NEW k \in TicketIds \cup {Unknown, Absent}, NEW ts \in SUBSET TaskIds,
             NEW c \in Calls, Orders!CreateEmergencyWorkOrder(w, k, ts, c)
      PROVE  Noted' /\ \A q : Assigned(q)' = Assigned(q)
  <2> DEFINE record == [ticket |-> k, type |-> "EmergencyMaintenance", status |-> "InProgress",
                        tasks |-> ts, started |-> TRUE, done |-> FALSE]
  <2>1. record \in Orders!WorkOrder /\ record.type # "CorrectiveMaintenance"
    BY DEF Orders!WorkOrder, Orders!WorkOrderTypes
  <2>2. Orders!Store(w, record) /\ Orders!Send(c, "wo.assigned", w)
    BY <1>2 DEF Orders!CreateEmergencyWorkOrder
  <2> HIDE DEF record
  <2>3. /\ w \notin Stored(workOrders) /\ w \in Stored(workOrders')
        /\ workOrders'[w] = record
        /\ \A v \in WorkOrderIds \ {w} : workOrders'[v] = workOrders[v]
    BY <1>0, <2>1, <2>2, StoreEffect
  <2>4. /\ Noted'
        /\ \A v \in WorkOrderIds \ {w} :
              Orders!Sent("wo.assigned", v)' = Orders!Sent("wo.assigned", v)
    BY <1>0, <2>2, <2>3, SendEffect
  <2>5. ASSUME NEW q PROVE Assigned(q)' = Assigned(q)
    <3>1. Assigned(q)' \ {w} = Assigned(q) \ {w}
      BY <1>0, <2>3, <2>4, AssignedKept
    <3>2. w \notin Assigned(q) /\ w \notin Assigned(q)'
      BY <2>1, <2>3 DEF Assigned
    <3> QED
      BY <3>1, <3>2
  <2> QED
    BY <2>4, <2>5
<1>3. ASSUME NEW w \in Stored(workOrders), UNCHANGED <<notices, outcome>>,
             \A v \in WorkOrderIds \ {w} : workOrders'[v] = workOrders[v]
      PROVE  Noted' /\ \A q : Assigned(q)' = Assigned(q)
  <2>1. Noted' /\ \A v : Orders!Sent("wo.assigned", v)' = Orders!Sent("wo.assigned", v)
    BY <1>0, <1>3, NothingSent
  <2>2. w \in WorkOrderIds
    BY <1>0 DEF Stored, Orders!Stored
  <2> QED
    BY <1>0, <1>3, <2>1, <2>2, AssignedKept
<1>4. ASSUME UNCHANGED <<workOrders, notices, outcome>>
      PROVE  Noted' /\ \A q : Assigned(q)' = Assigned(q)
  BY <1>0, <1>4 DEF Noted, Assigned, Stored, Orders!Stored, Orders!Sent
<1>5. ASSUME NEW w \in WorkOrderIds, NEW t \in TaskIds, Orders!AddTask(w, t) \/ Orders!CompleteTask(w, t)
      PROVE  Noted' /\ \A q : Assigned(q)' = Assigned(q)
  <2>1. /\ w \in Stored(workOrders) /\ UNCHANGED <<notices, outcome>>
        /\ \A v \in WorkOrderIds \ {w} : workOrders'[v] = workOrders[v]
    BY <1>0, <1>5 DEF Orders!AddTask, Orders!CompleteTask, Orders!SendNothing, Stored
  <2> QED
    BY <1>3, <2>1
<1>6. ASSUME NEW w \in WorkOrderIds, NEW c \in Calls, Orders!CompleteEmergencyWorkOrder(w, c)
      PROVE  Noted' /\ \A q : Assigned(q)' = Assigned(q)
  <2>1. /\ w \in Stored(workOrders) /\ Orders!Send(c, "wo.emergency.completed", w)
        /\ \A v \in WorkOrderIds \ {w} : workOrders'[v] = workOrders[v]
    BY <1>0, <1>6 DEF Orders!CompleteEmergencyWorkOrder, Stored
  <2>2. w \in Stored(workOrders')
    BY <1>0, <2>1 DEF WorkOrdersStay
  <2>3. /\ Noted'
        /\ \A v \in WorkOrderIds : Orders!Sent("wo.assigned", v)' = Orders!Sent("wo.assigned", v)
    BY <1>0, <2>1, <2>2, SendEffect
  <2> QED
    BY <1>0, <2>1, <2>3, AssignedKept
<1>7. ASSUME NEW b \in BookingIds, NEW w, NEW slot, Orders!CreateBooking(b, w, slot[1], slot[2])
      PROVE  Noted' /\ \A q : Assigned(q)' = Assigned(q)
  BY <1>4, <1>7 DEF Orders!CreateBooking, Orders!SendNothing
<1>8. ASSUME NEW b \in BookingIds, Orders!ConfirmBooking(b)
      PROVE  Noted' /\ \A q : Assigned(q)' = Assigned(q)
  <2> DEFINE w == bookings[b].workOrder
  <2>1. UNCHANGED <<notices, outcome>>
    BY <1>8 DEF Orders!ConfirmBooking, Orders!SendNothing
  <2>2. CASE w \in Stored(workOrders) /\ \A v \in WorkOrderIds \ {w} : workOrders'[v] = workOrders[v]
    BY <1>3, <2>1, <2>2
  <2>3. CASE UNCHANGED workOrders
    BY <1>4, <2>1, <2>3
  <2>4. \/ w \in Stored(workOrders) /\ \A v \in WorkOrderIds \ {w} : workOrders'[v] = workOrders[v]
        \/ UNCHANGED workOrders
    BY <1>0, <1>8 DEF Orders!ConfirmBooking, Stored
  <2> QED
    BY <2>2, <2>3, <2>4
<1>9. tickets \subseteq TicketIds
  BY DEF TypeOK
<1>10. ASSUME NEW w \in ClientIds \ forgotten, NEW k \in tickets \cup {Unknown},
              NEW type \in Orders!WorkOrderTypes, NEW ts \in SUBSET (TaskIds \ forgotten),
              w \in WorkOrderIds, Orders!CreateWorkOrder(w, k, type, ts)
      PROVE  Noted' /\ \A q : Assigned(q)' = Assigned(q)
  BY <1>1, <1>9, <1>10
<1>11. ASSUME NEW w \in ClientIds \ forgotten, NEW k \in tickets \cup {Unknown, Absent},
              NEW ts \in SUBSET (TaskIds \ forgotten), NEW c \in ClientIds \cap Calls,
              w \in WorkOrderIds, Orders!CreateEmergencyWorkOrder(w, k, ts, c)
      PROVE  Noted' /\ \A q : Assigned(q)' = Assigned(q)
  BY <1>2, <1>9, <1>11
<1> QED
  BY <1>5, <1>6, <1>7, <1>8, <1>10, <1>11 DEF Routes

\* The one work order made for an approval is new.
LEMMA ApprovalAssigns ==
    ASSUME TypeOK, Noted, NEW w \in WorkOrderIds, w \notin forgotten, NEW c \in Calls,
           NEW k \in TicketIds, Orders!OnEstimateApproved(w, k, c), UNCHANGED forgotten
    PROVE  /\ Noted' /\ Orders!TypeOK'
           /\ w \notin Assigned(k) /\ Assigned(k)' = Assigned(k) \cup {w}
           /\ \A q : q # k => Assigned(q)' = Assigned(q)
           /\ Stored(workOrders) \subseteq Stored(workOrders')
<1>0. Orders!TypeOK /\ Orders!Next
  BY DEF TypeOK, Orders!Next
<1>1. /\ Orders!TypeOK' /\ WorkOrdersStay
      /\ DOMAIN workOrders = WorkOrderIds /\ DOMAIN workOrders' = WorkOrderIds
  <2>1. Orders!TypeOK' /\ WorkOrdersStay
    BY <1>0, OrdersType, OrdersStay
  <2> QED
    BY <1>0, <2>1 DEF Orders!TypeOK
<1> DEFINE record == [ticket |-> k, type |-> "CorrectiveMaintenance", status |-> "Open",
                      tasks |-> {}, started |-> FALSE, done |-> FALSE]
<1>2. /\ record \in Orders!WorkOrder
      /\ record.type = "CorrectiveMaintenance" /\ record.ticket = k
  BY DEF Orders!WorkOrder, Orders!WorkOrderTypes
<1>3. Orders!Store(w, record) /\ Orders!Send(c, "wo.assigned", w)
  BY DEF Orders!OnEstimateApproved, Orders!BuildWorkOrder
<1> HIDE DEF record
<1>4. /\ w \notin Stored(workOrders) /\ w \in Stored(workOrders')
      /\ workOrders'[w] = record
      /\ \A v \in WorkOrderIds \ {w} : workOrders'[v] = workOrders[v]
  BY <1>0, <1>2, <1>3, StoreEffect
<1>5. /\ Noted'
      /\ \A v \in WorkOrderIds \ {w} :
            Orders!Sent("wo.assigned", v)' = Orders!Sent("wo.assigned", v)
      /\ Orders!Sent("wo.assigned", w)' # {}
  BY <1>0, <1>1, <1>3, <1>4, SendEffect
<1>6. ASSUME NEW q
      PROVE  /\ w \notin Assigned(q)
             /\ Assigned(q)' = IF q = k THEN Assigned(q) \cup {w} ELSE Assigned(q)
  <2>1. Assigned(q)' \ {w} = Assigned(q) \ {w}
    BY <1>1, <1>4, <1>5, AssignedKept
  <2>2. w \notin Assigned(q)
    BY <1>4 DEF Assigned
  <2>3. w \in Assigned(q)' <=> q = k
    BY <1>2, <1>4, <1>5 DEF Assigned
  <2> QED
    BY <2>1, <2>2, <2>3
<1>7. Stored(workOrders) \subseteq Stored(workOrders')
  BY <1>1 DEF WorkOrdersStay
<1> QED
  BY <1>1, <1>5, <1>6, <1>7
-----------------------------------------------------------------------------
\* How many of a queue's messages are about k.
Waiting(q, k) == {i \in DOMAIN q : q[i] = k}

LEMMA WaitingFinite ==
    ASSUME NEW S, NEW q \in Seq(S), NEW k
    PROVE  IsFiniteSet(Waiting(q, k)) /\ Cardinality(Waiting(q, k)) \in Nat
<1>1. IsFiniteSet(1 .. Len(q)) /\ Waiting(q, k) \subseteq 1 .. Len(q)
  BY FS_Interval DEF Waiting
<1> QED
  BY <1>1, FS_Subset, FS_CardinalityType

LEMMA WaitingAppended ==
    ASSUME NEW S, NEW q \in Seq(S), NEW x \in S, NEW k
    PROVE  Cardinality(Waiting(Append(q, x), k)) =
              Cardinality(Waiting(q, k)) + (IF x = k THEN 1 ELSE 0)
<1>1. /\ Waiting(q, k) \subseteq 1 .. Len(q) /\ Len(q) \in Nat
      /\ Len(q) + 1 \notin Waiting(q, k)
  BY DEF Waiting
<1>2. Waiting(Append(q, x), k) =
         IF x = k THEN Waiting(q, k) \cup {Len(q) + 1} ELSE Waiting(q, k)
  BY DEF Waiting
<1>3. IsFiniteSet(Waiting(q, k)) /\ Cardinality(Waiting(q, k)) \in Nat
  BY WaitingFinite
<1>4. Cardinality(Waiting(q, k) \cup {Len(q) + 1}) = Cardinality(Waiting(q, k)) + 1
  BY <1>1, <1>3, FS_AddElement
<1> QED
  BY <1>2, <1>3, <1>4

LEMMA WaitingTaken ==
    ASSUME NEW S, NEW q \in Seq(S), q # <<>>, NEW k
    PROVE  Cardinality(Waiting(q, k)) =
              Cardinality(Waiting(Tail(q), k)) + (IF Head(q) = k THEN 1 ELSE 0)
<1> DEFINE rest == Waiting(q, k) \ {1}
           moved == Waiting(Tail(q), k)
<1>1. /\ Len(q) \in Nat \ {0} /\ DOMAIN q = 1 .. Len(q)
      /\ Tail(q) \in Seq(S) /\ Len(Tail(q)) = Len(q) - 1
      /\ \A i \in 1 .. Len(q) - 1 : Tail(q)[i] = q[i + 1]
      /\ Head(q) = q[1]
  OBVIOUS
<1>2. IsFiniteSet(Waiting(q, k)) /\ IsFiniteSet(moved) /\ Cardinality(moved) \in Nat
  BY <1>1, WaitingFinite
<1>3. moved = {i \in 1 .. Len(q) - 1 : q[i + 1] = k}
  BY <1>1 DEF Waiting
<1>4. rest = {i \in 2 .. Len(q) : q[i] = k}
  BY <1>1 DEF Waiting
<1>5. Cardinality(rest) = Cardinality(moved)
  <2> DEFINE f == [i \in moved |-> i + 1]
  <2> HIDE DEF rest, moved
  <2>1. \A i \in moved : i \in Int /\ i + 1 \in rest
    BY <1>1, <1>3, <1>4
  <2>2. \A j \in rest : j \in Int /\ j - 1 \in moved
    BY <1>1, <1>3, <1>4
  <2>3. f \in [moved -> rest]
    BY <2>1
  <2>4. \A i, j \in moved : f[i] = f[j] => i = j
    BY <2>1
  <2>5. \A j \in rest : \E i \in moved : f[i] = j
    <3> SUFFICES ASSUME NEW j \in rest PROVE \E i \in moved : f[i] = j
      OBVIOUS
    <3>1. j - 1 \in moved /\ j \in Int
      BY <2>2
    <3>2. f[j - 1] = j
      BY <3>1
    <3> QED
      BY <3>1, <3>2
  <2> HIDE DEF f
  <2>6. f \in Bijection(moved, rest)
    BY <2>3, <2>4, <2>5 DEF Bijection, Injection, Surjection, IsInjective
  <2>7. ExistsBijection(moved, rest)
    BY <2>6 DEF ExistsBijection
  <2> QED
    BY <1>2, <2>7, FS_Bijection DEF moved
<1>6. Cardinality(Waiting(q, k)) = Cardinality(rest) + (IF Head(q) = k THEN 1 ELSE 0)
  <2>1. 1 \in Waiting(q, k) <=> Head(q) = k
    BY <1>1 DEF Waiting
  <2>2. /\ Cardinality(Waiting(q, k)) \in Nat
        /\ Cardinality(rest) = IF 1 \in Waiting(q, k) THEN Cardinality(Waiting(q, k)) - 1
                               ELSE Cardinality(Waiting(q, k))
    BY <1>2, FS_RemoveElement, FS_CardinalityType
  <2> QED
    BY <2>1, <2>2
<1> QED
  BY <1>5, <1>6
-----------------------------------------------------------------------------
(***************************************************************************)
(* The inductive invariant.  As long as nothing has failed, wo-manager     *)
(* listens and whatever is under way is about a ticket that is there,      *)
(* which is why every message is settled by a work order.                  *)
(***************************************************************************)
EstimatesKnown == \A e \in Stored(estimates) : estimates[e].ticket \in tickets

FaultFree ==
    faults = 0 =>
       /\ listening
       /\ fetching \in tickets \cup {Absent}
       /\ \A i \in DOMAIN queue : queue[i] \in tickets

ChecksFor ==
    \A p \in PaymentIds : checks[p] # Absent =>
       checks[p] \in Stored(workOrders) \cup forgotten \cup {Misrouted}

IInv ==
    /\ TypeOK
    /\ Noted
    /\ EstimatesKnown
    /\ FaultFree
    /\ ChecksFor
    /\ PaymentsFor
    /\ ApprovalsAccounted

\* Next, by what it does to the work orders.
LEMMA NextCases ==
    ASSUME [Next]_vars
    PROVE  \/ \E k \in TicketIds : CreateTicket(k)
           \/ \E e \in EstimateIds, k \in TicketIds : CreateEstimate(e, k)
           \/ \E e \in EstimateIds : ApproveEstimate(e)
           \/ OnEstimateApproved
           \/ \E w \in WorkOrderIds, c \in Calls : AutoCreateWorkOrder(w, c)
           \/ FetchFails
           \/ Routes
           \/ \E p \in PaymentIds, w \in WorkOrderIds \cup {Misrouted} : CheckWorkOrder(p, w)
           \/ \E p \in PaymentIds : CreatePayment(p)
           \/ \E p \in PaymentIds : MarkPaid(p)
           \/ TicketManagerRestarts \/ WoManagerStops \/ WoManagerStarts
           \/ PaymentManagerRestarts
           \/ UNCHANGED vars
  BY DEF Next, Handling

LEMMA TypeStep == TypeOK /\ Noted /\ [Next]_vars => TypeOK'
<1> SUFFICES ASSUME TypeOK, Noted, [Next]_vars PROVE TypeOK'
  OBVIOUS
<1> USE DEF orderVars, memoryVars, ticketVars, chainVars, paymentVars, faultVars
<1>0. ASSUME UNCHANGED orderVars PROVE Orders!TypeOK'
  BY <1>0 DEF TypeOK, Orders!TypeOK, Orders!Dispatcher!TypeOK
<1>1. ASSUME NEW k \in TicketIds, CreateTicket(k) PROVE TypeOK'
  BY <1>0, <1>1 DEF CreateTicket, TypeOK
<1>2. ASSUME NEW e \in EstimateIds, NEW k \in TicketIds, CreateEstimate(e, k) PROVE TypeOK'
  BY <1>0, <1>2 DEF CreateEstimate, TypeOK, Estimate
<1>3. ASSUME NEW e \in EstimateIds, ApproveEstimate(e) PROVE TypeOK'
  <2>1. estimates[e] \in Estimate /\ estimates[e].ticket \in TicketIds
    BY <1>3 DEF ApproveEstimate, TypeOK, Estimate, Stored, Orders!Stored
  <2>2. estimates' \in [EstimateIds -> Estimate \cup {Absent}]
    BY <1>3, <2>1 DEF ApproveEstimate, TypeOK, Estimate
  <2>3. approvals' \in [TicketIds -> Nat]
    BY <1>3, <2>1 DEF ApproveEstimate, TypeOK
  <2>4. queue' \in Seq(TicketIds)
    <3>1. queue' = queue \/ queue' = Append(queue, estimates[e].ticket)
      BY <1>3 DEF ApproveEstimate, Publish
    <3>2. queue \in Seq(TicketIds)
      BY DEF TypeOK
    <3> QED
      BY <2>1, <3>1, <3>2
  <2>5. faults' \in Nat
    BY <1>3, FaultEffect DEF ApproveEstimate, TypeOK
  <2> QED
    BY <1>0, <1>3, <2>2, <2>3, <2>4, <2>5 DEF ApproveEstimate, TypeOK
<1>4. CASE OnEstimateApproved
  <2>1. Head(queue) \in TicketIds /\ Tail(queue) \in Seq(TicketIds)
    BY <1>4 DEF OnEstimateApproved, TypeOK
  <2> QED
    BY <1>0, <1>4, <2>1 DEF OnEstimateApproved, TypeOK
<1>5. ASSUME NEW w \in WorkOrderIds, NEW c \in Calls, AutoCreateWorkOrder(w, c) PROVE TypeOK'
  <2>1. Orders!TypeOK'
    BY <1>5, ApprovalAssigns DEF AutoCreateWorkOrder, TypeOK
  <2>2. faults' \in Nat
    BY <1>5, FaultEffect DEF AutoCreateWorkOrder, TypeOK
  <2> QED
    BY <1>5, <2>1, <2>2 DEF AutoCreateWorkOrder, TypeOK
<1>6. CASE FetchFails
  BY <1>0, <1>6 DEF FetchFails, Fault, TypeOK
<1>7. CASE Routes
  <2>1. Orders!TypeOK'
    BY <1>7, RoutesRefine, OrdersType DEF TypeOK
  <2>2. UNCHANGED <<ticketVars, chainVars, paymentVars, forgotten>>
    BY <1>7 DEF Routes
  <2>3. faults' \in Nat
    BY <1>7, FaultEffect DEF Routes, TypeOK
  <2> QED
    BY <2>1, <2>2, <2>3 DEF TypeOK
<1>8. ASSUME NEW p \in PaymentIds, NEW w \in WorkOrderIds \cup {Misrouted}, CheckWorkOrder(p, w)
      PROVE TypeOK'
  BY <1>0, <1>8 DEF CheckWorkOrder, TypeOK
<1>9. ASSUME NEW p \in PaymentIds, CreatePayment(p) PROVE TypeOK'
  BY <1>0, <1>9 DEF CreatePayment, TypeOK, Payment
<1>10. ASSUME NEW p \in PaymentIds, MarkPaid(p) PROVE TypeOK'
  BY <1>0, <1>10 DEF MarkPaid, TypeOK, Payment, Stored, Orders!Stored
<1>11. CASE TicketManagerRestarts
  <2>1. forgotten' \in SUBSET (TicketIds \cup EstimateIds \cup PaymentIds
                               \cup WorkOrderIds \cup TaskIds \cup BookingIds)
    BY <1>11 DEF TicketManagerRestarts, Forget, Stored, Orders!Stored, TypeOK
  <2> QED
    BY <1>0, <1>11, <2>1 DEF TicketManagerRestarts, Fault, Emptied, TypeOK
<1>12. CASE WoManagerStops
  <2>1. forgotten' \in SUBSET (TicketIds \cup EstimateIds \cup PaymentIds
                               \cup WorkOrderIds \cup TaskIds \cup BookingIds)
    BY <1>12 DEF WoManagerStops, Forget, Stored, Orders!Stored, TypeOK, Orders!TypeOK
  <2>2. Orders!TypeOK'
    BY <1>12 DEF WoManagerStops, Emptied, TypeOK, Orders!TypeOK, Orders!Dispatcher!TypeOK
  <2>3. UNCHANGED <<tickets, estimates, approvals, checks, payments>>
    BY <1>12 DEF WoManagerStops
  <2>4. queue' \in Seq(TicketIds) /\ fetching' = Absent /\ faults' \in Nat
    BY <1>12 DEF WoManagerStops, Fault, TypeOK
  <2>5. listening' \in BOOLEAN
    BY <1>12 DEF WoManagerStops
  <2> QED
    BY <2>1, <2>2, <2>3, <2>4, <2>5 DEF TypeOK
<1>13. CASE WoManagerStarts
  BY <1>0, <1>13 DEF WoManagerStarts, TypeOK
<1>14. CASE PaymentManagerRestarts
  <2>1. forgotten' \in SUBSET (TicketIds \cup EstimateIds \cup PaymentIds
                               \cup WorkOrderIds \cup TaskIds \cup BookingIds)
    BY <1>14 DEF PaymentManagerRestarts, Forget, Stored, Orders!Stored, TypeOK
  <2> QED
    BY <1>0, <1>14, <2>1 DEF PaymentManagerRestarts, Fault, Emptied, TypeOK
<1>15. CASE UNCHANGED vars
  BY <1>0, <1>15 DEF vars, TypeOK
<1> QED
  BY <1>1, <1>2, <1>3, <1>4, <1>5, <1>6, <1>7, <1>8, <1>9, <1>10, <1>11, <1>12, <1>13, <1>14, <1>15,
     NextCases

\* What wo-manager has or has lost is never unknown again.
LEMMA KnownStay ==
    ASSUME TypeOK, Noted, [Next]_vars
    PROVE  Stored(workOrders) \cup forgotten \subseteq Stored(workOrders') \cup forgotten'
<1>1. CASE Routes
  BY <1>1, RoutesRefine, OrdersStay DEF TypeOK, WorkOrdersStay, Routes, faultVars
<1>2. ASSUME NEW w \in WorkOrderIds, NEW c \in Calls, AutoCreateWorkOrder(w, c)
      PROVE  Stored(workOrders) \subseteq Stored(workOrders') /\ forgotten' = forgotten
  BY <1>2, ApprovalAssigns DEF AutoCreateWorkOrder, TypeOK, faultVars
<1>3. CASE WoManagerStops
  BY <1>3 DEF WoManagerStops, Forget
<1>4. CASE UNCHANGED workOrders /\ forgotten \subseteq forgotten'
  BY <1>4
<1> QED
  BY <1>1, <1>2, <1>3, <1>4, NextCases
  DEF CreateTicket, CreateEstimate, ApproveEstimate, OnEstimateApproved, FetchFails,
      CheckWorkOrder, CreatePayment, MarkPaid, TicketManagerRestarts, WoManagerStarts,
      PaymentManagerRestarts, Forget, orderVars, memoryVars, faultVars, vars

LEMMA PaymentsStep ==
    ASSUME TypeOK, Noted, ChecksFor, PaymentsFor, [Next]_vars
    PROVE  ChecksFor' /\ PaymentsFor'
<1> DEFINE Known == Stored(workOrders) \cup forgotten \cup {Misrouted}
<1>0. Known \subseteq Known'
  BY KnownStay
<1> USE DEF ChecksFor, PaymentsFor, Stored, Orders!Stored, Fresh, Orders!Unissued, TypeOK
<1>1. ASSUME NEW p \in PaymentIds, NEW w \in WorkOrderIds \cup {Misrouted}, CheckWorkOrder(p, w)
      PROVE  ChecksFor' /\ PaymentsFor'
  <2>1. w \in Known /\ UNCHANGED payments
    BY <1>1 DEF CheckWorkOrder
  <2> QED
    BY <1>0, <1>1, <2>1 DEF CheckWorkOrder
<1>2. ASSUME NEW p \in PaymentIds, CreatePayment(p)
      PROVE  ChecksFor' /\ PaymentsFor'
  <2>1. checks[p] \in Known
    BY <1>2 DEF CreatePayment
  <2> QED
    BY <1>0, <1>2, <2>1 DEF CreatePayment
<1>3. ASSUME NEW p \in PaymentIds, MarkPaid(p)
      PROVE  ChecksFor' /\ PaymentsFor'
  <2>1. payments[p] \in Payment
    BY <1>3 DEF MarkPaid
  <2>2. payments'[p].workOrder = payments[p].workOrder
    BY <1>3, <2>1 DEF MarkPaid, Payment
  <2> QED
    BY <1>0, <1>3, <2>2 DEF MarkPaid
<1>4. CASE PaymentManagerRestarts
  BY <1>4 DEF PaymentManagerRestarts, Emptied
<1>5. CASE UNCHANGED paymentVars
  BY <1>0, <1>5 DEF paymentVars
<1> QED
  BY <1>1, <1>2, <1>3, <1>4, <1>5, NextCases
  DEF CreateTicket, CreateEstimate, ApproveEstimate, OnEstimateApproved, AutoCreateWorkOrder,
      FetchFails, Routes, TicketManagerRestarts, WoManagerStops, WoManagerStarts, vars

\* The numbers ApprovalsAccounted is about are numbers.
Counted(k) ==
    /\ Cardinality(Waiting(queue, k)) \in Nat
    /\ Cardinality(Assigned(k)) \in Nat
    /\ IsFiniteSet(Assigned(k))
    /\ UnderWay(k) = Cardinality(Waiting(queue, k)) + (IF fetching = k THEN 1 ELSE 0)

LEMMA EverythingCounted ==
    ASSUME TypeOK, TypeOK' PROVE \A k : Counted(k) /\ Counted(k)'
<1>1. queue \in Seq(TicketIds) /\ queue' \in Seq(TicketIds)
  BY DEF TypeOK
<1>2. \A k : Assigned(k) \subseteq WorkOrderIds /\ Assigned(k)' \subseteq WorkOrderIds
  BY DEF Assigned, Stored, Orders!Stored, TypeOK, Orders!TypeOK
<1>3. \A k : /\ IsFiniteSet(Assigned(k)) /\ Cardinality(Assigned(k)) \in Nat
             /\ IsFiniteSet(Assigned(k)') /\ Cardinality(Assigned(k)') \in Nat
  BY <1>2, AssignmentsAssumption, FS_Subset, FS_CardinalityType
<1>4. \A k : /\ Cardinality(Waiting(queue, k)) \in Nat
             /\ Cardinality(Waiting(queue', k)) \in Nat
  BY <1>1, WaitingFinite
<1> QED
  BY <1>3, <1>4 DEF Counted, UnderWay, Waiting

\* The approvals and the work orders made for them.
LEMMA AccountStep ==
    ASSUME TypeOK, TypeOK', Noted, EstimatesKnown, FaultFree, ApprovalsAccounted, [Next]_vars
    PROVE  Noted' /\ EstimatesKnown' /\ FaultFree' /\ ApprovalsAccounted'
<1> DEFINE Goal == Noted' /\ EstimatesKnown' /\ FaultFree' /\ ApprovalsAccounted'
<1> USE DEF orderVars, memoryVars, ticketVars, chainVars, paymentVars, faultVars
<1>1. \A k : Counted(k) /\ Counted(k)'
  BY EverythingCounted
<1>2. ASSUME UNCHANGED <<workOrders, notices, outcome>>, forgotten \subseteq forgotten'
      PROVE  Noted' /\ \A k : Assigned(k)' = Assigned(k)
  BY <1>2 DEF Noted, Assigned, Stored, Orders!Stored, Orders!Sent
<1>3. ASSUME UNCHANGED <<approvals, queue, fetching>>, \A k : Assigned(k)' = Assigned(k),
             faults' \in Nat, faults' = 0 => faults = 0
      PROVE  ApprovalsAccounted'
  BY <1>3 DEF ApprovalsAccounted, UnderWay
<1>4. faults \in Nat /\ faults' \in Nat
  BY DEF TypeOK
<1>5. ASSUME NEW k \in TicketIds, CreateTicket(k) PROVE Goal
  BY <1>2, <1>3, <1>4, <1>5 DEF CreateTicket, EstimatesKnown, FaultFree, Stored, Orders!Stored
<1>6. ASSUME NEW e \in EstimateIds, NEW k \in TicketIds, CreateEstimate(e, k) PROVE Goal
  <2>1. EstimatesKnown'
    BY <1>6 DEF CreateEstimate, EstimatesKnown, Stored, Orders!Stored, TypeOK
  <2> QED
    BY <1>2, <1>3, <1>4, <1>6, <2>1 DEF CreateEstimate, FaultFree
<1>7. ASSUME NEW e \in EstimateIds, ApproveEstimate(e) PROVE Goal
  <2> DEFINE q == estimates[e].ticket
  <2>1. estimates[e] \in Estimate /\ q \in TicketIds /\ q \in tickets
    BY <1>7 DEF ApproveEstimate, TypeOK, Estimate, Stored, Orders!Stored, EstimatesKnown
  <2>2. EstimatesKnown'
    BY <1>7, <2>1 DEF ApproveEstimate, EstimatesKnown, Estimate, Stored, Orders!Stored, TypeOK
  <2>3. /\ \/ queue' = Append(queue, q) /\ faults' = faults
           \/ queue' = queue /\ (faults' = 0 => faults = 0 /\ ~listening)
        /\ approvals' = [approvals EXCEPT ![q] = @ + 1]
        /\ UNCHANGED <<tickets, fetching, listening, workOrders, notices, outcome, forgotten>>
    BY <1>4, <1>7 DEF ApproveEstimate, Publish, Fault
  <2> HIDE DEF q
  <2>4. FaultFree'
    <3>1. queue \in Seq(TicketIds)
      BY DEF TypeOK
    <3> QED
      BY <2>1, <2>3, <3>1 DEF FaultFree
  <2>5. Noted' /\ \A k : Assigned(k)' = Assigned(k)
    BY <1>2, <2>3
  <2>6. ASSUME NEW k \in TicketIds
        PROVE  LET known == UnderWay(k)' + Cardinality(Assigned(k)') IN
               known <= approvals'[k] /\ (faults' = 0 => known = approvals'[k])
    <3>1. /\ approvals[k] \in Nat
          /\ approvals'[k] = IF k = q THEN approvals[k] + 1 ELSE approvals[k]
      BY <2>1, <2>3 DEF TypeOK
    <3>2. /\ Counted(k) /\ Counted(k)' /\ Assigned(k)' = Assigned(k)
      BY <1>1, <2>5
    <3>3. /\ UnderWay(k) + Cardinality(Assigned(k)) <= approvals[k]
          /\ faults = 0 => listening /\ UnderWay(k) + Cardinality(Assigned(k)) = approvals[k]
      BY DEF ApprovalsAccounted, FaultFree
    <3>4. CASE queue' = Append(queue, q) /\ faults' = faults
      <4>1. queue \in Seq(TicketIds)
        BY DEF TypeOK
      <4>2. Cardinality(Waiting(queue', k)) =
               Cardinality(Waiting(queue, k)) + (IF q = k THEN 1 ELSE 0)
        BY <2>1, <3>4, <4>1, WaitingAppended
      <4> QED
        BY <2>3, <3>1, <3>4, <3>2, <3>3, <4>2 DEF Counted
    <3>5. CASE queue' = queue /\ (faults' = 0 => faults = 0 /\ ~listening)
      BY <2>3, <3>1, <3>5, <3>2, <3>3 DEF Counted
    <3> QED
      BY <2>3, <3>4, <3>5
  <2> QED
    BY <2>2, <2>4, <2>5, <2>6 DEF ApprovalsAccounted
<1>8. CASE OnEstimateApproved
  <2>1. /\ fetching = Absent /\ queue # <<>> /\ queue \in Seq(TicketIds)
        /\ fetching' = Head(queue) /\ queue' = Tail(queue)
        /\ UNCHANGED <<tickets, estimates, approvals, listening, faults, workOrders, notices,
                       outcome, forgotten>>
        /\ Absent \notin TicketIds
    BY <1>8, AssignmentsAssumption DEF OnEstimateApproved, TypeOK
  <2>2. Noted' /\ \A k : Assigned(k)' = Assigned(k)
    BY <1>2, <2>1
  <2>3. EstimatesKnown'
    BY <2>1 DEF EstimatesKnown, Stored, Orders!Stored
  <2>4. FaultFree'
    <3>1. /\ Head(queue) = queue[1] /\ 1 \in DOMAIN queue
          /\ \A i \in DOMAIN Tail(queue) : Tail(queue)[i] = queue[i + 1] /\ i + 1 \in DOMAIN queue
      BY <2>1
    <3> QED
      BY <2>1, <3>1 DEF FaultFree
  <2>5. ASSUME NEW k \in TicketIds PROVE UnderWay(k)' = UnderWay(k)
    <3>1. Cardinality(Waiting(queue, k)) =
             Cardinality(Waiting(queue', k)) + (IF Head(queue) = k THEN 1 ELSE 0)
      BY <2>1, WaitingTaken
    <3>2. Counted(k) /\ Counted(k)'
      BY <1>1
    <3> QED
      BY <2>1, <3>1, <3>2 DEF Counted
  <2> QED
    BY <2>1, <2>2, <2>3, <2>4, <2>5 DEF ApprovalsAccounted
<1>9. ASSUME NEW w \in WorkOrderIds, NEW c \in Calls, AutoCreateWorkOrder(w, c) PROVE Goal
  <2>1. /\ fetching \in tickets /\ fetching \in TicketIds /\ fetching' = Absent
        /\ Absent \notin TicketIds
        /\ UNCHANGED <<tickets, estimates, approvals, queue, listening, forgotten>>
        /\ faults' = 0 => faults = 0
    BY <1>4, <1>9, FaultEffect, AssignmentsAssumption DEF AutoCreateWorkOrder, TypeOK
  <2>2. PICK q \in TicketIds : q = fetching
    BY <2>1
  <2>3. /\ Noted' /\ w \notin Assigned(q) /\ Assigned(q)' = Assigned(q) \cup {w}
        /\ \A k : k # q => Assigned(k)' = Assigned(k)
    BY <1>9, <2>2, ApprovalAssigns DEF AutoCreateWorkOrder
  <2>4. EstimatesKnown' /\ FaultFree'
    BY <2>1 DEF EstimatesKnown, FaultFree, Stored, Orders!Stored
  <2>5. ASSUME NEW k \in TicketIds
        PROVE  UnderWay(k)' + Cardinality(Assigned(k)') = UnderWay(k) + Cardinality(Assigned(k))
    <3>1. Counted(k) /\ Counted(k)'
      BY <1>1
    <3>2. CASE k = q
      <4>1. Cardinality(Assigned(k)') = Cardinality(Assigned(k)) + 1
        BY <2>3, <3>1, <3>2, FS_AddElement DEF Counted
      <4> QED
        BY <2>1, <2>2, <3>1, <3>2, <4>1 DEF Counted
    <3>3. CASE k # q
      BY <2>1, <2>2, <2>3, <3>1, <3>3 DEF Counted
    <3> QED
      BY <3>2, <3>3
  <2> QED
    BY <2>1, <2>3, <2>4, <2>5 DEF ApprovalsAccounted
<1>10. CASE FetchFails
  <2>1. /\ fetching # Absent /\ fetching' = Absent
        /\ UNCHANGED <<tickets, estimates, approvals, queue, listening, workOrders, notices,
                       outcome, forgotten>>
        /\ Absent \notin TicketIds
        /\ faults' # 0
    <3>1. faults' # 0
      BY <1>4, <1>10 DEF FetchFails, Fault, FaultFree
    <3> QED
      BY <1>10, <3>1, AssignmentsAssumption DEF FetchFails
  <2>2. Noted' /\ \A k : Assigned(k)' = Assigned(k)
    BY <1>2, <2>1
  <2>3. EstimatesKnown' /\ FaultFree'
    BY <2>1 DEF EstimatesKnown, FaultFree, Stored, Orders!Stored
  <2>4. ASSUME NEW k \in TicketIds
        PROVE  UnderWay(k)' + Cardinality(Assigned(k)') <= UnderWay(k) + Cardinality(Assigned(k))
    BY <1>1, <2>1, <2>2 DEF Counted
  <2>5. ASSUME NEW k \in TicketIds
        PROVE  UnderWay(k)' + Cardinality(Assigned(k)') <= approvals'[k]
    <3>1. /\ UnderWay(k) + Cardinality(Assigned(k)) <= approvals[k]
          /\ approvals[k] \in Nat
      BY DEF ApprovalsAccounted, TypeOK
    <3>2. Counted(k) /\ Counted(k)'
      BY <1>1
    <3> QED
      BY <2>1, <2>4, <3>1, <3>2 DEF Counted
  <2> QED
    BY <2>1, <2>2, <2>3, <2>5 DEF ApprovalsAccounted
<1>11. CASE Routes
  <2>1. /\ UNCHANGED <<tickets, estimates, approvals, queue, fetching, listening>>
        /\ faults' = 0 => faults = 0
    BY <1>4, <1>11, FaultEffect DEF Routes
  <2>2. Noted' /\ \A k : Assigned(k)' = Assigned(k)
    BY <1>11, RoutesAssignNothing
  <2> QED
    BY <1>3, <1>4, <2>1, <2>2 DEF EstimatesKnown, FaultFree, Stored, Orders!Stored
<1>12. CASE WoManagerStops
  <2>1. /\ queue' = <<>> /\ fetching' = Absent /\ faults' # 0
        /\ UNCHANGED <<tickets, estimates, approvals, notices, outcome>>
        /\ forgotten' = forgotten \cup
              (Stored(workOrders) \cup Stored(serviceTasks) \cup Stored(bookings))
        /\ workOrders' = [w \in DOMAIN workOrders |-> Absent]
        /\ Absent \notin TicketIds
    BY <1>4, <1>12, AssignmentsAssumption DEF WoManagerStops, Fault, Forget, Emptied
  <2>2. Noted' /\ EstimatesKnown' /\ FaultFree'
    BY <2>1 DEF Noted, EstimatesKnown, FaultFree, Stored, Orders!Stored
  <2>3. ASSUME NEW k \in TicketIds
        PROVE  UnderWay(k)' + Cardinality(Assigned(k)') <= approvals'[k]
    <3>1. Assigned(k)' = {}
      BY <2>1 DEF Assigned, Stored, Orders!Stored
    <3>2. Waiting(queue', k) = {}
      BY <2>1 DEF Waiting
    <3>3. UnderWay(k)' = 0 /\ Cardinality(Assigned(k)') = 0
      <4>1. Cardinality(Waiting(queue', k)) = 0 /\ Cardinality(Assigned(k)') = 0
        BY <3>1, <3>2, FS_EmptySet
      <4>2. Counted(k)' /\ fetching' # k
        BY <1>1, <2>1
      <4> QED
        BY <4>1, <4>2 DEF Counted
    <3>4. approvals'[k] \in Nat
      BY DEF TypeOK
    <3> QED
      BY <3>3, <3>4
  <2> QED
    BY <2>1, <2>2, <2>3 DEF ApprovalsAccounted
<1>13. CASE TicketManagerRestarts
  <2>1. /\ faults' # 0 /\ forgotten \subseteq forgotten'
        /\ UNCHANGED <<approvals, queue, fetching, workOrders, notices, outcome>>
        /\ Stored(estimates') = {}
    BY <1>4, <1>13 DEF TicketManagerRestarts, Fault, Forget, Emptied, Stored, Orders!Stored
  <2> QED
    BY <1>2, <1>3, <1>4, <2>1 DEF EstimatesKnown, FaultFree
<1>14. CASE \/ \E p \in PaymentIds, w \in WorkOrderIds \cup {Misrouted} : CheckWorkOrder(p, w)
            \/ \E p \in PaymentIds : CreatePayment(p) \/ MarkPaid(p)
            \/ UNCHANGED vars
  <2>1. UNCHANGED <<tickets, estimates, approvals, queue, fetching, listening, faults,
                    workOrders, notices, outcome, forgotten>>
    BY <1>14 DEF CheckWorkOrder, CreatePayment, MarkPaid, vars
  <2> QED
    BY <1>2, <1>3, <1>4, <2>1 DEF EstimatesKnown, FaultFree, Stored, Orders!Stored
<1>15. CASE WoManagerStarts
  <2>1. /\ UNCHANGED <<tickets, estimates, approvals, queue, fetching, workOrders, notices, outcome>>
        /\ faults' = faults /\ forgotten' = forgotten
    BY <1>15 DEF WoManagerStarts
  <2>2. FaultFree'
    BY <1>15, <2>1 DEF WoManagerStarts, FaultFree
  <2> QED
    BY <1>2, <1>3, <1>4, <2>1, <2>2 DEF EstimatesKnown, Stored, Orders!Stored
<1>16. CASE PaymentManagerRestarts
  <2>1. /\ UNCHANGED <<tickets, estimates, approvals, queue, fetching, workOrders, notices, outcome>>
        /\ forgotten \subseteq forgotten' /\ faults' # 0
    BY <1>4, <1>16 DEF PaymentManagerRestarts, Fault, Forget
  <2> QED
    BY <1>2, <1>3, <1>4, <2>1 DEF EstimatesKnown, FaultFree, Stored, Orders!Stored
<1> QED
  BY <1>5, <1>6, <1>7, <1>8, <1>9, <1>10, <1>11, <1>12, <1>13, <1>14, <1>15, <1>16, NextCases
LEMMA InitIInv == Init => IInv
<1> SUFFICES ASSUME Init PROVE IInv
  OBVIOUS
<1>1. TypeOK
  <2>1. OrdersProofs!Init
    BY SameInit DEF Init
  <2>2. OrdersProofs!TypeOK
    BY <2>1, SameAssumption, AssignmentsAssumption, OrdersProofs!InitIInv DEF OrdersProofs!IInv
  <2>3. Orders!TypeOK
    BY <2>2, SameType
  <2> QED
    BY <2>3 DEF Init, TypeOK
<1>2. /\ Stored(estimates) = {} /\ Stored(payments) = {} /\ Stored(workOrders) = {}
      /\ \A p \in PaymentIds : checks[p] = Absent
      /\ \A c \in Calls : notices[c] = Absent /\ outcome[c] = "idle"
  BY DEF Init, Stored, Orders!Stored, Orders!Init, Orders!Dispatcher!Init
<1>3. Noted /\ EstimatesKnown /\ FaultFree /\ ChecksFor /\ PaymentsFor
  BY <1>2 DEF Init, Noted, EstimatesKnown, FaultFree, ChecksFor, PaymentsFor
<1>4. ASSUME NEW k \in TicketIds
      PROVE  UnderWay(k) = 0 /\ Cardinality(Assigned(k)) = 0
  <2>1. {i \in DOMAIN queue : queue[i] = k} = {} /\ fetching # k
    BY <1>4, AssignmentsAssumption DEF Init
  <2>2. Assigned(k) = {}
    BY <1>2 DEF Assigned
  <2> QED
    BY <2>1, <2>2, FS_EmptySet DEF UnderWay
<1> QED
  BY <1>1, <1>3, <1>4 DEF IInv, ApprovalsAccounted, Init

LEMMA InductiveStep == IInv /\ [Next]_vars => IInv'
<1> SUFFICES ASSUME IInv, [Next]_vars PROVE IInv'
  OBVIOUS
<1>1. TypeOK'
  BY TypeStep DEF IInv
<1>2. Noted' /\ EstimatesKnown' /\ FaultFree' /\ ApprovalsAccounted'
  BY <1>1, AccountStep DEF IInv
<1>3. ChecksFor' /\ PaymentsFor'
  BY PaymentsStep DEF IInv
<1> QED
  BY <1>1, <1>2, <1>3 DEF IInv

-----------------------------------------------------------------------------
\* The inductive invariant holds in every reachable state.
THEOREM Invariance == Spec => []IInv
  BY InitIInv, InductiveStep, PTL DEF Spec

\* The dictionaries of ticket-manager, wo-manager and payment-manager keep their
\* schemas, restarts included.
THEOREM TypeCorrect == Spec => []TypeOK
<1>1. IInv => TypeOK
  BY DEF IInv
<1> QED
  BY <1>1, Invariance, PTL

\* on_estimate_approved makes at most one work order for an approval, and exactly
\* one as long as nothing fails.
THEOREM ApprovalsAlwaysAccounted == Spec => []ApprovalsAccounted
<1>1. IInv => ApprovalsAccounted
  BY DEF IInv
<1> QED
  BY <1>1, Invariance, PTL

\* payment-manager's payments are for work orders wo-manager has or has lost, but
\* for the ids whose GET is answered by another route.
THEOREM PaymentsAlwaysFor == Spec => []PaymentsFor
<1>1. IInv => PaymentsFor
  BY DEF IInv
<1> QED
  BY <1>1, Invariance, PTL

-----------------------------------------------------------------------------
(***************************************************************************)
(* The refinement of AtMostOnce.  Its Fail may leave 0 .. MaxApprovals     *)
(* messages about a ticket: that nothing is under way or handled that was  *)
(* not approved, and approvals are bounded, says that a failure which      *)
(* loses nothing is such a step.                                           *)
(***************************************************************************)
ApprovalsBounded == \A k \in TicketIds : approvals[k] <= MaxApprovals

LEMMA BoundedStep == TypeOK /\ ApprovalsBounded /\ [Next]_vars => ApprovalsBounded'
<1> SUFFICES ASSUME TypeOK, ApprovalsBounded, [Next]_vars PROVE ApprovalsBounded'
  OBVIOUS
<1>1. ASSUME NEW e \in EstimateIds, ApproveEstimate(e) PROVE ApprovalsBounded'
  <2>1. /\ approvals' = [approvals EXCEPT ![estimates[e].ticket] = @ + 1]
        /\ approvals \in [TicketIds -> Nat]
        /\ \A k \in TicketIds : approvals[k] < MaxApprovals
    BY <1>1 DEF ApproveEstimate, TypeOK
  <2>2. ASSUME NEW k \in TicketIds PROVE approvals'[k] <= MaxApprovals
    BY <2>1, AssignmentsAssumption
  <2> QED
    BY <2>2 DEF ApprovalsBounded
<1>2. CASE UNCHANGED approvals
  BY <1>2 DEF ApprovalsBounded
<1> QED
  BY <1>1, <1>2, NextCases
  DEF CreateTicket, CreateEstimate, OnEstimateApproved, AutoCreateWorkOrder, FetchFails, Routes,
      CheckWorkOrder, CreatePayment, MarkPaid, TicketManagerRestarts, WoManagerStops,
      WoManagerStarts, PaymentManagerRestarts, vars, ticketVars

\* A step after which no ticket has more messages is what AtMostOnce calls Fail.
LEMMA FailureRefines ==
    ASSUME TypeOK, TypeOK', ApprovalsAccounted, ApprovalsBounded, faults' # 0,
           \A k \in TicketIds : /\ UnderWay(k)' <= UnderWay(k)
                                /\ Cardinality(Assigned(k)') <= Cardinality(Assigned(k))
    PROVE  Approvals!Next
<1> DEFINE left == [k \in TicketIds |-> UnderWay(k)']
           kept == [k \in TicketIds |-> Cardinality(Assigned(k)')]
<1>1. ASSUME NEW k \in TicketIds
      PROVE  UnderWay(k)' \in 0 .. MaxApprovals /\ Cardinality(Assigned(k)') \in 0 .. MaxApprovals
  <2>1. Counted(k) /\ Counted(k)'
    BY EverythingCounted
  <2>2. /\ UnderWay(k) \in Nat /\ Cardinality(Assigned(k)) \in Nat
        /\ UnderWay(k)' \in Nat /\ Cardinality(Assigned(k)') \in Nat
    BY <2>1 DEF Counted
  <2>3. /\ UnderWay(k) + Cardinality(Assigned(k)) <= approvals[k]
        /\ approvals[k] \in Nat /\ approvals[k] <= MaxApprovals
    BY DEF ApprovalsAccounted, ApprovalsBounded, TypeOK
  <2> QED
    BY <2>2, <2>3, AssignmentsAssumption
<1>2. left \in Approvals!Remains([k \in TicketIds |-> UnderWay(k)])
  BY <1>1 DEF Approvals!Remains
<1>3. kept \in Approvals!Remains([k \in TicketIds |-> Cardinality(Assigned(k))])
  BY <1>1 DEF Approvals!Remains
<1>4. (faults > 0)' = TRUE
  BY DEF TypeOK
<1>5. Approvals!Fail(left, kept)
  BY <1>4 DEF Approvals!Fail
<1> QED
  BY <1>2, <1>3, <1>5 DEF Approvals!Next

\* on_estimate_approved and the restarts, as AtMostOnce sees them.
LEMMA RefinementStep ==
    ASSUME IInv, TypeOK', ApprovalsBounded, [Next]_vars
    PROVE  [Approvals!Next]_Approvals!vars
<1> USE DEF orderVars, memoryVars, ticketVars, chainVars, paymentVars, faultVars
<1>0. /\ TypeOK /\ Noted /\ EstimatesKnown /\ FaultFree /\ ApprovalsAccounted
      /\ \A k : Counted(k) /\ Counted(k)'
      /\ Absent \notin TicketIds /\ faults \in Nat /\ faults' \in Nat
  BY EverythingCounted, AssignmentsAssumption DEF IInv, TypeOK
<1>1. ASSUME UNCHANGED <<queue, fetching>>, \A k : Assigned(k)' = Assigned(k)
      PROVE  \A k : UnderWay(k)' = UnderWay(k) /\ Cardinality(Assigned(k)') = Cardinality(Assigned(k))
  BY <1>1 DEF UnderWay
<1>2. ASSUME UNCHANGED <<queue, fetching, faults>>, \A k : Assigned(k)' = Assigned(k)
      PROVE  UNCHANGED Approvals!vars
  BY <1>1, <1>2 DEF Approvals!vars
<1>3. ASSUME UNCHANGED <<queue, fetching, workOrders, notices, outcome>>, faults' # 0
      PROVE  Approvals!Next
  <2>1. \A k : Assigned(k)' = Assigned(k)
    BY <1>3 DEF Assigned, Stored, Orders!Stored, Orders!Sent
  <2>2. \A k \in TicketIds : /\ UnderWay(k)' <= UnderWay(k)
                             /\ Cardinality(Assigned(k)') <= Cardinality(Assigned(k))
    BY <1>0, <1>1, <1>3, <2>1 DEF Counted
  <2> QED
    BY <1>0, <1>3, <2>2, FailureRefines
<1>4. ASSUME UNCHANGED <<queue, fetching, faults, workOrders, notices, outcome>>
      PROVE  UNCHANGED Approvals!vars
  <2>1. \A k : Assigned(k)' = Assigned(k)
    BY <1>4 DEF Assigned, Stored, Orders!Stored, Orders!Sent
  <2> QED
    BY <1>2, <1>4, <2>1
<1>5. ASSUME NEW e \in EstimateIds, ApproveEstimate(e)
      PROVE  [Approvals!Next]_Approvals!vars
  <2> DEFINE q == estimates[e].ticket
  <2>1. /\ q \in TicketIds
        /\ \/ queue' = Append(queue, q) /\ faults' = faults
           \/ queue' = queue /\ (faults' = faults \/ faults' # 0)
        /\ UNCHANGED <<fetching, workOrders, notices, outcome>>
        /\ queue \in Seq(TicketIds)
    BY <1>0, <1>5, FaultEffect
    DEF ApproveEstimate, Publish, TypeOK, Estimate, Stored, Orders!Stored
  <2> HIDE DEF q
  <2>2. \A k : Assigned(k)' = Assigned(k)
    BY <2>1 DEF Assigned, Stored, Orders!Stored, Orders!Sent
  <2>3. CASE queue' = Append(queue, q) /\ faults' = faults
    <3>1. ASSUME NEW k \in TicketIds
          PROVE  UnderWay(k)' = IF k = q THEN UnderWay(k) + 1 ELSE UnderWay(k)
      <4>1. Cardinality(Waiting(queue', k)) =
               Cardinality(Waiting(queue, k)) + (IF q = k THEN 1 ELSE 0)
        BY <2>1, <2>3, WaitingAppended
      <4>2. Counted(k) /\ Counted(k)' /\ fetching' = fetching
        BY <1>0, <2>1
      <4> QED
        BY <4>1, <4>2 DEF Counted
    <3>2. Approvals!Publish(q)
      BY <2>2, <2>3, <3>1 DEF Approvals!Publish
    <3> QED
      BY <2>1, <3>2 DEF Approvals!Next
  <2>4. CASE queue' = queue /\ (faults' = faults \/ faults' # 0)
    BY <1>3, <1>4, <2>1, <2>4
  <2> QED
    BY <2>1, <2>3, <2>4
<1>6. CASE OnEstimateApproved
  <2>1. /\ fetching = Absent /\ queue # <<>> /\ queue \in Seq(TicketIds)
        /\ fetching' = Head(queue) /\ queue' = Tail(queue)
        /\ UNCHANGED <<faults, workOrders, notices, outcome>>
    BY <1>0, <1>6 DEF OnEstimateApproved, TypeOK
  <2>2. \A k : Assigned(k)' = Assigned(k)
    BY <2>1 DEF Assigned, Stored, Orders!Stored, Orders!Sent
  <2>3. ASSUME NEW k \in TicketIds PROVE UnderWay(k)' = UnderWay(k)
    <3>1. Cardinality(Waiting(queue, k)) =
             Cardinality(Waiting(queue', k)) + (IF Head(queue) = k THEN 1 ELSE 0)
      BY <2>1, WaitingTaken
    <3> QED
      BY <1>0, <2>1, <3>1 DEF Counted
  <2> QED
    BY <2>1, <2>2, <2>3 DEF Approvals!vars
<1>7. ASSUME NEW w \in WorkOrderIds, NEW c \in Calls, AutoCreateWorkOrder(w, c)
      PROVE  Approvals!Next
  <2>1. PICK q \in TicketIds : q = fetching
    BY <1>0, <1>7 DEF AutoCreateWorkOrder, TypeOK
  <2>2. fetching' = Absent /\ UNCHANGED <<queue, forgotten>> /\ (faults' = faults \/ faults' # 0)
    BY <1>0, <1>7, FaultEffect DEF AutoCreateWorkOrder
  <2>3. /\ w \notin Assigned(q) /\ Assigned(q)' = Assigned(q) \cup {w}
        /\ \A k : k # q => Assigned(k)' = Assigned(k)
    BY <1>0, <1>7, <2>1, ApprovalAssigns DEF AutoCreateWorkOrder
  <2>4. Cardinality(Assigned(q)') = Cardinality(Assigned(q)) + 1
    BY <1>0, <2>3, FS_AddElement DEF Counted
  <2>5. ASSUME NEW k \in TicketIds
        PROVE  /\ UnderWay(k) \in Nat
               /\ UnderWay(k)' = IF k = q THEN UnderWay(k) - 1 ELSE UnderWay(k)
               /\ k = q => UnderWay(k) > 0
               /\ Cardinality(Assigned(k)') =
                     IF k = q THEN Cardinality(Assigned(k)) + 1 ELSE Cardinality(Assigned(k))
    <3>1. Counted(k) /\ Counted(k)' /\ queue' = queue
      BY <1>0, <2>2
    <3>2. CASE k = q
      BY <1>0, <2>1, <2>2, <2>4, <3>1, <3>2 DEF Counted
    <3>3. CASE k # q
      BY <1>0, <2>1, <2>2, <2>3, <3>1, <3>3 DEF Counted
    <3> QED
      BY <3>2, <3>3
  <2>6. Approvals!Handle(q)
    <3>1. (faults > 0)' = (faults > 0) \/ (faults > 0)' = TRUE
      BY <1>0, <2>2
    <3> QED
      BY <2>5, <3>1 DEF Approvals!Handle
  <2> QED
    BY <2>1, <2>6 DEF Approvals!Next
<1>8. CASE FetchFails
  <2>1. /\ fetching # Absent /\ fetching' = Absent
        /\ UNCHANGED <<queue, workOrders, notices, outcome>>
        /\ faults' # 0
    BY <1>0, <1>8 DEF FetchFails, Fault, FaultFree
  <2>2. \A k : Assigned(k)' = Assigned(k)
    BY <2>1 DEF Assigned, Stored, Orders!Stored, Orders!Sent
  <2>3. \A k \in TicketIds : /\ UnderWay(k)' <= UnderWay(k)
                             /\ Cardinality(Assigned(k)') <= Cardinality(Assigned(k))
    BY <1>0, <2>1, <2>2 DEF Counted
  <2> QED
    BY <1>0, <2>1, <2>3, FailureRefines
<1>9. CASE Routes
  <2>1. UNCHANGED <<queue, fetching>> /\ (faults' = faults \/ faults' # 0)
    BY <1>0, <1>9, FaultEffect DEF Routes
  <2>2. \A k : Assigned(k)' = Assigned(k)
    BY <1>0, <1>9, RoutesAssignNothing
  <2>3. \A k \in TicketIds : /\ UnderWay(k)' <= UnderWay(k)
                             /\ Cardinality(Assigned(k)') <= Cardinality(Assigned(k))
    BY <1>0, <1>1, <2>1, <2>2 DEF Counted
  <2> QED
    BY <1>0, <1>2, <2>1, <2>2, <2>3, FailureRefines
<1>10. CASE WoManagerStops
  <2>1. /\ queue' = <<>> /\ fetching' = Absent /\ faults' # 0
        /\ workOrders' = [w \in DOMAIN workOrders |-> Absent]
    BY <1>0, <1>10 DEF WoManagerStops, Fault, Emptied
  <2>2. ASSUME NEW k \in TicketIds
        PROVE  UnderWay(k)' <= UnderWay(k) /\ Cardinality(Assigned(k)') <= Cardinality(Assigned(k))
    <3>1. Assigned(k)' = {} /\ Waiting(queue', k) = {}
      BY <2>1 DEF Assigned, Stored, Orders!Stored, Waiting
    <3>2. Cardinality(Assigned(k)') = 0 /\ Cardinality(Waiting(queue', k)) = 0
      BY <3>1, FS_EmptySet
    <3> QED
      BY <1>0, <2>1, <3>2 DEF Counted
  <2> QED
    BY <1>0, <2>1, <2>2, FailureRefines
<1>11. CASE TicketManagerRestarts \/ PaymentManagerRestarts
  <2>1. faults' # 0 /\ UNCHANGED <<queue, fetching, workOrders, notices, outcome>>
    BY <1>0, <1>11 DEF TicketManagerRestarts, PaymentManagerRestarts, Fault
  <2> QED
    BY <1>3, <2>1
<1> QED
  BY <1>4, <1>5, <1>6, <1>7, <1>8, <1>9, <1>10, <1>11, NextCases
  DEF CreateTicket, CreateEstimate, CheckWorkOrder, CreatePayment, MarkPaid, WoManagerStarts, vars

\* The safety part of ImplementsAtMostOnce: on_estimate_approved handles a message
\* at most once, and whatever else becomes of it is a failure.
THEOREM ApprovalsSafety == Spec => Approvals!Init /\ [][Approvals!Next]_Approvals!vars
<1>1. Init => Approvals!Init /\ ApprovalsBounded
  <2> SUFFICES ASSUME Init PROVE Approvals!Init /\ ApprovalsBounded
    OBVIOUS
  <2>1. \A k \in TicketIds : /\ {i \in DOMAIN queue : queue[i] = k} = {}
                             /\ fetching # k /\ Assigned(k) = {}
    BY AssignmentsAssumption DEF Init, Assigned, Stored, Orders!Stored, Orders!Init
  <2>2. \A k \in TicketIds : UnderWay(k) = 0 /\ Cardinality(Assigned(k)) = 0
    BY <2>1, FS_EmptySet DEF UnderWay
  <2> QED
    BY <2>2, AssignmentsAssumption DEF Init, Approvals!Init, ApprovalsBounded
<1>2. IInv /\ ApprovalsBounded /\ [Next]_vars => ApprovalsBounded'
  BY BoundedStep DEF IInv
<1>3. IInv /\ IInv' /\ ApprovalsBounded /\ [Next]_vars => [Approvals!Next]_Approvals!vars
  BY RefinementStep DEF IInv
<1>4. Spec => []ApprovalsBounded
  BY <1>1, <1>2, Invariance, PTL DEF Spec
<1> QED
  BY <1>1, <1>3, <1>4, Invariance, PTL DEF Spec

-----------------------------------------------------------------------------
(***************************************************************************)
(* What WorkOrders promises, kept by wo-manager although it restarts: each *)
(* of its routes is a step of WorkOrders, and a restart leaves nothing of  *)
(* which anything could be untrue but the messages, which are about work   *)
(* orders whose ids never come back.                                       *)
(***************************************************************************)
OrdersInv ==
    /\ OrdersProofs!TaskListsAgree
    /\ OrdersProofs!CompletedHonest
    /\ OrdersProofs!TimesMatchStatus
    /\ OrdersProofs!NoDoubleBooking
    /\ OrdersProofs!ConfirmedMeansStarted
    /\ OrdersProofs!BookingsStored
    /\ OrdersProofs!NoticesStored(forgotten)
    /\ OrdersProofs!NoticesTrueBut(forgotten)

LEMMA OrdersInvMeans == OrdersInv => WoManagerConsistent /\ BookingsConsistent
  BY DEF OrdersInv, WoManagerConsistent, BookingsConsistent, Orders!TaskListsAgree, OrdersProofs!TaskListsAgree,
     Orders!CompletedHonest, OrdersProofs!CompletedHonest, Orders!TimesMatchStatus,
     OrdersProofs!TimesMatchStatus, Orders!NoDoubleBooking, OrdersProofs!NoDoubleBooking,
     Orders!ConfirmedMeansStarted, OrdersProofs!ConfirmedMeansStarted,
     OrdersProofs!NoticesTrueBut, Orders!Forced, OrdersProofs!Forced, Orders!Sent,
     OrdersProofs!Sent, Stored, Orders!Stored, OrdersProofs!Stored

\* A step of WorkOrders that takes no forgotten uuid.
LEMMA OrdersInvStep ==
    ASSUME TypeOK, OrdersInv, Orders!Next, UNCHANGED forgotten,
           \A w \in WorkOrderIds : w \notin Stored(workOrders) /\ w \in Stored(workOrders') =>
              w \notin forgotten
    PROVE  OrdersInv'
<1>1. OrdersProofs!TypeOK /\ [OrdersProofs!Next]_OrdersProofs!vars
  BY SameType, SameNext DEF TypeOK
<1>2. OrdersProofs!NoticesBegun
  BY DEF OrdersInv, OrdersProofs!NoticesStored
<1>3. PICK lost : lost = forgotten
  OBVIOUS
<1>4. \A w \in OrdersProofs!Unissued(workOrders) :
         w \in OrdersProofs!Stored(workOrders') => w \notin lost
  BY <1>3 DEF OrdersProofs!Unissued, OrdersProofs!Stored, Stored, Orders!Stored, TypeOK,
     Orders!TypeOK
<1>5. OrdersProofs!NoticesStored(lost) /\ OrdersProofs!NoticesTrueBut(lost)
  BY <1>3 DEF OrdersInv
<1>6. OrdersProofs!NoticesStored(lost)' /\ OrdersProofs!NoticesTrueBut(lost)'
  BY <1>1, <1>4, <1>5, SameAssumption, AssignmentsAssumption, OrdersProofs!NoticesStep
<1>7. OrdersProofs!NoticesStored(forgotten)' /\ OrdersProofs!NoticesTrueBut(forgotten)'
  BY <1>3, <1>6 DEF OrdersProofs!NoticesStored, OrdersProofs!NoticesTrueBut
<1>8. OrdersProofs!TaskListsAgree'
  BY <1>1, SameAssumption, AssignmentsAssumption, OrdersProofs!TaskListsStep DEF OrdersInv
<1>9. OrdersProofs!CompletedHonest'
  BY <1>1, <1>2, SameAssumption, AssignmentsAssumption, OrdersProofs!CompletedStep DEF OrdersInv
<1>10. OrdersProofs!TimesMatchStatus'
  BY <1>1, <1>2, SameAssumption, AssignmentsAssumption, OrdersProofs!TimesStep DEF OrdersInv
<1>11. /\ OrdersProofs!NoDoubleBooking' /\ OrdersProofs!BookingsStored'
       /\ OrdersProofs!ConfirmedMeansStarted'
  BY <1>1, SameAssumption, AssignmentsAssumption, OrdersProofs!BookingsStep DEF OrdersInv
<1> QED
  BY <1>7, <1>8, <1>9, <1>10, <1>11 DEF OrdersInv

LEMMA RoutesTakeNew ==
    ASSUME TypeOK, Routes
    PROVE  \A w \in WorkOrderIds : w \notin Stored(workOrders) /\ w \in Stored(workOrders') =>
              w \notin forgotten
<1> SUFFICES ASSUME NEW w \in WorkOrderIds, w \notin Stored(workOrders), w \in Stored(workOrders')
             PROVE  w \notin forgotten
  OBVIOUS
<1>1. workOrders'[w] # workOrders[w]
  BY DEF TypeOK, Orders!TypeOK, Stored, Orders!Stored
<1>2. ASSUME NEW v, UNCHANGED workOrders \/ \E record : workOrders' = [workOrders EXCEPT ![v] = record]
      PROVE  v = w
  BY <1>1, <1>2 DEF TypeOK, Orders!TypeOK
<1>3. ASSUME NEW v \in WorkOrderIds, NEW t, Orders!AddTask(v, t) \/ Orders!CompleteTask(v, t)
      PROVE  FALSE
  BY <1>1, <1>3 DEF Orders!AddTask, Orders!CompleteTask, TypeOK, Orders!TypeOK, Stored
<1>4. ASSUME NEW v \in WorkOrderIds, NEW c, Orders!CompleteEmergencyWorkOrder(v, c)
      PROVE  FALSE
  BY <1>1, <1>4 DEF Orders!CompleteEmergencyWorkOrder, TypeOK, Orders!TypeOK, Stored
<1>5. ASSUME NEW b, NEW v, NEW slot, Orders!CreateBooking(b, v, slot[1], slot[2])
      PROVE  FALSE
  BY <1>1, <1>5 DEF Orders!CreateBooking
<1>6. ASSUME NEW b, Orders!ConfirmBooking(b)
      PROVE  FALSE
  BY <1>1, <1>6 DEF Orders!ConfirmBooking, TypeOK, Orders!TypeOK, Stored
<1>7. ASSUME NEW v \in WorkOrderIds, v \notin forgotten, NEW record, Orders!Store(v, record)
      PROVE  w \notin forgotten
  BY <1>1, <1>7 DEF Orders!Store, TypeOK, Orders!TypeOK
<1>8. ASSUME NEW v \in ClientIds \ forgotten, NEW k, NEW type, NEW ts, v \in WorkOrderIds,
             Orders!CreateWorkOrder(v, k, type, ts)
      PROVE  w \notin forgotten
  BY <1>7, <1>8 DEF Orders!CreateWorkOrder, Orders!BuildWorkOrder
<1>9. ASSUME NEW v \in ClientIds \ forgotten, NEW k, NEW ts, NEW c, v \in WorkOrderIds,
             Orders!CreateEmergencyWorkOrder(v, k, ts, c)
      PROVE  w \notin forgotten
  BY <1>7, <1>9 DEF Orders!CreateEmergencyWorkOrder
<1> QED
  BY <1>3, <1>4, <1>5, <1>6, <1>8, <1>9 DEF Routes

LEMMA ConsistentStep == IInv /\ OrdersInv /\ [Next]_vars => OrdersInv'
<1> SUFFICES ASSUME IInv, OrdersInv, [Next]_vars PROVE OrdersInv'
  OBVIOUS
<1> USE DEF orderVars, memoryVars, ticketVars, chainVars, paymentVars, faultVars
<1>0. TypeOK
  BY DEF IInv
<1>1. CASE Routes
  <2>1. Orders!Next /\ UNCHANGED forgotten
    BY <1>0, <1>1, RoutesRefine DEF Routes
  <2> QED
    BY <1>0, <1>1, <2>1, RoutesTakeNew, OrdersInvStep
<1>2. ASSUME NEW w \in WorkOrderIds, NEW c \in Calls, AutoCreateWorkOrder(w, c)
      PROVE  OrdersInv'
  <2>1. /\ fetching \in TicketIds /\ w \notin forgotten /\ UNCHANGED forgotten
        /\ Orders!OnEstimateApproved(w, fetching, c)
    BY <1>0, <1>2 DEF AutoCreateWorkOrder, TypeOK
  <2>2. Orders!Next
    BY <2>1 DEF Orders!Next
  <2>3. \A v \in WorkOrderIds : v \notin Stored(workOrders) /\ v \in Stored(workOrders') => v = w
    BY <1>0, <2>1 DEF Orders!OnEstimateApproved, Orders!BuildWorkOrder, Orders!Store, Stored,
       Orders!Stored, TypeOK, Orders!TypeOK
  <2> QED
    BY <1>0, <2>1, <2>2, <2>3, OrdersInvStep
<1>3. CASE UNCHANGED orderVars /\ forgotten \subseteq forgotten'
  <2>1. /\ OrdersProofs!TaskListsAgree' /\ OrdersProofs!CompletedHonest'
        /\ OrdersProofs!TimesMatchStatus' /\ OrdersProofs!NoDoubleBooking'
        /\ OrdersProofs!ConfirmedMeansStarted' /\ OrdersProofs!BookingsStored'
    BY <1>3 DEF OrdersInv, OrdersProofs!TaskListsAgree, OrdersProofs!CompletedHonest,
       OrdersProofs!TimesMatchStatus, OrdersProofs!NoDoubleBooking,
       OrdersProofs!ConfirmedMeansStarted, OrdersProofs!BookingsStored, OrdersProofs!Forced,
       OrdersProofs!Sent, OrdersProofs!Stored
  <2>2. OrdersProofs!NoticesStored(forgotten)' /\ OrdersProofs!NoticesTrueBut(forgotten)'
    BY <1>3 DEF OrdersInv, OrdersProofs!NoticesStored, OrdersProofs!NoticesBegun,
       OrdersProofs!NoticesTrueBut, OrdersProofs!Forced, OrdersProofs!Sent, OrdersProofs!Stored
  <2> QED
    BY <2>1, <2>2 DEF OrdersInv
<1>4. CASE WoManagerStops
  <2>1. /\ OrdersProofs!Stored(workOrders') = {} /\ OrdersProofs!Stored(serviceTasks') = {}
        /\ OrdersProofs!Stored(bookings') = {}
        /\ UNCHANGED <<notices, outcome>>
        /\ OrdersProofs!Stored(workOrders) \cup forgotten \subseteq forgotten'
    BY <1>4 DEF WoManagerStops, Emptied, Forget, OrdersProofs!Stored, Stored, Orders!Stored
  <2>2. /\ OrdersProofs!TaskListsAgree' /\ OrdersProofs!CompletedHonest'
        /\ OrdersProofs!TimesMatchStatus' /\ OrdersProofs!NoDoubleBooking'
        /\ OrdersProofs!ConfirmedMeansStarted' /\ OrdersProofs!BookingsStored'
    BY <2>1 DEF OrdersProofs!TaskListsAgree, OrdersProofs!CompletedHonest,
       OrdersProofs!TimesMatchStatus, OrdersProofs!NoDoubleBooking,
       OrdersProofs!ConfirmedMeansStarted, OrdersProofs!BookingsStored
  <2>3. OrdersProofs!NoticesStored(forgotten)'
    BY <2>1 DEF OrdersInv, OrdersProofs!NoticesStored, OrdersProofs!NoticesBegun
  <2>4. OrdersProofs!NoticesTrueBut(forgotten)'
    <3>1. \A topic, w : OrdersProofs!Sent(topic, w)' = OrdersProofs!Sent(topic, w)
      BY <2>1 DEF OrdersProofs!Sent, OrdersProofs!Stored
    <3>2. ASSUME NEW w \in WorkOrderIds, OrdersProofs!Forced(w)'
          PROVE  w \in forgotten'
      BY <2>1, <3>1, <3>2 DEF OrdersInv, OrdersProofs!NoticesTrueBut, OrdersProofs!Forced
    <3> QED
      BY <3>1, <3>2 DEF OrdersInv, OrdersProofs!NoticesTrueBut
  <2> QED
    BY <2>2, <2>3, <2>4 DEF OrdersInv
<1> QED
  BY <1>1, <1>2, <1>3, <1>4, NextCases
  DEF CreateTicket, CreateEstimate, ApproveEstimate, OnEstimateApproved, FetchFails,
      CheckWorkOrder, CreatePayment, MarkPaid, TicketManagerRestarts, WoManagerStarts,
      PaymentManagerRestarts, Forget, vars

\* wo-manager's routes keep all of it, however it restarts, approvals come in between
\* and publications raise.
LEMMA OrdersInvariance == Spec => []OrdersInv
<1>1. Init => OrdersInv
  <2> SUFFICES ASSUME Init PROVE OrdersInv
    OBVIOUS
  <2>1. OrdersProofs!Init
    BY SameInit DEF Init
  <2>2. OrdersProofs!IInv
    BY <2>1, SameAssumption, AssignmentsAssumption, OrdersProofs!InitIInv
  <2>3. OrdersProofs!NoticesTrueBut({})
    BY <2>2 DEF OrdersProofs!IInv, OrdersProofs!NoticesTrue, OrdersProofs!NoticesTrueBut,
       OrdersProofs!Forced
  <2>4. forgotten = {}
    BY DEF Init
  <2> QED
    BY <2>2, <2>3, <2>4 DEF OrdersProofs!IInv, OrdersInv
<1> QED
  BY <1>1, ConsistentStep, Invariance, PTL DEF Spec

\* Work orders, tasks and what was said of them stay consistent in wo-manager's
\* dictionaries over restarts, interleaved approvals and publications that raise.
THEOREM AlwaysConsistent == Spec => []WoManagerConsistent
  BY OrdersInvariance, OrdersInvMeans, PTL

\* So do bookings: create_booking and confirm_booking meet no half of what they knew.
THEOREM BookingsAlwaysConsistent == Spec => []BookingsConsistent
  BY OrdersInvariance, OrdersInvMeans, PTL

=============================================================================

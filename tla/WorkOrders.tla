----------------------------- MODULE WorkOrders -----------------------------
(***************************************************************************)
(* routes/workorders.py of the backend: work orders, their service tasks   *)
(* and their bookings, all kept in dictionaries of the process.            *)
(*                                                                         *)
(* Every handler runs to its end without giving up the event loop, except  *)
(* that three of them, after their last change of state, await the         *)
(* dispatch of a notification.  That dispatch is an invocation c of        *)
(* Delivery; notices[c] remembers what it was asked to send.               *)
(*                                                                         *)
(* A dictionary is a function on the identifiers that may ever be issued,  *)
(* with the value Absent for those that are not.  A time stamp is kept as  *)
(* whether it is set.                                                      *)
(***************************************************************************)
EXTENDS Naturals

CONSTANTS
    WorkOrderIds, TaskIds, BookingIds,  \* the uuids that may be issued
    TicketIds,                          \* what a ticket_id may be
    Calls,                              \* the invocations of dispatch()
    Slots,                              \* the pairs of instants a client asks for
    Absent,                             \* "not in the dictionary", None
    Unknown                             \* a work order id never issued

VARIABLES
    workOrders,     \* state.work_orders
    serviceTasks,   \* state.service_tasks
    bookings,       \* state.bookings
    notices,        \* notices[c]: what invocation c of dispatch() sends
    outcome         \* the state of that invocation, see Delivery

vars == <<workOrders, serviceTasks, bookings, notices, outcome>>

Dispatcher == INSTANCE Delivery

WorkOrderTypes == {"CorrectiveMaintenance", "EmergencyMaintenance"}

WorkOrder ==
    [ticket : TicketIds \cup {Absent}, type : WorkOrderTypes,
     status : {"Open", "InProgress", "Completed"}, tasks : SUBSET TaskIds,
     started : BOOLEAN, done : BOOLEAN]

ServiceTask == [workOrder : WorkOrderIds, completed : BOOLEAN]

Booking ==
    [workOrder : WorkOrderIds \cup {Unknown}, start : Nat, end : Nat,
     status : {"Tentative", "Confirmed"}]

Notice == [topic : {"wo.assigned", "wo.emergency.completed"}, workOrder : WorkOrderIds]

ASSUME WorkOrdersAssumption ==
    /\ Slots \subseteq Nat \X Nat
    /\ Absent \notin WorkOrder \cup ServiceTask \cup Booking \cup Notice
    /\ Unknown \notin WorkOrderIds

\* Every dictionary of state.py holds records of its schema, and so do the notices.
TypeOK ==
    /\ workOrders \in [WorkOrderIds -> WorkOrder \cup {Absent}]
    /\ serviceTasks \in [TaskIds -> ServiceTask \cup {Absent}]
    /\ bookings \in [BookingIds -> Booking \cup {Absent}]
    /\ notices \in [Calls -> Notice \cup {Absent}]
    /\ Dispatcher!TypeOK

Init ==
    /\ workOrders = [w \in WorkOrderIds |-> Absent]
    /\ serviceTasks = [t \in TaskIds |-> Absent]
    /\ bookings = [b \in BookingIds |-> Absent]
    /\ notices = [c \in Calls |-> Absent]
    /\ Dispatcher!Init

-----------------------------------------------------------------------------

\* The keys of a dictionary, and a uuid for a new entry.
Stored(dict) == {k \in DOMAIN dict : dict[k] # Absent}
Unissued(dict) == DOMAIN dict \ Stored(dict)

\* dispatch(topic, work order), up to where the handler is suspended in it or, if it
\* is not, to its end.
Send(c, topic, w) ==
    /\ outcome[c] = "idle"
    /\ notices' = [notices EXCEPT ![c] = [topic |-> topic, workOrder |-> w]]
    /\ Dispatcher!Accept(c) \/ Dispatcher!Settle(c)

SendNothing == UNCHANGED <<notices, outcome>>

\* One ServiceTask for each of ts, belonging to w.
StoreTasks(w, ts) ==
    serviceTasks' = [t \in TaskIds |->
        IF t \in ts THEN [workOrder |-> w, completed |-> FALSE] ELSE serviceTasks[t]]

\* A record under the fresh id w together with its initial tasks.
Store(w, record) ==
    /\ w \in Unissued(workOrders)
    /\ record.tasks \subseteq Unissued(serviceTasks)
    /\ StoreTasks(w, record.tasks)
    /\ workOrders' = [workOrders EXCEPT ![w] = record]
    /\ UNCHANGED bookings

\* _build_work_order: a work order begins Open.
BuildWorkOrder(w, ticket, type, ts) ==
    Store(w, [ticket |-> ticket, type |-> type, status |-> "Open", tasks |-> ts,
              started |-> FALSE, done |-> FALSE])

-----------------------------------------------------------------------------

\* on_estimate_approved for an estimate whose ticket is found.
OnEstimateApproved(w, ticket, c) ==
    /\ BuildWorkOrder(w, ticket, "CorrectiveMaintenance", {})
    /\ Send(c, "wo.assigned", w)

\* POST /work-orders: the type is any string the client likes.
CreateWorkOrder(w, ticket, type, ts) ==
    /\ BuildWorkOrder(w, ticket, type, ts)
    /\ SendNothing

\* POST /work-orders/emergency
CreateEmergencyWorkOrder(w, ticket, ts, c) ==
    /\ Store(w, [ticket |-> ticket, type |-> "EmergencyMaintenance",
                 status |-> "InProgress", tasks |-> ts, started |-> TRUE, done |-> FALSE])
    /\ Send(c, "wo.assigned", w)

\* (mutant) the task is stored but not appended to the work order's list.
AddTaskUnlisted(w, t) ==
    /\ w \in Stored(workOrders) /\ workOrders[w].status # "Completed"
    /\ t \in Unissued(serviceTasks)
    /\ StoreTasks(w, {t})
    /\ UNCHANGED <<workOrders, bookings>> /\ SendNothing

\* (mutant) the 409 for a Completed work order is missing.
AddTaskUnguarded(w, t) ==
    /\ w \in Stored(workOrders)
    /\ t \in Unissued(serviceTasks)
    /\ StoreTasks(w, {t})
    /\ workOrders' = [workOrders EXCEPT ![w].tasks = @ \cup {t}]
    /\ UNCHANGED bookings /\ SendNothing

\* POST /work-orders/{w}/tasks, refused for a Completed work order.
AddTask(w, t) ==
    /\ w \in Stored(workOrders)
    /\ workOrders[w].status # "Completed"
    /\ t \in Unissued(serviceTasks)
    /\ StoreTasks(w, {t})
    /\ workOrders' = [workOrders EXCEPT ![w].tasks = @ \cup {t}]
    /\ UNCHANGED bookings /\ SendNothing

\* (mutant) any() where the code has all().
AnyDoneWith(w, t) == workOrders[w].tasks = {} \/
    \E u \in workOrders[w].tasks : u = t \/ serviceTasks[u].completed

\* Are all tasks of w completed once t is?
AllDoneWith(w, t) == \A u \in workOrders[w].tasks \ {t} : serviceTasks[u].completed

\* (mutant) the last task completes an Open work order without starting it.
CompleteTaskUnstarted(w, t) ==
    /\ w \in Stored(workOrders) /\ t \in Stored(serviceTasks)
    /\ serviceTasks' = [serviceTasks EXCEPT ![t].completed = TRUE]
    /\ workOrders' = [workOrders EXCEPT
          ![w].status = IF AllDoneWith(w, t) THEN "Completed" ELSE "InProgress",
          ![w].started = @ \/ ~AllDoneWith(w, t),
          ![w].done = @ \/ AllDoneWith(w, t)]
    /\ UNCHANGED bookings /\ SendNothing

\* PATCH /work-orders/{w}/tasks/{t}/complete: t is any stored task, of w or not.
CompleteTask(w, t) ==
    /\ w \in Stored(workOrders)
    /\ t \in Stored(serviceTasks)
    /\ serviceTasks' = [serviceTasks EXCEPT ![t].completed = TRUE]
    /\ workOrders' = [workOrders EXCEPT
          ![w].status = IF AllDoneWith(w, t) THEN "Completed"
                        ELSE IF @ = "Open" THEN "InProgress" ELSE @,
          ![w].started = IF workOrders[w].status = "Open" THEN TRUE ELSE @,
          ![w].done = IF AllDoneWith(w, t) THEN TRUE ELSE @]
    /\ UNCHANGED bookings /\ SendNothing

\* PATCH /work-orders/{w}/complete-emergency: only the type is checked.
CompleteEmergencyWorkOrder(w, c) ==
    /\ w \in Stored(workOrders)
    /\ workOrders[w].type = "EmergencyMaintenance"
    /\ workOrders' = [workOrders EXCEPT ![w].status = "Completed", ![w].done = TRUE]
    /\ Send(c, "wo.emergency.completed", w)
    /\ UNCHANGED <<serviceTasks, bookings>>

-----------------------------------------------------------------------------

\* (mutant) only a slot that begins inside a booking is refused.
BeginsInside(w, start, end) ==
    \E b \in Stored(bookings) :
       bookings[b].workOrder = w /\ start >= bookings[b].start /\ start < bookings[b].end

\* _bookings_overlap: does [start, end) meet a booking of the same work order?
BookingsOverlap(w, start, end) ==
    \E b \in Stored(bookings) :
       /\ bookings[b].workOrder = w
       /\ start < bookings[b].end
       /\ end > bookings[b].start

\* POST /bookings: neither the work order nor start < end is checked.
CreateBooking(b, w, start, end) ==
    /\ b \in Unissued(bookings)
    /\ ~BookingsOverlap(w, start, end)
    /\ bookings' = [bookings EXCEPT ![b] = [workOrder |-> w, start |-> start,
                                            end |-> end, status |-> "Tentative"]]
    /\ UNCHANGED <<workOrders, serviceTasks>> /\ SendNothing

\* PATCH /bookings/{b}/confirm: an Open work order is started by it.
ConfirmBooking(b) ==
    /\ b \in Stored(bookings)
    /\ bookings[b].status = "Tentative"
    /\ bookings' = [bookings EXCEPT ![b].status = "Confirmed"]
    /\ LET w == bookings[b].workOrder IN
       \/ /\ w \in Stored(workOrders) /\ workOrders[w].status = "Open"
          /\ workOrders' = [workOrders EXCEPT ![w].status = "InProgress",
                                              ![w].started = TRUE]
       \/ /\ w \in Stored(workOrders) => workOrders[w].status # "Open"
          /\ UNCHANGED workOrders
    /\ UNCHANGED serviceTasks /\ SendNothing

\* A handler is resumed: its dispatch returned.
NoticeSettled(c) ==
    /\ Dispatcher!Return(c)
    /\ UNCHANGED <<workOrders, serviceTasks, bookings, notices>>

-----------------------------------------------------------------------------

Next ==
    \/ \E w \in WorkOrderIds, k \in TicketIds, c \in Calls : OnEstimateApproved(w, k, c)
    \/ \E w \in WorkOrderIds, k \in TicketIds, type \in WorkOrderTypes,
          ts \in SUBSET TaskIds : CreateWorkOrder(w, k, type, ts)
    \/ \E w \in WorkOrderIds, k \in TicketIds \cup {Absent}, ts \in SUBSET TaskIds,
          c \in Calls : CreateEmergencyWorkOrder(w, k, ts, c)
    \/ \E w \in WorkOrderIds, t \in TaskIds : AddTask(w, t) \/ CompleteTask(w, t)
    \/ \E w \in WorkOrderIds, c \in Calls : CompleteEmergencyWorkOrder(w, c)
    \/ \E b \in BookingIds, w \in Stored(workOrders) \cup {Unknown},
          slot \in Slots : CreateBooking(b, w, slot[1], slot[2])
    \/ \E b \in BookingIds : ConfirmBooking(b)
    \/ \E c \in Calls : NoticeSettled(c)

\* Requests come when clients send them; only the dispatcher owes progress.
Fairness == \A c \in Calls : WF_vars(NoticeSettled(c))

Spec == Init /\ [][Next]_vars /\ Fairness

-----------------------------------------------------------------------------

Sent(topic, w) ==
    {c \in Stored(notices) : notices[c].topic = topic /\ notices[c].workOrder = w}

\* Was complete-emergency ever called for w?
Forced(w) == Sent("wo.emergency.completed", w) # {}

\* The two places that say whose task a task is agree: every stored task names
\* a stored work order, and a work order lists exactly the tasks that name it,
\* so none is lost and none is shared.
TaskListsAgree ==
    /\ \A t \in Stored(serviceTasks) : serviceTasks[t].workOrder \in Stored(workOrders)
    /\ \A w \in Stored(workOrders) :
          workOrders[w].tasks = {t \in Stored(serviceTasks) : serviceTasks[t].workOrder = w}

\* A Completed work order has no unfinished task, unless it was completed by
\* complete-emergency: the 409 of add_task and the all() of complete_task
\* together keep it so, whatever the order of the calls.
CompletedHonest ==
    \A w \in Stored(workOrders) : workOrders[w].status = "Completed" =>
       Forced(w) \/ \A t \in workOrders[w].tasks : serviceTasks[t].completed

\* started_at is set exactly when work has begun; only complete-emergency can
\* complete a work order that was never started.  done_at marks completion.
TimesMatchStatus ==
    \A w \in Stored(workOrders) : LET wo == workOrders[w] IN
       /\ wo.status = "Open" => ~wo.started
       /\ wo.status = "InProgress" => wo.started
       /\ wo.status = "Completed" => wo.started \/ Forced(w)
       /\ wo.done <=> wo.status = "Completed"

\* No two bookings of one work order share an instant, although create_booking
\* compares a new slot with the stored ones only.
NoDoubleBooking ==
    \A a, b \in Stored(bookings) :
       a # b /\ bookings[a].workOrder = bookings[b].workOrder =>
          ~(bookings[a].start < bookings[b].end /\ bookings[b].start < bookings[a].end)

\* Work on an order with a confirmed booking has begun.
ConfirmedMeansStarted ==
    \A b \in Stored(bookings) :
       bookings[b].status = "Confirmed" /\ bookings[b].workOrder \in Stored(workOrders) =>
          workOrders[bookings[b].workOrder].status # "Open"

\* Nobody is told twice that a work order was assigned, and who is told of an
\* emergency's completion is told the truth for good.
NoticesTrue ==
    \A w \in WorkOrderIds :
       /\ \A c, d \in Sent("wo.assigned", w) : c = d
       /\ Forced(w) => /\ w \in Stored(workOrders)
                       /\ workOrders[w].type = "EmergencyMaintenance"
                       /\ workOrders[w].status = "Completed"

\* Nothing un-completes a work order, gives it another task afterwards, or
\* forgets a record: what was completed or confirmed stays so.
NothingUndone ==
    /\ \A w \in Stored(workOrders) :
          /\ w \in Stored(workOrders')
          /\ workOrders[w].status = "Completed" =>
                workOrders'[w].status = "Completed" /\ workOrders'[w].tasks = workOrders[w].tasks
    /\ \A t \in Stored(serviceTasks) :
          t \in Stored(serviceTasks') /\ (serviceTasks[t].completed => serviceTasks'[t].completed)
    /\ \A b \in Stored(bookings) :
          b \in Stored(bookings') /\ (bookings[b].status = "Confirmed" =>
                                         bookings'[b].status = "Confirmed")

CompletedFrozen == [][NothingUndone]_vars

-----------------------------------------------------------------------------
\* What the documentation says of the program and the code does not do.

\* docs/flows.md:85 and docs/api.md:80: when all tasks are completed, so is
\* the work order.
AllTasksDoneCompletes ==
    \A w \in Stored(workOrders) :
       workOrders[w].tasks # {} /\ (\A t \in workOrders[w].tasks : serviceTasks[t].completed) =>
          workOrders[w].status = "Completed"

=============================================================================

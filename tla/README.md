# Specifications of the work-order system

TLA+ specifications of the facility-management system in this repository: from an
observation (an IoT event or a report) to an issue, a ticket, an approved
estimate, a work order with tasks and bookings, and a payment; with notification,
escalation, preventive maintenance, the synchronisation of building topologies and
the operations dashboard around them. TLC checks small instances; the theorems in
the `*_proofs` modules are checked by TLAPS for every value of the constants.

The system comes in two builds with the same domain: **the backend**
(`services/backend`), one FastAPI process with everything in the dictionaries of
`state.py`, and **the microservices** (nine processes that talk over HTTP and
NATS). Both are modelled, the microservices by reuse of the backend's modules wherever
their code is the same.

Paths below are relative to `src/`.

## Inventory

### Concurrency of the backend

One process, one asyncio event loop. A handler runs without interruption until it
awaits something that suspends, so an action of a model is the code between two
such points. The points are few:

| where | suspended in | module |
|---|---|---|
| `tasks/notify.py:41` `dispatch` | the adapter's HTTP request, the back-off | `Notify` |
| `routes/workorders.py:61,90,148` | `dispatch`, after the last change of state | `WorkOrders` |
| `tasks/obs_analyzer.py:74,83` | the sleep, and the `dispatch` of each escalation, **before** the queue is updated | `Reports` |
| `tasks/wo_scheduler.py:61,70` | the `dispatch` of each trigger, **before** the dates are updated; the sleep | `Schedules` |
| `state.py:60-66,98` | each request to Building OS, the sleep | `Topology` |
| `ops_dashboard/main.py:34-42` | four concurrent requests to the backend | `OpsDashboard` |

Nothing is persisted: a restart of the backend is the initial state, and there is no
recovery of its own to check. Identifiers are fresh uuids.

### Concurrency of the microservices

Nine such processes. They meet in two ways:

- **HTTP.** A request may fail before or after it was served, and its caller does not
  know which. The caller is suspended meanwhile: `wo_manager/main.py:86` (the ticket of
  an approval), `payment_manager/main.py:40` (the work order of a payment),
  `obs_analyzer/main.py:93` (an issue), `wo_scheduler/main.py:88-128` (the four
  requests of a chain).
- **NATS**, without JetStream: a message goes to whoever subscribes and runs at that
  moment, and to nobody later. Each subscription has a queue that is handed to its
  callback one message at a time, so that messages of one subject keep their order and
  those of two subjects do not. A process that ends takes its queues and its
  dictionaries with it, while the others go on with what they remember of it.

### Components

| component | state | operations | talks to | hard part | what makes it correct | module |
|---|---|---|---|---|---|---|
| notification dispatcher `tasks/notify.py` | `_delivery_log` | `dispatch` with three attempts | Slack, a webhook, a log line; called by the three below | retries, lost answers, concurrent calls | exact log, honest verdict, every caller resumed | `Notify`, `Delivery` |
| work orders `routes/workorders.py` | `work_orders`, `service_tasks`, `bookings` | create (3 ways), add and complete tasks, complete an emergency, book, confirm | dispatcher; called by tickets and by the scheduler | long sequences of legal calls over three dictionaries that refer to each other | lists agree, completion honest and final, no double booking | `WorkOrders` |
| observations and issues `routes/obs.py`, `routes/issues.py`, `tasks/obs_analyzer.py` | `reports`, `iot_events`, `pending_reports`, `issues`, the loop's snapshot | ingress, evaluate, approve, create, review, resolve, escalate | dispatcher | a snapshot used across awaits | escalated at most once, one issue per report, resolved is final, nothing forgotten | `Reports` |
| tickets, estimates, payments `routes/tickets.py`, `routes/payments.py` | `tickets`, `estimates`, `payments` | create, approve, create, mark paid | call `on_estimate_approved` directly | repeated calls; records in other dictionaries | no approval without its work order, no dangling record | `Tickets` (with `WorkOrders`) |
| schedules `routes/schedules.py`, `tasks/wo_scheduler.py` | `schedules`, the cycle | create, delete, run a cycle | makes tickets, estimates, work orders; dispatcher | dates set after an await; deletions meanwhile; overflow | one chain in a cycle, spaced from earlier cycles, dates honest, what is due is triggered | `Schedules`, `Tickets!TriggerSchedule` |
| topology registry `state.py`, `routes/buildings.py` | `_topologies` | sync, sync loop, requested sync | Building OS | overlapping syncs, partial failures | an older reading only after an overlap, nothing lost, convergence | `Topology` |
| operations dashboard `ops_dashboard/main.py` | none | flows, problems; proxies | the backend | four lists of four moments, some missing | no false and no missed alarm | `OpsDashboard` |
| dashboard user interface `ops_dashboard/static/src` | selections, drawers | review in bulk, forms | the dashboard | acts on an earlier fetch | | none, see "Not modelled" |
| obs-collector, obs-analyzer, issue-manager | `_reports`, `_iot_events`; `_pending_reports`; `_issues`; the queues of four subscriptions | ingress, evaluation, escalation, issue routes | NATS, HTTP | messages lost, overtaken; restarts in the middle; `publish` that raises | escalated at most once, none dropped in silence, none forgotten | `Observations`, `AtMostOnce` |
| ticket-manager, wo-manager, payment-manager | `_tickets`, `_estimates`; `_work_orders`, `_tasks`, `_bookings`; `_payments`; the queue of approvals | approve, make the work order, check and pay; the routes | NATS, HTTP | approvals lost, tickets forgotten, work orders forgotten after the check; `publish` that raises | no approval makes two work orders, none is lost while nothing fails, work orders, tasks and bookings stay consistent over restarts, payments are for known work orders | `Assignments`, `WorkOrders`, `AtMostOnce` |
| notify-dispatcher | `_delivery_log`, three queues | a callback that awaits `dispatch` | Slack, a webhook | a receiver that is down holds a subject up | order kept within a subject, every message gets its record | `Dispatcher`, `Notify` |
| wo-scheduler | `_schedules`, the cycle | routes; a chain of four requests | issue-manager, ticket-manager | failing after some of the four were served, a lost answer | work made twice only when an answer was lost; half-made chains bounded by the failures | `Chains`, `Schedules` |
| building-registry | `_topologies` | as `Topology`, and restarts | Building OS | overlapping syncs, restarts in the middle | an older reading only after an overlap, only a restart forgets | `BuildingRegistry`, `Topology` |

`PROJECT.json` lists the remaining parts (rendering, scripts, deployment), which
keep no state the system depends on, under `components`, and every hazard at its
line under `hazards`.

## Modules

Conventions. A dictionary is a function on the identifiers that may ever be issued,
`Absent` for those that are not; `Stored(dict)` are its keys and `Unissued(dict)`
the uuids a new entry may take. `Unknown` is an identifier a client invents. A
handler that answers 404 or 409 changes nothing and has no action of its own: its
condition is the guard of the action. A time stamp is kept as whether it is set,
except where dates are compared (`WorkOrders` bookings, `Schedules`). Definitions
marked `(mutant)` are the code with a bug; the specifications do not use them, they
show that each property can fail.

- **`Delivery`** is what a caller of `dispatch` may rely on: the call is settled
  once, as a success or an error. It is the abstract specification `Notify`
  implements, and what `WorkOrders` is composed with.
- **`Notify`** is `dispatch` itself: the phase of each call, its attempt, how often
  the receiver got it, the log. A request that raised may have been processed, or be
  processed at any later moment, also after the verdict: `RequestFails` ends the attempt,
  and `LateReceipt` is the receiver getting a request that has ended, once each at most.
  `OutcomeOf` is the refinement mapping.
- **`WorkOrders`** has one action per route and per caller of `_build_work_order`.
  `Send` begins an invocation of `Delivery`; `notices` remembers what it sends,
  `NoticeSettled` is the handler being resumed. Bookings compare half-open slots of
  instants; a slot may be empty or reversed, as in the code.
- **`Reports`** has the ingress, issue and evaluation handlers whole, and
  `escalation_loop` in two actions: `ScanBegins` up to its first await, and
  `EscalationSent` from one await to the next. `scan` is the local variable
  `to_escalate`; `evaluated` remembers whom somebody evaluated or approved.
  `BecomeOverdue` is the passing of the threshold.
- **`Tickets`** composes tickets, estimates and payments with `WorkOrders`
  (`Orders`). Approval and the new work order are one step, because
  `on_estimate_approved` is called directly. `OrdersStep` is what every other route
  may do to work orders.
- **`Schedules`** has `run_cycle` from await to await: `RunCycle` and
  `TriggerReturns`. A deleted schedule lives on in a cycle that holds it. The
  clock is in days. `triggers` keeps the `now` of the cycle each chain is made in, from
  which the code counts the interval, `issued` the day the chain is really made.
- **`Topology`** has one action per answer of Building OS. What Building OS says
  of a building is the number of its last change, and delisting is a change: a request
  for a building that has gone may fail or be answered with what is left of it, which is
  stored. `GET /spaces` takes no building, so its answer is the set of all of them.
  `overtaken` remembers of a suspended sync that another one has stored its building.
- **`OpsDashboard`** has the four fetches as separate steps between which the
  backend serves others, and `_build_flows` as an operator on four lists. Of a
  record it keeps what the join and the flags look at.
- **`AtMostOnce`** is what a publisher may rely on when a plain NATS subscription
  and its callback are at the other end: handled at most once, settled in the end,
  lost, or never sent, only if something failed. `Assignments` and `Observations` implement it, by
  counting the messages under way and the records they have left.
- **`Assignments`** composes ticket-manager, wo-manager and payment-manager. An
  approval is appended to `queue` if wo-manager is `listening`; `OnEstimateApproved`
  takes it out and suspends in the request for the ticket (`fetching`);
  `AutoCreateWorkOrder` is `WorkOrders!OnEstimateApproved`, `Routes` its other
  routes. `CheckWorkOrder` and `CreatePayment` are the two sides of payment-manager's
  await. `publish` comes after the change of state and may raise, in ticket-manager
  (`ApproveEstimate`) and in wo-manager (`Announce`): what was changed stays and nobody
  is told. `forgotten` are the uuids that restarts have lost, which are not issued again.
  A work order that wo-manager publishes is an invocation of `Delivery` that stays
  pending: `Dispatcher` takes over from there.
- **`Observations`** composes obs-collector, obs-analyzer and issue-manager with one
  queue for each subscription. `scan` is `to_escalate`, as in `Reports`; the report is
  taken out of `pending` when its message is out, and stays when `publish` raises; in
  obs-collector a raising `publish` leaves an observation stored of which obs-analyzer
  never hears. `lost` are those reports and the ones a stop of obs-analyzer took along,
  and no others.
- **`Dispatcher`** puts `Notify` behind three subscriptions: a subject's next message
  waits until `dispatch` of the one before it has returned.
- **`Chains`** adds to `Schedules` the four requests of a chain. `made` counts the
  records they leave, `triggers` and `issued` are of the approvals that were served,
  `lost` those whose answer was not seen. A request whose answer is not seen is served,
  if at all, before its caller gives up, here and in `Assignments` and `Observations`.
- **`BuildingRegistry`** is `Topology` with restarts. Its process begins with the
  first sync again and forgets what was asked for.

`MC*` modules declare the symmetry sets for TLC, which only runs without liveness
properties use. A sequence of answers to two
different requests is never assumed to arrive in order.

## Runs

| run | instance | states | what it shows |
|---|---|---|---|
| `dispatcher` | 3 messages, 2 subjects, 3 attempts, each adapter | 135 015 | log exact, verdict honest, a subject's order kept by the retries, `Delivery` implemented (with liveness), every message logged, however late a request is received |
| `workorders` | 2 work orders, 2 tasks, 2 bookings in every slot of 4 instants, a ticket, a notice | 984 906 | task lists, completions, time stamps and bookings agree; nothing is undone |
| `reports` | 2 reports, 1 event, 2 issues | 97 896 | escalated at most once, one issue per report, snapshot sound, nothing forgotten |
| `tickets` | 1 ticket, 2 estimates, 2 work orders, a task, a payment, 3 notices; bookings, which no property here looks at, are left to `workorders` | 192 316 | no approval lost; no work order announced twice, what was said of an emergency stays true |
| `schedules` | 2 schedules, intervals 1, 2 and 10, clock to 3, last date 9 | 707 204 | one chain in a cycle and none within an interval of an earlier cycle's beginning, dates honest, due schedules triggered |
| `chains` | 2 schedules, intervals 1 and 2, clock to 1, last date 2, a failure | 211 050 | the same of approvals unless an answer was lost, dates tell of answered ones, half-made chains accounted for, due schedules approved |
| `assignments` | 1 ticket, 1 estimate, 2 approvals of it, 3 work orders (one a client's), 1 task, a payment, 3 notices, 2 faults; bookings are left to `workorders` and to `BookingsAlwaysConsistent` | 338 115 | no approval makes two work orders, none lost without a fault, payments for known work orders, work orders and tasks consistent over restarts and raising publications, `AtMostOnce` implemented |
| `observations` | 2 reports and 1 event of which 2 are collected, 2 issues (one a client's), 2 faults | 61 656 | escalated at most once, only what a fault took away is dropped, the rest never forgotten, `AtMostOnce` implemented |
| `registry` | 2 buildings, loop and 1 request, 2 changes, 1 failure, 1 restart | 662 257 | an older reading only after an overlap, only a restart forgets, convergence |
| `dashboard` | 1 issue, ticket, work order, 2 payments, 1 query | 890 897 | no false alarm, no missed alarm, every issue in one flow |
| `workorders_all_done`, `reports_stale` | | | counterexamples, see below |

**Why the bounds are enough.** The interesting cases need two of something: two work orders
for a task completed under the wrong one, two tasks for "any" against "all", two bookings in
any two of the six proper slots within four instants, which may be apart, touch, overlap,
share an end, contain each other or be equal, or in an empty and a reversed one, three
notices (`tickets`) for an emergency that is announced and completed twice, two reports for
a snapshot that outlives its first member, two estimates of one ticket, two schedules for a
cycle with a rest, two buildings and two overlapping syncs for a partial failure, two
payments of one work order. Three messages on two subjects put two into one queue beside
another one that is being retried. Two faults are a restart after a lost request or a
raising publication, two restarts of one process, or one each of two; two approvals of which
one is in the queue while the other is in hand are what a dropped or repeated message shows
with. The interval of 10 with a last date of 9 makes `timedelta` overflow. `MaxTriggers`
only stops the extra chains of that overflow, or of a lost answer; without them a schedule
has at most four chains in three days. The proofs then remove the bounds for safety.

`CHECK_DEADLOCK FALSE` is set where the instance runs out of identifiers or of
time: every call of `dispatcher` has returned, all uuids of `workorders` are
used, the clock of `schedules` stands still.

**Fairness.** No client ever has to send anything. What is fair is what asyncio and
the libraries see to: an HTTP request ends, by its answer or by the time-out of
httpx (`Notify`, `Topology`, `Chains`, `Assignments`), a sleep ends, `dispatch` returns
(which `dispatcher` checks, as the liveness of `Delivery`), a subscription's task
hands the next message to its callback when the last call has returned, a loop that
caught an exception goes on, and time passes for the age of a report. `DueTriggered` says nothing about a
schedule while some date would overflow: the exception of that schedule drops the
rest of the cycle, and may do so in every cycle. `Converges` is about the time after
the bounded changes, failures and restarts. Nobody has to start a process that has
stopped: `NoReportForgotten` of `Observations` excepts, one by one, the reports in `lost`.

**Counterexamples.**

- `workorders_all_done` (`routes/workorders.py:124`): `complete_task` looks its task
  up among all tasks, not among those of the work order in the path. The last task
  of `w1` completed under `w2` leaves `w1` Open, or InProgress, with nothing to do.
- `reports_stale` (`tasks/obs_analyzer.py:82`): the loop does not look at the queue
  again after an await; a report evaluated meanwhile is escalated.

Met while modelling, without a run: `approve_estimate` does not look at the status of the
estimate, so that a repeated approval makes another work order where `docs/flows.md:73` has
only a draft approved (`routes/tickets.py:56`, `ticket_manager/main.py:93`); `interval_days`
has no upper bound, and when the next date overflows the chain has been issued and the date
is not moved, so that every cycle issues another (`tasks/wo_scheduler.py:64`,
`wo_scheduler/main.py:134`); payment-manager takes every answer but 404 for the existence of
a work order, so that an id such as `x/tasks`, which meets another route and is refused with
405, gets its payment where `docs/api.md:92` has the work order checked
(`payment_manager/main.py:41`, `Misrouted` in `Assignments`); obs-analyzer may handle
`evaluated` before `created` of a report, keeps the report and escalates it
(`obs_analyzer/main.py:64`); wo-manager closes its HTTP client before it drains its
subscription, so that the approvals still queued are taken out and lost
(`wo_manager/main.py:120`); `complete-emergency` accepts an Open or a Completed work order
where `docs/flows.md:86` says InProgress (`routes/workorders.py:143`); the next date is
counted from the beginning of the cycle, so that late cycles shift the schedule and, after a
slow cycle, two chains of one schedule may be made on one day (`tasks/wo_scheduler.py:64`),
which is why `TriggersSpaced` measures from there; a call that is logged as an error may be
received afterwards (`tasks/notify.py:46`); when `publish` raises after a change of state
the caller gets 500 or the callback ends, the change stays and nobody is told of it
(`obs_collector/main.py:64`, `ticket_manager/main.py:96`, `wo_manager/main.py:102,156,236`);
each stored building has the spaces of all buildings (`state.py:66`); a sync that was
suspended may put an older reading back (`state.py:87`), which the next one corrects; when
`/payments` cannot be fetched, paid flows are listed as unpaid (`ops_dashboard/main.py:45`).
The models do what the code does in each of these cases, and the checked properties say
where they have to except it.

## Proofs

Every proof module extends its component's module, states an inductive invariant
`IInv` that contains the checked invariants, and proves `Init => IInv`,
`IInv /\ [Next]_vars => IInv'` and, from these, each theorem. The assumptions are
those the modules name: `Absent`, `Never`, `None` and `Unknown` differ from what they stand
beside, instants and intervals are numbers, `MaxAttempts` is positive and, where records
are counted (`Tickets`, `Assignments`, `Observations`), the sets of identifiers are finite.

- **`Notify_proofs`**: type correctness, `LogExact`, `VerdictHonest`
  and the safety of the refinement of `Delivery`. Added to the
  invariant: a call that sleeps has attempts left, one that has not begun has made none.
  Every step of `Dispatcher` is one of `Notify` or a stutter (`DispatcherUsesNotify`), so
  that all of this holds of the microservice; `SubjectOrder` adds that a message comes
  once, and that it begins only when every earlier one of its subject is settled.
  `DispatcherKeepsPromise` puts this together for notify-dispatcher.
- **`WorkOrders_proofs`**: type correctness, all six invariants, `CompletedFrozen`.
  Added: a notice names a stored work order and belongs to an invocation that has
  begun, so that none is used twice and an emergency's completion is announced for
  good; a booking's work order exists or never will. `CompletedHonest` leans on
  `TaskListsAgree`: only with it is "all of *this* order's tasks" what
  `complete_task` looks at. The notices are treated apart from work orders being stored, so
  that `Assignments` can use the same lemmas when some of them are lost.
- **`Reports_proofs`**: type correctness, `EscalatedAtMostOnce`, `OneIssuePerReport`,
  `ReviewAfterEvaluation`, `SnapshotSound`, `ResolvedFinal`. `EscalatedAtMostOnce` is not inductive:
  whether a report may be dispatched depends on what the loop holds, which is
  `SnapshotSound`. Added: a report not yet received is nowhere.
- **`Tickets_proofs`** uses `WorkOrders_proofs` by instantiation: each step is one of
  `WorkOrders` or leaves work orders alone, so its invariant carries over, `NoticesTrue`
  included. With it,
  `WorkForEveryApproval` is a counting argument: an approval adds at most one to the
  approved estimates and exactly one to the announced work orders, and no announced
  work order loses its ticket, type or notice.
- **`Schedules_proofs`**: type correctness, `TriggersSpaced`, `DatesHonest`,
  `DueStaysDue`. `TriggersSpaced` needs both others, and that no chain is dated later
  than now or than the cycle that holds its schedule: the dates of a schedule lag
  behind its chains while the loop is suspended. Added for the days on which chains are
  made: every chain so far was made no later than now, and none but the current cycle's
  own after that cycle began. For `Chains`: `ApprovalsSpaced`,
  `AnsweredDates`, `OrphansAccounted`. Added: the last answered approval has the latest
  date, a lost one was served, and the chain under way is one record ahead of the
  request it waits for.
- **`Topology_proofs`** is about `BuildingRegistry`, whose steps are those of `Topology`
  and the restart: type correctness, `OlderOnlyIfOvertaken`,
  `ForgetsOnlyByRestart`. Added: the
  floors a suspended sync holds are not of a later time than what Building OS says now,
  nor than the devices it has read since, and, unless the sync was overtaken, not of an
  earlier one than what is stored. For `OpsDashboard`: type correctness,
  `NoFalseAlarm`, `NoAlarmMissed`, `EveryIssueShown`. Added: each list that has been
  fetched lies between what the backend had when the request came in and what it has now:
  no record is missing that was there before, none refers elsewhere than it did, and no
  payment or completion has been taken back. Of every flow the work orders exist.
- **`Assignments_proofs`**: type correctness, `ApprovalsAccounted`, `PaymentsFor`,
  `WoManagerConsistent`, and the safety of the refinement of `AtMostOnce`. The
  first is a counting argument over the queue, the message in hand and the work orders
  made; it needs that no other route changes what makes a work order count, which comes
  from `WorkOrders`, and that an announced one was announced once. `ApprovalsSafety` adds
  that the bound on approvals holds for what is under way and what is handled together,
  also when a restart loses either. `AlwaysConsistent` takes the invariant of
  `WorkOrders` over: each route is one of its steps, also when its publication raises, and
  a restart, which is none, empties the three dictionaries together and does not give a lost identifier out again.
  `BookingsAlwaysConsistent` says the same of bookings, which the run leaves out.
- **`Observations_proofs`**: type correctness, `EscalatedAtMostOnce`, `NoReportDropped`,
  and the safety of the refinement of `AtMostOnce` by the IoT events.
  The first rests on the order of the places a report passes (collected, waiting,
  pending, taken by a scan, escalated), of which it is never at an earlier one again.
  `EventsSafety` rests on an event being in one place, its message or the issue made of
  it, and on nothing being down unless there was a fault.

Every safety property of a passing run has a theorem. Only model-checked are the liveness
properties, which the prover cannot state progress for: `EveryMessageLogged`,
`NoReportForgotten`, `DueTriggered`, `Converges`, and what `ImplementsDelivery` and
`ImplementsAtMostOnce` say beyond their safety (`DeliverySafety`, `ApprovalsSafety`,
`EventsSafety`).

## Not modelled

Wording, formatting and the fields no rule looks at. Reading routes, which change
nothing. Time zones: comparing a booking with an offset to one without raises
`TypeError` in Python. The connection to NATS in the backend, which nothing uses.
Shutdown, but for what wo-manager loses by it. Restarts of obs-collector and
notify-dispatcher, of which no other process depends on the memory; one of
wo-scheduler has the effect of a request that raises followed by the deletion of
every schedule, both of which `Chains` has. The queue group of notify-dispatcher,
which matters only with several instances: one is modelled. `last_synced_at`, which is shown only. The dashboard's
proxies, which forward one request each, and its user interface: what a browser sends
on a stale screen is a request any client may send, which the models of the routes
allow at any time. Presentation, the demonstration, the tests, deployment and
`scripts/validate_arch_sync.py`, which compares files.

## Plan

Done: all modules above, and the proofs of every safety property the runs check.

Left:

1. The restart of notify-dispatcher, whose messages are then lost with their records,
   in composition with `Assignments`.
2. A run of the two builds side by side: what `Tickets` promises and `Assignments`
   does not is so far told apart by their properties only.

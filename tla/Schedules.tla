----------------------------- MODULE Schedules -----------------------------
(***************************************************************************)
(* Preventive maintenance of the backend: routes/schedules.py and          *)
(* tasks/wo_scheduler.py.  cycle_loop wakes up every now and then, takes   *)
(* the schedules that are due and triggers them one after the other.  Each *)
(* trigger ends in the dispatch of a notification, which suspends the loop *)
(* for as long as the dispatcher likes: time passes meanwhile, schedules   *)
(* are created and deleted, and only when the dispatch returns does the    *)
(* schedule get its next date.                                             *)
(*                                                                         *)
(* A trigger stands for the records it makes, see Tickets!TriggerSchedule. *)
(***************************************************************************)
EXTENDS Naturals, Sequences

CONSTANTS
    ScheduleIds,    \* the uuids that may be issued
    Intervals,      \* the values of interval_days in use
    MaxDate,        \* datetime.max: a later date raises OverflowError
    MaxTime,        \* bound: the clock stops here
    MaxTriggers,    \* bound: no cycle begins once a schedule has so many chains
    Never           \* None

VARIABLES
    schedules,      \* the ScheduleDef objects, Never before they are made
    registered,     \* the keys of state.schedules: a deleted object lives on
                    \* in a cycle that holds it
    clock,          \* the date
    cycle,          \* run_cycle: the schedule in _trigger, the rest of due, now
    triggers,       \* triggers[s]: the now of the cycles that made a chain for s
    issued          \* issued[s]: the dates when they made it

vars == <<schedules, registered, clock, cycle, triggers, issued>>

ScheduleDef == [interval : Intervals, next : Nat, last : Nat \cup {Never}]

ASSUME SchedulesAssumption ==
    /\ Intervals \subseteq Nat \ {0}
    /\ MaxDate \in Nat /\ MaxTime \in Nat /\ MaxTime <= MaxDate /\ MaxTriggers \in Nat
    /\ Never \notin Nat \cup ScheduleDef \cup ScheduleIds

\* A schedule always has a next date, and the cycle and its chains are dated.
TypeOK ==
    /\ schedules \in [ScheduleIds -> ScheduleDef \cup {Never}]
    /\ registered \in SUBSET ScheduleIds
    /\ clock \in 0 .. MaxTime
    /\ cycle \in [current : ScheduleIds \cup {Never}, due : SUBSET ScheduleIds,
                  now : 0 .. MaxTime]
    /\ triggers \in [ScheduleIds -> Seq(0 .. MaxTime)]
    /\ issued \in [ScheduleIds -> Seq(0 .. MaxTime)]

Asleep == [current |-> Never, due |-> {}, now |-> 0]

Init ==
    /\ schedules = [s \in ScheduleIds |-> Never]
    /\ registered = {}
    /\ clock = 0
    /\ cycle = Asleep
    /\ triggers = [s \in ScheduleIds |-> <<>>]
    /\ issued = [s \in ScheduleIds |-> <<>>]

-----------------------------------------------------------------------------

\* POST /schedules
CreateSchedule(s, interval, next) ==
    /\ schedules[s] = Never
    /\ schedules' = [schedules EXCEPT ![s] = [interval |-> interval, next |-> next, last |-> Never]]
    /\ registered' = registered \cup {s}
    /\ UNCHANGED <<clock, cycle, triggers, issued>>

\* DELETE /schedules/{s}
DeleteSchedule(s) ==
    /\ s \in registered
    /\ registered' = registered \ {s}
    /\ UNCHANGED <<schedules, clock, cycle, triggers, issued>>

\* A day passes.
Tick ==
    /\ clock < MaxTime
    /\ clock' = clock + 1
    /\ UNCHANGED <<schedules, registered, cycle, triggers, issued>>

\* _trigger for some schedule of due, up to its suspension in the dispatch; the
\* cycle is over when none is left.  The order of due is left open.
TriggerNext(due, now) ==
    \/ due = {} /\ cycle' = Asleep /\ UNCHANGED <<triggers, issued>>
    \/ \E s \in due :
          /\ cycle' = [current |-> s, due |-> due \ {s}, now |-> now]
          /\ triggers' = [triggers EXCEPT ![s] = Append(@, now)]
          /\ issued' = [issued EXCEPT ![s] = Append(@, clock)]

SomeTriggersLeft == \A s \in ScheduleIds : Len(triggers[s]) < MaxTriggers

\* (mutant) every registered schedule is taken for due.
RunCycleAll ==
    /\ cycle.current = Never /\ SomeTriggersLeft
    /\ TriggerNext(registered, clock)
    /\ UNCHANGED <<schedules, registered, clock>>

\* (mutant) a schedule is due only when its date has passed.
RunCycleLate ==
    /\ cycle.current = Never /\ SomeTriggersLeft
    /\ TriggerNext({s \in registered : schedules[s].next < clock}, clock)
    /\ UNCHANGED <<schedules, registered, clock>>

\* sleep() ends and run_cycle collects what is due.
RunCycle ==
    /\ cycle.current = Never /\ SomeTriggersLeft
    /\ TriggerNext({s \in registered : schedules[s].next <= clock}, clock)
    /\ UNCHANGED <<schedules, registered, clock>>

\* (mutant) the next date is the old one plus the interval.
TriggerReturnsCatchingUp ==
    /\ cycle.current # Never
    /\ schedules' = [schedules EXCEPT ![cycle.current].last = cycle.now,
                                      ![cycle.current].next = @ + schedules[cycle.current].interval]
    /\ TriggerNext(cycle.due, cycle.now)
    /\ UNCHANGED <<registered, clock>>

\* The dispatch returned: the schedule gets its dates, counted from the
\* beginning of the cycle, and the next one is triggered.  A date beyond
\* datetime.max raises after last_triggered_at was set: cycle_loop logs the
\* error and sleeps, the rest of due is dropped.
TriggerReturns ==
    /\ cycle.current # Never
    /\ LET s == cycle.current
           next == cycle.now + schedules[s].interval
       IN \/ /\ next <= MaxDate
             /\ schedules' = [schedules EXCEPT ![s].last = cycle.now, ![s].next = next]
             /\ TriggerNext(cycle.due, cycle.now)
          \/ /\ next > MaxDate
             /\ schedules' = [schedules EXCEPT ![s].last = cycle.now]
             /\ TriggerNext({}, cycle.now)
    /\ UNCHANGED <<registered, clock>>

-----------------------------------------------------------------------------

Next ==
    \/ \E s \in ScheduleIds, interval \in Intervals, next \in 0 .. MaxTime :
          CreateSchedule(s, interval, next)
    \/ \E s \in ScheduleIds : DeleteSchedule(s)
    \/ Tick
    \/ RunCycle
    \/ TriggerReturns

\* sleep() ends and dispatch() returns (Delivery).  Neither the
\* clock nor a client is owed.
Fairness == WF_vars(RunCycle) /\ WF_vars(TriggerReturns)

Spec == Init /\ [][Next]_vars /\ Fairness

-----------------------------------------------------------------------------

\* The date s is next due at after it was triggered at t.
NextAfter(s, t) == t + schedules[s].interval

\* A schedule counts its interval from the beginning of the cycle that triggered it,
\* although its chain may be made days later, behind slow dispatches.  However late
\* the cycles and slow the dispatches are, a cycle makes at most one chain for a
\* schedule, none before the chains of earlier cycles were made, and none within an
\* interval of the beginning of an earlier cycle that made one, unless the next date
\* would be beyond datetime.max.
TriggersSpaced ==
    \A s \in ScheduleIds : \A i, j \in DOMAIN triggers[s] : i < j =>
       /\ issued[s][i] <= triggers[s][j]
       /\ NextAfter(s, triggers[s][i]) <= MaxDate =>
             issued[s][j] >= NextAfter(s, triggers[s][i])

\* The dates of a schedule tell what was done for it, except while it is being
\* triggered: last is the now of the cycle of its last chain, next an interval later.
DatesHonest ==
    \A s \in ScheduleIds \ {cycle.current} : schedules[s] # Never =>
       /\ schedules[s].last = Never <=> triggers[s] = <<>>
       /\ triggers[s] # <<>> =>
             /\ schedules[s].last = triggers[s][Len(triggers[s])]
             /\ NextAfter(s, schedules[s].last) <= MaxDate =>
                   schedules[s].next = NextAfter(s, schedules[s].last)

\* What the cycle holds was due when it began and is still to be served, although
\* requests were handled since.
DueStaysDue ==
    \A s \in cycle.due :
       schedules[s] # Never /\ s # cycle.current /\ schedules[s].next <= cycle.now

\* A schedule that is due is triggered or deleted, unless there is one whose next
\* date is beyond datetime.max: its exception may drop the others in every cycle.
DueTriggered ==
    \A s \in ScheduleIds :
       (s \in registered /\ schedules[s].next <= clock) ~>
          \/ s \notin registered \/ schedules[s].next > clock
          \/ \E u \in ScheduleIds : schedules[u] # Never /\ NextAfter(u, clock) > MaxDate

=============================================================================

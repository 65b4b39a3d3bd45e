------------------------------- MODULE Chains -------------------------------
(***************************************************************************)
(* wo-scheduler, the preventive maintenance of the microservice build.     *)
(* Its schedules are those of Schedules, but a chain is four HTTP requests *)
(* to other services: an issue, a ticket, an estimate, and its approval.   *)
(* Each of them may fail, or be served and its answer be lost, after the   *)
(* ones before it have left their records.  The dates of the schedule are  *)
(* set when the approval has been answered.                                *)
(*                                                                         *)
(* triggers[s] and issued[s] are here of the approvals that were served    *)
(* for s, which are what work orders are made of, see Assignments.         *)
(***************************************************************************)
EXTENDS Schedules

CONSTANT MaxFailures    \* bound on the requests that fail

ASSUME ChainsAssumption == MaxFailures \in Nat

VARIABLES
    step,       \* the request the cycle is suspended in
    made,       \* made[s][n]: the records request n has left for s
    lost,       \* the approvals, by schedule and number, without an answer
    failures    \* the requests that have failed so far

chainVars == <<step, made, lost, failures>>
serviceVars == <<vars, chainVars>>

Requests == 1 .. 4      \* POST /issues, /tickets, /estimates, PATCH .../approve
Approve == 4

\* The service's variables keep their types, those of Schedules included.
ChainTypeOK ==
    /\ TypeOK
    /\ step \in Requests
    /\ made \in [ScheduleIds -> [Requests -> Nat]]
    /\ lost \in SUBSET (ScheduleIds \X (Nat \ {0}))
    /\ failures \in 0 .. MaxFailures

ChainInit ==
    /\ Init
    /\ step = 1
    /\ made = [s \in ScheduleIds |-> [n \in Requests |-> 0]]
    /\ lost = {}
    /\ failures = 0

-----------------------------------------------------------------------------

\* The schedules' routes, and time.
Elsewhere ==
    /\ \/ \E s \in ScheduleIds, interval \in Intervals, next \in 0 .. MaxTime :
             CreateSchedule(s, interval, next)
       \/ \E s \in ScheduleIds : DeleteSchedule(s)
       \/ Tick
    /\ UNCHANGED chainVars

\* The first request for some schedule of due, if there is one.
BeginNext(due, now) ==
    /\ \/ due = {} /\ cycle' = Asleep
       \/ \E s \in due : cycle' = [current |-> s, due |-> due \ {s}, now |-> now]
    /\ step' = 1

\* (mutant) the loop ends with the first request that fails.
BeginCycleUnprotected ==
    /\ cycle.current = Never /\ SomeTriggersLeft
    /\ failures = 0
    /\ BeginNext({s \in registered : schedules[s].next <= clock}, clock)
    /\ UNCHANGED <<schedules, registered, clock, triggers, issued, made, lost, failures>>

\* _cycle_loop calls run_cycle, which collects what is due.
BeginCycle ==
    /\ cycle.current = Never /\ SomeTriggersLeft
    /\ BeginNext({s \in registered : schedules[s].next <= clock}, clock)
    /\ UNCHANGED <<schedules, registered, clock, triggers, issued, made, lost, failures>>

\* The record of the request at hand is stored.  What it refers to is there: the
\* requests before it have been answered.
Store == made' = [made EXCEPT ![cycle.current][step] = @ + 1]

ServeIssue == step = 1 /\ Store /\ UNCHANGED <<triggers, issued>>
ServeTicket == step = 2 /\ Store /\ UNCHANGED <<triggers, issued>>
ServeEstimate == step = 3 /\ Store /\ UNCHANGED <<triggers, issued>>

\* The estimate is approved, and dated.
ServeApproval ==
    /\ step = Approve /\ Store
    /\ triggers' = [triggers EXCEPT ![cycle.current] = Append(@, cycle.now)]
    /\ issued' = [issued EXCEPT ![cycle.current] = Append(@, clock)]

Serve == ServeIssue \/ ServeTicket \/ ServeEstimate \/ ServeApproval

\* (mutant) the chain goes on with the next request of the same kind.
RequestAnsweredTwice ==
    /\ cycle.current # Never /\ step < Approve
    /\ Serve
    /\ step' \in {step, step + 1}
    /\ UNCHANGED <<schedules, registered, clock, cycle, lost, failures>>

\* One of the first three is answered with 201.
RequestAnswered ==
    /\ cycle.current # Never /\ step < Approve
    /\ Serve
    /\ step' = step + 1
    /\ UNCHANGED <<schedules, registered, clock, cycle, lost, failures>>

\* (mutant) the next date is the old one plus the interval.
ApprovalAnsweredCatchingUp ==
    /\ cycle.current # Never /\ step = Approve
    /\ Serve
    /\ schedules' = [schedules EXCEPT ![cycle.current].last = cycle.now,
                                      ![cycle.current].next = @ + schedules[cycle.current].interval]
    /\ BeginNext(cycle.due, cycle.now)
    /\ UNCHANGED <<registered, clock, lost, failures>>

\* The approval is answered with 200: the dates are set.  A date beyond
\* datetime.max raises after last_triggered_at was set.
ApprovalAnswered ==
    /\ cycle.current # Never /\ step = Approve
    /\ Serve
    /\ LET s == cycle.current
           next == cycle.now + schedules[s].interval
       IN \/ /\ next <= MaxDate
             /\ schedules' = [schedules EXCEPT ![s].last = cycle.now, ![s].next = next]
             /\ BeginNext(cycle.due, cycle.now)
          \/ /\ next > MaxDate
             /\ schedules' = [schedules EXCEPT ![s].last = cycle.now]
             /\ BeginNext({}, cycle.now)
    /\ UNCHANGED <<registered, clock, lost, failures>>

\* (mutant) the dates are set whatever comes of the approval.
RequestFailsDated(served, raised) ==
    /\ cycle.current # Never
    /\ failures < MaxFailures /\ failures' = failures + 1
    /\ \/ served /\ Serve
       \/ ~served /\ UNCHANGED <<made, triggers, issued>>
    /\ schedules' = [schedules EXCEPT ![cycle.current].last = cycle.now]
    /\ lost' = IF served /\ step = Approve
               THEN lost \cup {<<cycle.current, Len(triggers[cycle.current]) + 1>>} ELSE lost
    /\ BeginNext(IF raised THEN {} ELSE cycle.due, cycle.now)
    /\ UNCHANGED <<registered, clock>>

\* The request fails, served or not.  Another status ends this chain, also the 500 of
\* a service whose own publish raised after it had stored the record; a time-out or a
\* broken connection raises, which ends the cycle.  The dates stay.
RequestFails(served, raised) ==
    /\ cycle.current # Never
    /\ failures < MaxFailures /\ failures' = failures + 1
    /\ \/ served /\ Serve
       \/ ~served /\ UNCHANGED <<made, triggers, issued>>
    /\ lost' = IF served /\ step = Approve
               THEN lost \cup {<<cycle.current, Len(triggers[cycle.current]) + 1>>} ELSE lost
    /\ BeginNext(IF raised THEN {} ELSE cycle.due, cycle.now)
    /\ UNCHANGED <<schedules, registered, clock>>

-----------------------------------------------------------------------------

RequestEnds ==
    \/ RequestAnswered
    \/ ApprovalAnswered
    \/ \E served, raised \in BOOLEAN : RequestFails(served, raised)

ChainNext == Elsewhere \/ BeginCycle \/ RequestEnds

\* The sleep ends, and httpx gives up on a request after ten seconds.
ChainFairness == WF_serviceVars(BeginCycle) /\ WF_serviceVars(RequestEnds)

ChainSpec == ChainInit /\ [][ChainNext]_serviceVars /\ ChainFairness

-----------------------------------------------------------------------------

\* As TriggersSpaced for the approvals, except where the answer to the earlier one was
\* lost: then the schedule stays due and the whole chain, the work order included, is
\* made again.  The cycles follow each other all the same.
ApprovalsSpaced ==
    \A s \in ScheduleIds : \A i, j \in DOMAIN triggers[s] : i < j =>
       /\ issued[s][i] <= triggers[s][j]
       /\ <<s, i>> \notin lost /\ NextAfter(s, triggers[s][i]) <= MaxDate =>
             issued[s][j] >= NextAfter(s, triggers[s][i])

\* The dates of a schedule tell of its last approval that was answered, though
\* others may have been served since.
Answered(s) == {i \in DOMAIN triggers[s] : <<s, i>> \notin lost}

AnsweredDates ==
    \A s \in ScheduleIds : schedules[s] # Never =>
       /\ schedules[s].last = Never <=> Answered(s) = {}
       /\ \A i \in Answered(s) : (\A j \in Answered(s) : j <= i) =>
             /\ schedules[s].last = triggers[s][i]
             /\ NextAfter(s, schedules[s].last) <= MaxDate =>
                   schedules[s].next = NextAfter(s, schedules[s].last)

\* A chain that fails half-way leaves records without an approval, but never more
\* than one of a kind for each failed request: what was begun is never tried again
\* behind the back of a chain that goes on.
Unfinished(s) == IF cycle.current = s /\ step > 1 THEN 1 ELSE 0

OrphansAccounted ==
    /\ \A s \in ScheduleIds : \A n \in 1 .. 3 : made[s][n] >= made[s][n + 1]
    /\ \A s \in ScheduleIds : made[s][1] - made[s][Approve] <= failures + Unfinished(s)

=============================================================================

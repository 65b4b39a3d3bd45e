------------------------- MODULE Observations_proofs -------------------------
EXTENDS Observations, FiniteSetTheorems, TLAPS

(***************************************************************************)
(* EscalatedAtMostOnce rests on the way a report goes: it is collected,    *)
(* its message obs.report.created waits, it is pending, a scan takes it,   *)
(* and it is escalated; no report is ever at an earlier place again.       *)
(***************************************************************************)
Scanned(r) == r = scan.current \/ r \in scan.rest

OnItsWay ==
    /\ scan.current \notin scan.rest
    /\ scan.current = Absent => scan.rest = {}
    /\ \A m, n \in DOMAIN queues["created"] : queues["created"][m] = queues["created"][n] => m = n
    /\ \A r \in ReportIds :
          /\ r \notin collected => ~Waiting("created", r)
          /\ r \notin collected \/ Waiting("created", r) =>
                pending[r] = "no" /\ escalations[r] = 0 /\ ~Scanned(r)
          /\ Scanned(r) \/ pending[r] # "no" => escalations[r] = 0

\* What NoReportDropped rests on: nobody is told of an evaluation there has not been.
Accounted ==
    \A n \in DOMAIN queues["evaluated"] : evaluations[queues["evaluated"][n]] > 0

IInv ==
    /\ TypeOK
    /\ OnItsWay
    /\ EscalatedAtMostOnce
    /\ Accounted
    /\ NoReportDropped

-----------------------------------------------------------------------------
\* The elements of a sequence when one is added at the end, or the first taken off.
LEMMA AppendElements ==
    ASSUME NEW S, NEW q \in Seq(S), NEW x \in S
    PROVE  /\ DOMAIN q = 1 .. Len(q) /\ Len(q) \in Nat
           /\ DOMAIN Append(q, x) = 1 .. Len(q) + 1
           /\ Append(q, x)[Len(q) + 1] = x
           /\ \A n \in 1 .. Len(q) : Append(q, x)[n] = q[n]
  OBVIOUS

LEMMA TailElements ==
    ASSUME NEW S, NEW q \in Seq(S), q # <<>>
    PROVE  /\ DOMAIN q = 1 .. Len(q) /\ Len(q) \in Nat \ {0}
           /\ Head(q) = q[1]
           /\ DOMAIN Tail(q) = 1 .. Len(q) - 1
           /\ \A n \in 1 .. Len(q) - 1 : n + 1 \in DOMAIN q /\ Tail(q)[n] = q[n + 1]
  OBVIOUS

\* The scan goes on with a report of todo.
LEMMA PublishNextEffect ==
    ASSUME NEW todo \in SUBSET ReportIds, PublishNext(todo)
    PROVE  /\ \A r \in ReportIds : Scanned(r)' => r \in todo
           /\ scan'.current \notin scan'.rest
           /\ scan'.current = Absent => scan'.rest = {}
<1>0. Absent \notin ReportIds
  BY ObservationsAssumption
<1>1. CASE scan' = Asleep
  BY <1>0, <1>1 DEF Asleep, Scanned
<1>2. CASE \E r \in todo : scan' = [current |-> r, rest |-> todo \ {r}]
  <2>1. PICK r \in todo : scan' = [current |-> r, rest |-> todo \ {r}]
    BY <1>2
  <2>2. scan'.current = r /\ scan'.rest = todo \ {r}
    BY <2>1
  <2> QED
    BY <1>0, <2>2 DEF Scanned
<1> QED
  BY <1>1, <1>2 DEF PublishNext

\* What sending and receiving do to the queues.
Messages(s) == IF s = "events" THEN EventMessage ELSE ReportIds

LEMMA QueueTypes ==
    TypeOK => /\ DOMAIN queues = Subscriptions
              /\ \A s \in Subscriptions : queues[s] \in Seq(Messages(s))
  BY DEF TypeOK, Messages, Subscriptions

LEMMA PublishEffect ==
    ASSUME TypeOK, NEW ss \in SUBSET Subscriptions, NEW m, \A s \in ss : m \in Messages(s),
           Publish(m, ss)
    PROVE  /\ DOMAIN queues' = Subscriptions
           /\ \A s \in Subscriptions : queues'[s] \in Seq(Messages(s))
           /\ \A s \in Subscriptions : queues'[s] =
                 IF s \in ss /\ up[Owner(s)] THEN Append(queues[s], m) ELSE queues[s]
<1>1. \A s \in Subscriptions : queues'[s] =
         IF s \in ss /\ up[Owner(s)] THEN Append(queues[s], m) ELSE queues[s]
  BY DEF Publish
<1>2. DOMAIN queues' = Subscriptions
  BY DEF Publish
<1>3. ASSUME NEW s \in Subscriptions PROVE queues'[s] \in Seq(Messages(s))
  <2>1. queues[s] \in Seq(Messages(s))
    BY QueueTypes
  <2>2. CASE s \in ss /\ up[Owner(s)]
    <3>1. m \in Messages(s) /\ queues'[s] = Append(queues[s], m)
      BY <1>1, <2>2
    <3> QED
      BY <2>1, <3>1
  <2>3. CASE ~(s \in ss /\ up[Owner(s)])
    BY <1>1, <2>1, <2>3
  <2> QED
    BY <2>2, <2>3
<1> QED
  BY <1>1, <1>2, <1>3

LEMMA ReceiveEffect ==
    ASSUME TypeOK, NEW s \in Subscriptions, NEW m, Receive(s, m)
    PROVE  /\ DOMAIN queues' = Subscriptions
           /\ \A q \in Subscriptions : queues'[q] \in Seq(Messages(q))
           /\ \A q \in Subscriptions \ {s} : queues'[q] = queues[q]
           /\ queues[s] # <<>> /\ queues[s] \in Seq(Messages(s))
           /\ m = Head(queues[s]) /\ queues'[s] = Tail(queues[s])
<1>1. /\ DOMAIN queues = Subscriptions
      /\ \A q \in Subscriptions : queues[q] \in Seq(Messages(q))
  BY QueueTypes
<1>2. /\ queues[s] # <<>> /\ m = Head(queues[s])
      /\ queues' = [queues EXCEPT ![s] = Tail(queues[s])]
  BY DEF Receive
<1>3. Tail(queues[s]) \in Seq(Messages(s))
  BY <1>1, <1>2
<1> QED
  BY <1>1, <1>2, <1>3

LEMMA QueuesTyped ==
    ASSUME DOMAIN queues' = Subscriptions,
           \A s \in Subscriptions : queues'[s] \in Seq(Messages(s))
    PROVE  /\ DOMAIN queues' = Subscriptions
           /\ queues'["events"] \in Seq(EventMessage)
           /\ \A s \in Subscriptions \ {"events"} : queues'[s] \in Seq(ReportIds)
<1>1. "events" \in Subscriptions /\ Messages("events") = EventMessage
      /\ \A s \in Subscriptions \ {"events"} : Messages(s) = ReportIds
  BY DEF Messages, Subscriptions
<1> QED
  BY <1>1

\* Next, one disjunct for each operation.
LEMMA NextCases ==
    ASSUME [Next]_vars
    PROVE  \/ \E r \in ReportIds : IngestReport(r)
           \/ \E r \in ReportIds : Evaluate(r)
           \/ \E e \in EventIds, active \in BOOLEAN : IngestIoTEvent(e, active)
           \/ \E e \in EventIds, active \in BOOLEAN, i \in IssueIds : OnIoTEvent(e, active, i)
           \/ \E r \in ReportIds : OnReport(r)
           \/ \E r \in ReportIds : OnReportEvaluated(r)
           \/ \E r \in ReportIds : OnReportEvaluatedForIssues(r)
           \/ \E r \in ReportIds : BecomeOverdue(r)
           \/ ScanBegins \/ EscalationPublished \/ PublishingFails
           \/ \E i \in IssueIds, o \in collected \cup {Absent} : CreateIssue(i, o)
           \/ \E i \in IssueIds, action \in {"accept", "reject"} : ReviewIssue(i, action)
           \/ \E i \in IssueIds : ResolveIssue(i)
           \/ \E p \in Processes : Stops(p)
           \/ \E p \in Processes : Starts(p)
           \/ UNCHANGED vars
<1>1. ClientIssueIds \subseteq IssueIds
  BY ObservationsAssumption
<1> QED
  BY <1>1 DEF Next, HandleEvent

LEMMA WithIssueTyped ==
    ASSUME TypeOK, NEW i \in IssueIds, NEW o \in ReportIds \cup EventIds \cup {Absent},
           NEW made \in {"client", "event"}
    PROVE  WithIssue(i, o, made) \in [IssueIds -> Issue \cup {Absent}]
<1>1. [origin |-> o, status |-> "Open", made |-> made] \in Issue
  BY DEF Issue
<1> QED
  BY <1>1 DEF WithIssue, TypeOK
-----------------------------------------------------------------------------
LEMMA TypeStep == TypeOK /\ [Next]_vars => TypeOK'
<1> SUFFICES ASSUME TypeOK, [Next]_vars PROVE TypeOK'
  OBVIOUS
<1> USE DEF analyzerVars, faultVars
<1> DEFINE Queues == /\ DOMAIN queues = Subscriptions
                     /\ queues["events"] \in Seq(EventMessage)
                     /\ \A s \in Subscriptions \ {"events"} : queues[s] \in Seq(ReportIds)
           Rest == /\ collected \in SUBSET (ReportIds \cup EventIds)
                   /\ evaluations \in [ReportIds -> Nat]
                   /\ pending \in [ReportIds -> {"no", "fresh", "overdue"}]
                   /\ scan \in [current : ReportIds \cup {Absent}, rest : SUBSET ReportIds]
                   /\ escalations \in [ReportIds -> Nat]
                   /\ issues \in [IssueIds -> Issue \cup {Absent}]
                   /\ up \in [Processes -> BOOLEAN]
                   /\ forgotten \in SUBSET IssueIds
                   /\ faults \in Nat /\ lost \in SUBSET ReportIds
<1>0. Queues /\ Rest
  BY DEF TypeOK
<1>1. ASSUME NEW s \in Subscriptions, NEW m, Receive(s, m) PROVE Queues'
  BY <1>1, ReceiveEffect, QueuesTyped
<1>2. ASSUME NEW ss \in SUBSET Subscriptions, NEW m, \A s \in ss : m \in Messages(s), Publish(m, ss)
      PROVE  Queues'
  BY <1>2, PublishEffect, QueuesTyped
<1>3. ASSUME UNCHANGED queues PROVE Queues'
  BY <1>0, <1>3
<1> HIDE DEF Queues
<1>4. /\ {"created"} \in SUBSET Subscriptions /\ {"events"} \in SUBSET Subscriptions
      /\ {"evaluated", "evaluated for issues"} \in SUBSET Subscriptions
      /\ \A r \in ReportIds : \A s \in Subscriptions \ {"events"} : r \in Messages(s)
      /\ \A m \in EventMessage : m \in Messages("events")
      /\ "created" \in Subscriptions /\ "evaluated" \in Subscriptions
      /\ "events" \in Subscriptions /\ "evaluated for issues" \in Subscriptions
  BY DEF Subscriptions, Messages
<1>5. ASSUME NEW r \in ReportIds, IngestReport(r) PROVE TypeOK'
  <2>1. Queues'
    <3>1. /\ Publish(r, {"created"}) \/ UNCHANGED queues
          /\ \A s \in {"created"} : r \in Messages(s)
      BY <1>4, <1>5 DEF IngestReport
    <3> QED
      BY <1>2, <1>3, <1>4, <3>1
  <2>2. faults' \in Nat /\ lost' \in SUBSET ReportIds
    BY <1>0, <1>5 DEF IngestReport, Fault
  <2> QED
    BY <1>0, <1>5, <2>1, <2>2 DEF IngestReport, TypeOK, Queues
<1>6. ASSUME NEW r \in ReportIds, Evaluate(r) PROVE TypeOK'
  <2>1. Queues'
    <3>1. /\ Publish(r, {"evaluated", "evaluated for issues"})
          /\ \A s \in {"evaluated", "evaluated for issues"} : r \in Messages(s)
      BY <1>4, <1>6 DEF Evaluate
    <3> QED
      BY <1>2, <1>4, <3>1
  <2>2. evaluations' \in [ReportIds -> Nat]
    <3>1. /\ evaluations \in [ReportIds -> Nat]
          /\ evaluations' = [evaluations EXCEPT ![r] = evaluations[r] + 1]
      BY <1>0, <1>6 DEF Evaluate
    <3> HIDE <1>0
    <3>2. evaluations[r] + 1 \in Nat
      BY <3>1
    <3> QED
      BY <3>1, <3>2
  <2> QED
    BY <1>0, <1>6, <2>1, <2>2 DEF Evaluate, TypeOK, Queues
<1>7. ASSUME NEW e \in EventIds, NEW active \in BOOLEAN, IngestIoTEvent(e, active) PROVE TypeOK'
  <2>1. Queues'
    <3>1. [event |-> e, active |-> active] \in Messages("events")
      BY <1>4 DEF EventMessage
    <3>2. Publish([event |-> e, active |-> active], {"events"}) \/ UNCHANGED queues
      BY <1>7 DEF IngestIoTEvent
    <3> QED
      BY <1>2, <1>3, <1>4, <3>1, <3>2
  <2>2. faults' \in Nat
    BY <1>0, <1>7 DEF IngestIoTEvent, Fault
  <2> QED
    BY <1>0, <1>7, <2>1, <2>2 DEF IngestIoTEvent, TypeOK, Queues
<1>8. ASSUME NEW e \in EventIds, NEW active \in BOOLEAN, NEW i \in IssueIds, OnIoTEvent(e, active, i)
      PROVE TypeOK'
  <2>1. Queues'
    BY <1>1, <1>4, <1>8 DEF OnIoTEvent
  <2>2. issues' \in [IssueIds -> Issue \cup {Absent}]
    <3>1. WithIssue(i, e, "event") \in [IssueIds -> Issue \cup {Absent}]
      BY WithIssueTyped
    <3> QED
      BY <1>0, <1>8, <3>1 DEF OnIoTEvent
  <2>3. faults' \in Nat
    BY <1>0, <1>8 DEF OnIoTEvent, Fault
  <2> QED
    BY <1>0, <1>8, <2>1, <2>2, <2>3 DEF OnIoTEvent, TypeOK, Queues
<1>9. ASSUME NEW r \in ReportIds, OnReport(r) PROVE TypeOK'
  BY <1>0, <1>1, <1>4, <1>9 DEF OnReport, TypeOK, Queues
<1>10. ASSUME NEW r \in ReportIds, OnReportEvaluated(r) PROVE TypeOK'
  BY <1>0, <1>1, <1>4, <1>10 DEF OnReportEvaluated, TypeOK, Queues
<1>11. ASSUME NEW r \in ReportIds, OnReportEvaluatedForIssues(r) PROVE TypeOK'
  <2>1. issues' \in [IssueIds -> Issue \cup {Absent}]
    <3>1. ASSUME NEW i \in IssueIds, issues[i] # Absent
          PROVE  [issues[i] EXCEPT !.status = "PendingReview"] \in Issue
      BY <1>0, <3>1 DEF Issue
    <3> QED
      BY <1>0, <1>11, <3>1 DEF OnReportEvaluatedForIssues
  <2>2. Queues'
    BY <1>1, <1>4, <1>11 DEF OnReportEvaluatedForIssues
  <2> QED
    BY <1>0, <1>11, <2>1, <2>2 DEF OnReportEvaluatedForIssues, TypeOK, Queues
<1>12. ASSUME NEW r \in ReportIds, BecomeOverdue(r) PROVE TypeOK'
  BY <1>0, <1>3, <1>12 DEF BecomeOverdue, TypeOK, Queues
<1>13. ASSUME NEW todo \in SUBSET ReportIds, PublishNext(todo)
       PROVE  scan' \in [current : ReportIds \cup {Absent}, rest : SUBSET ReportIds]
  BY <1>13 DEF PublishNext, Asleep
<1>14. CASE ScanBegins
  <2> DEFINE todo == {r \in ReportIds : pending[r] = "overdue"}
  <2>1. todo \in SUBSET ReportIds /\ PublishNext(todo)
    BY <1>14 DEF ScanBegins
  <2> HIDE DEF todo
  <2> QED
    BY <1>0, <1>3, <1>13, <1>14, <2>1 DEF ScanBegins, TypeOK, Queues
<1>15. CASE EscalationPublished
  <2>1. /\ scan.current \in ReportIds /\ scan.rest \in SUBSET ReportIds /\ PublishNext(scan.rest)
    BY <1>0, <1>15 DEF EscalationPublished
  <2>2. scan' \in [current : ReportIds \cup {Absent}, rest : SUBSET ReportIds]
    BY <1>13, <2>1
  <2> QED
    BY <1>0, <1>3, <1>15, <2>1, <2>2 DEF EscalationPublished, TypeOK, Queues
<1>16. CASE PublishingFails
  BY <1>0, <1>3, <1>16 DEF PublishingFails, Fault, Asleep, TypeOK, Queues
<1>17. ASSUME NEW i \in IssueIds, NEW o \in collected \cup {Absent}, CreateIssue(i, o) PROVE TypeOK'
  <2>1. issues' \in [IssueIds -> Issue \cup {Absent}]
    BY <1>0, <1>17, WithIssueTyped DEF CreateIssue
  <2> QED
    BY <1>0, <1>3, <1>17, <2>1 DEF CreateIssue, TypeOK, Queues
<1>18. ASSUME NEW i \in IssueIds, ResolveIssue(i) \/ \E action \in {"accept", "reject"} : ReviewIssue(i, action)
       PROVE  TypeOK'
  <2>1. issues[i] \in Issue
    BY <1>0, <1>18 DEF ResolveIssue, ReviewIssue, Stored
  <2>2. issues' \in [IssueIds -> Issue \cup {Absent}]
    BY <1>0, <1>18, <2>1 DEF ResolveIssue, ReviewIssue, Issue
  <2> QED
    BY <1>0, <1>3, <1>18, <2>2 DEF ResolveIssue, ReviewIssue, TypeOK, Queues
<1>19. ASSUME NEW p \in Processes, Stops(p) PROVE TypeOK'
  <2>1. Queues'
    <3>1. /\ queues' = [s \in Subscriptions |-> IF Owner(s) = p THEN <<>> ELSE queues[s]]
          /\ "events" \in Subscriptions
      BY <1>4, <1>19 DEF Stops
    <3> QED
      BY <1>0, <3>1 DEF Queues
  <2>2. /\ issues' \in [IssueIds -> Issue \cup {Absent}]
        /\ forgotten' \in SUBSET IssueIds
    BY <1>0, <1>19 DEF Stops, Stored
  <2>3. /\ pending' \in [ReportIds -> {"no", "fresh", "overdue"}]
        /\ scan' \in [current : ReportIds \cup {Absent}, rest : SUBSET ReportIds]
    BY <1>0, <1>19 DEF Stops, Asleep
  <2>4. faults' \in Nat /\ lost' \in SUBSET ReportIds
    BY <1>0, <1>19 DEF Stops, Fault
  <2>5. up' \in [Processes -> BOOLEAN]
    BY <1>0, <1>19 DEF Stops
  <2>6. UNCHANGED <<collected, evaluations, escalations>>
    BY <1>19 DEF Stops
  <2> QED
    BY <1>0, <2>1, <2>2, <2>3, <2>4, <2>5, <2>6 DEF TypeOK, Queues
<1>20. ASSUME NEW p \in Processes, Starts(p) PROVE TypeOK'
  <2>1. up' \in [Processes -> BOOLEAN]
    BY <1>0, <1>20 DEF Starts
  <2> QED
    BY <1>0, <1>3, <1>20, <2>1 DEF Starts, TypeOK, Queues
<1>21. CASE UNCHANGED vars
  BY <1>0, <1>3, <1>21 DEF vars, TypeOK, Queues
<1> QED
  BY <1>5, <1>6, <1>7, <1>8, <1>9, <1>10, <1>11, <1>12, <1>14, <1>15, <1>16, <1>17, <1>18, <1>19,
     <1>20, <1>21, NextCases
-----------------------------------------------------------------------------
LEMMA WayStep ==
    ASSUME TypeOK, OnItsWay, EscalatedAtMostOnce, [Next]_vars
    PROVE  OnItsWay' /\ EscalatedAtMostOnce'
<1> USE DEF analyzerVars, faultVars, EscalatedAtMostOnce
<1>0. /\ queues["created"] \in Seq(ReportIds)
      /\ \A s \in {"events", "created", "evaluated", "evaluated for issues"} : s \in Subscriptions
      /\ Absent \notin ReportIds /\ ReportIds \cap EventIds = {}
      /\ escalations \in [ReportIds -> Nat]
      /\ pending \in [ReportIds -> {"no", "fresh", "overdue"}]
      /\ scan.current \in ReportIds \cup {Absent} /\ scan.rest \in SUBSET ReportIds
  BY ObservationsAssumption DEF TypeOK, Subscriptions
<1>1. ASSUME queues'["created"] = queues["created"], UNCHANGED <<pending, scan, escalations>>,
             collected' \cap ReportIds = collected \cap ReportIds
      PROVE  OnItsWay' /\ EscalatedAtMostOnce'
  BY <1>1 DEF OnItsWay, Waiting, Scanned
<1>2. ASSUME NEW s \in Subscriptions, s # "created", NEW m, Receive(s, m)
      PROVE  queues'["created"] = queues["created"]
  BY <1>0, <1>2, ReceiveEffect
<1>3. ASSUME NEW ss, "created" \notin ss, NEW m, Publish(m, ss)
      PROVE  queues'["created"] = queues["created"]
  BY <1>0, <1>3 DEF Publish
<1>4. ASSUME NEW r \in ReportIds, IngestReport(r)
      PROVE  OnItsWay' /\ EscalatedAtMostOnce'
  <2>1. /\ queues'["created"] \in {queues["created"], Append(queues["created"], r)}
        /\ r \notin collected /\ collected' = collected \cup {r}
        /\ UNCHANGED <<pending, scan, escalations>>
    BY <1>0, <1>4 DEF IngestReport, Publish
  <2>2. /\ pending[r] = "no" /\ escalations[r] = 0 /\ ~Scanned(r) /\ ~Waiting("created", r)
    BY <2>1 DEF OnItsWay
  <2>3. CASE queues'["created"] = queues["created"]
    BY <2>1, <2>2, <2>3 DEF OnItsWay, Waiting, Scanned
  <2>4. CASE queues'["created"] = Append(queues["created"], r)
    <3>1. /\ DOMAIN queues'["created"] = 1 .. Len(queues["created"]) + 1
          /\ DOMAIN queues["created"] = 1 .. Len(queues["created"])
          /\ Len(queues["created"]) \in Nat
          /\ queues'["created"][Len(queues["created"]) + 1] = r
          /\ \A n \in 1 .. Len(queues["created"]) : queues'["created"][n] = queues["created"][n]
      <4>1. queues["created"] \in Seq(ReportIds)
        BY <1>0
      <4> HIDE <1>0
      <4>2. PICK q \in Seq(ReportIds) : queues["created"] = q
        BY <4>1
      <4>3. /\ DOMAIN q = 1 .. Len(q) /\ Len(q) \in Nat
            /\ DOMAIN Append(q, r) = 1 .. Len(q) + 1
            /\ Append(q, r)[Len(q) + 1] = r
            /\ \A n \in 1 .. Len(q) : Append(q, r)[n] = q[n]
        BY AppendElements
      <4> QED
        BY <2>4, <4>2, <4>3
    <3>2. \A q \in ReportIds \ {r} : Waiting("created", q)' <=> Waiting("created", q)
      BY <3>1 DEF Waiting
    <3>3. \A m, n \in DOMAIN queues'["created"] :
             queues'["created"][m] = queues'["created"][n] => m = n
      BY <2>2, <3>1 DEF OnItsWay, Waiting
    <3> QED
      BY <2>1, <2>2, <3>2, <3>3 DEF OnItsWay, Scanned
  <2> QED
    BY <2>1, <2>3, <2>4
<1>5. ASSUME NEW r \in ReportIds, Evaluate(r)
      PROVE  OnItsWay' /\ EscalatedAtMostOnce'
  BY <1>1, <1>3, <1>5 DEF Evaluate
<1>6. ASSUME NEW e \in EventIds, NEW active \in BOOLEAN, IngestIoTEvent(e, active)
      PROVE  OnItsWay' /\ EscalatedAtMostOnce'
  BY <1>0, <1>1, <1>3, <1>6 DEF IngestIoTEvent
<1>7. ASSUME NEW e \in EventIds, NEW active \in BOOLEAN, NEW i \in IssueIds, OnIoTEvent(e, active, i)
      PROVE  OnItsWay' /\ EscalatedAtMostOnce'
  BY <1>0, <1>1, <1>2, <1>7 DEF OnIoTEvent
<1>8. ASSUME NEW r \in ReportIds, OnReport(r)
      PROVE  OnItsWay' /\ EscalatedAtMostOnce'
  <2>1. /\ queues["created"] # <<>> /\ r = Head(queues["created"])
        /\ queues'["created"] = Tail(queues["created"])
        /\ pending' = [pending EXCEPT ![r] = "fresh"]
        /\ UNCHANGED <<collected, scan, escalations>>
    BY <1>0, <1>8, ReceiveEffect DEF OnReport
  <2>2. /\ DOMAIN queues["created"] = 1 .. Len(queues["created"])
        /\ Len(queues["created"]) \in Nat \ {0}
        /\ DOMAIN queues'["created"] = 1 .. Len(queues["created"]) - 1
        /\ r = queues["created"][1]
        /\ \A n \in DOMAIN queues'["created"] :
              n + 1 \in DOMAIN queues["created"] /\ queues'["created"][n] = queues["created"][n + 1]
    BY <1>0, <2>1, TailElements
  <2>3. \A m, n \in DOMAIN queues'["created"] :
           queues'["created"][m] = queues'["created"][n] => m = n
    <3> SUFFICES ASSUME NEW m \in DOMAIN queues'["created"], NEW n \in DOMAIN queues'["created"],
                        queues'["created"][m] = queues'["created"][n]
                 PROVE  m = n
      OBVIOUS
    <3>1. /\ m + 1 \in DOMAIN queues["created"] /\ n + 1 \in DOMAIN queues["created"]
          /\ queues["created"][m + 1] = queues["created"][n + 1]
      BY <2>2
    <3>2. m + 1 = n + 1
      BY <3>1 DEF OnItsWay
    <3> QED
      BY <2>2, <3>2
  <2>4. \A q \in ReportIds \ {r} : Waiting("created", q)' => Waiting("created", q)
    <3> SUFFICES ASSUME NEW q, NEW n \in DOMAIN queues'["created"], queues'["created"][n] = q
                 PROVE  \E m \in DOMAIN queues["created"] : queues["created"][m] = q
      BY DEF Waiting
    <3>1. n + 1 \in DOMAIN queues["created"] /\ queues["created"][n + 1] = q
      BY <2>2
    <3> QED
      BY <3>1
  <2>5. Waiting("created", r) /\ ~Waiting("created", r)'
    <3>1. Waiting("created", r)
      BY <2>2 DEF Waiting
    <3>2. ASSUME NEW n \in DOMAIN queues'["created"], queues'["created"][n] = r PROVE FALSE
      <4>1. /\ n + 1 \in DOMAIN queues["created"] /\ queues["created"][n + 1] = queues["created"][1]
            /\ 1 \in DOMAIN queues["created"]
        BY <2>2, <3>2
      <4>2. n + 1 = 1
        BY <4>1 DEF OnItsWay
      <4> QED
        BY <2>2, <4>2
    <3> QED
      BY <3>1, <3>2 DEF Waiting
  <2>6. r \in collected /\ escalations[r] = 0 /\ ~Scanned(r)
    BY <2>5 DEF OnItsWay
  <2> QED
    BY <1>0, <2>1, <2>3, <2>4, <2>5, <2>6 DEF OnItsWay, Scanned
<1>9. ASSUME NEW r \in ReportIds, OnReportEvaluated(r)
      PROVE  OnItsWay' /\ EscalatedAtMostOnce'
  <2>1. /\ queues'["created"] = queues["created"]
        /\ pending' = [pending EXCEPT ![r] = "no"] /\ UNCHANGED <<collected, scan, escalations>>
    BY <1>0, <1>2, <1>9 DEF OnReportEvaluated
  <2> QED
    BY <1>0, <2>1 DEF OnItsWay, Waiting, Scanned
<1>10. ASSUME NEW r \in ReportIds, OnReportEvaluatedForIssues(r)
       PROVE  OnItsWay' /\ EscalatedAtMostOnce'
  BY <1>0, <1>1, <1>2, <1>10 DEF OnReportEvaluatedForIssues
<1>11. ASSUME NEW r \in ReportIds, BecomeOverdue(r)
       PROVE  OnItsWay' /\ EscalatedAtMostOnce'
  <2>1. /\ pending[r] = "fresh" /\ pending' = [pending EXCEPT ![r] = "overdue"]
        /\ UNCHANGED <<queues, collected, scan, escalations>>
    BY <1>11 DEF BecomeOverdue
  <2> QED
    BY <1>0, <2>1 DEF OnItsWay, Waiting, Scanned
<1>12. CASE ScanBegins
  <2> DEFINE todo == {r \in ReportIds : pending[r] = "overdue"}
  <2>1. PublishNext(todo) /\ UNCHANGED <<queues, collected, pending, escalations>>
    BY <1>12 DEF ScanBegins
  <2>2. /\ \A r \in ReportIds : Scanned(r)' => pending[r] = "overdue"
        /\ scan'.current \notin scan'.rest
        /\ scan'.current = Absent => scan'.rest = {}
    BY <2>1, PublishNextEffect
  <2> HIDE DEF todo
  <2> QED
    BY <1>0, <2>1, <2>2 DEF OnItsWay, Waiting
<1>13. CASE EscalationPublished
  <2>1. /\ scan.current \in ReportIds
        /\ escalations' = [escalations EXCEPT ![scan.current] = @ + 1]
        /\ pending' = [pending EXCEPT ![scan.current] = "no"]
        /\ PublishNext(scan.rest) /\ UNCHANGED <<queues, collected>>
    BY <1>0, <1>13 DEF EscalationPublished
  <2>2. /\ \A r \in ReportIds : Scanned(r)' => r \in scan.rest
        /\ scan'.current \notin scan'.rest
        /\ scan'.current = Absent => scan'.rest = {}
    BY <1>0, <2>1, PublishNextEffect
  <2>3. /\ scan.current \notin scan.rest /\ escalations[scan.current] = 0
        /\ scan.current \in collected /\ ~Waiting("created", scan.current)
    BY <2>1 DEF OnItsWay, Scanned
  <2>4. /\ escalations'[scan.current] = 1 /\ pending'[scan.current] = "no"
        /\ \A r \in ReportIds \ {scan.current} :
              escalations'[r] = escalations[r] /\ pending'[r] = pending[r]
    <3>1. escalations' = [escalations EXCEPT ![scan.current] = escalations[scan.current] + 1]
      BY <2>1
    <3> QED
      <4>1. escalations \in [ReportIds -> Nat] /\ pending \in [ReportIds -> {"no", "fresh", "overdue"}]
        BY <1>0
      <4>2. escalations'[scan.current] = 1 /\ pending'[scan.current] = "no"
        BY <2>1, <2>3, <3>1, <4>1
      <4>3. ASSUME NEW r \in ReportIds \ {scan.current}
            PROVE  escalations'[r] = escalations[r] /\ pending'[r] = pending[r]
        BY <2>1, <3>1, <4>1
      <4> QED
        BY <4>2, <4>3
  <2>5. EscalatedAtMostOnce'
    BY <2>4
  <2>6. OnItsWay'
    BY <2>1, <2>2, <2>3, <2>4 DEF OnItsWay, Waiting, Scanned
  <2> QED
    BY <2>5, <2>6
<1>14. CASE PublishingFails
  <2>1. /\ scan' = Asleep /\ UNCHANGED <<queues, collected, pending, escalations>>
    BY <1>14 DEF PublishingFails
  <2> QED
    BY <1>0, <2>1 DEF OnItsWay, Waiting, Scanned, Asleep
<1>15. CASE \/ \E i \in IssueIds, o \in collected \cup {Absent} : CreateIssue(i, o)
            \/ \E i \in IssueIds, action \in {"accept", "reject"} : ReviewIssue(i, action)
            \/ \E i \in IssueIds : ResolveIssue(i)
            \/ \E p \in Processes : Starts(p)
            \/ UNCHANGED vars
  BY <1>1, <1>15 DEF CreateIssue, ReviewIssue, ResolveIssue, Starts, vars
<1>16. ASSUME NEW p \in Processes, Stops(p)
       PROVE  OnItsWay' /\ EscalatedAtMostOnce'
  <2>1. CASE p = "analyzer"
    <3>1. /\ queues'["created"] = <<>> /\ scan' = Asleep /\ UNCHANGED <<collected, escalations>>
          /\ \A r \in ReportIds : pending'[r] = "no"
      BY <1>0, <1>16, <2>1 DEF Stops, Owner
    <3>2. /\ DOMAIN queues'["created"] = {}
          /\ scan'.current = Absent /\ scan'.rest = {}
      BY <3>1 DEF Asleep
    <3>3. \A r \in ReportIds : ~Waiting("created", r)' /\ ~Scanned(r)'
      BY <1>0, <3>2 DEF Waiting, Scanned
    <3>4. \A r \in ReportIds : r \notin collected => escalations[r] = 0
      BY DEF OnItsWay
    <3> QED
      BY <1>0, <3>1, <3>2, <3>3, <3>4 DEF OnItsWay
  <2>2. CASE p = "issue-manager"
    <3>1. /\ queues'["created"] = queues["created"]
          /\ UNCHANGED <<collected, escalations, pending, scan>>
      BY <1>0, <1>16, <2>2 DEF Stops, Owner
    <3> QED
      BY <1>1, <3>1
  <2> QED
    BY <2>1, <2>2 DEF Processes
<1> QED
  BY <1>4, <1>5, <1>6, <1>7, <1>8, <1>9, <1>10, <1>11, <1>12, <1>13, <1>14, <1>15, <1>16, NextCases
-----------------------------------------------------------------------------
LEMMA AccountedStep ==
    ASSUME TypeOK, Accounted, [Next]_vars
    PROVE  Accounted'
<1> USE DEF analyzerVars, faultVars
<1>0. /\ queues["evaluated"] \in Seq(ReportIds)
      /\ \A s \in {"events", "created", "evaluated", "evaluated for issues"} : s \in Subscriptions
      /\ evaluations \in [ReportIds -> Nat]
  BY DEF TypeOK, Subscriptions
<1>1. ASSUME queues'["evaluated"] = queues["evaluated"], UNCHANGED evaluations
      PROVE  Accounted'
  BY <1>1 DEF Accounted
<1>2. ASSUME NEW s \in Subscriptions, s # "evaluated", NEW m, Receive(s, m)
      PROVE  queues'["evaluated"] = queues["evaluated"]
  BY <1>0, <1>2, ReceiveEffect
<1>3. ASSUME NEW ss, "evaluated" \notin ss, NEW m, Publish(m, ss)
      PROVE  queues'["evaluated"] = queues["evaluated"]
  BY <1>0, <1>3 DEF Publish
<1>4. ASSUME NEW r \in ReportIds, IngestReport(r) PROVE Accounted'
  BY <1>0, <1>1, <1>3, <1>4 DEF IngestReport
<1>5. ASSUME NEW r \in ReportIds, Evaluate(r) PROVE Accounted'
  <2>1. /\ queues'["evaluated"] \in {queues["evaluated"], Append(queues["evaluated"], r)}
        /\ evaluations' = [evaluations EXCEPT ![r] = evaluations[r] + 1]
    BY <1>0, <1>5 DEF Evaluate, Publish
  <2>2. evaluations'[r] > 0
    <3>1. evaluations[r] \in Nat /\ evaluations'[r] = evaluations[r] + 1
      BY <1>0, <2>1
    <3> QED
      BY <3>1
  <2>3. \A q \in ReportIds : evaluations[q] > 0 => evaluations'[q] > 0
    BY <1>0, <2>1, <2>2
  <2>4. PICK q \in Seq(ReportIds) : queues["evaluated"] = q
    BY <1>0
  <2>5. \A n \in DOMAIN q : q[n] \in ReportIds /\ evaluations[q[n]] > 0
    BY <2>4 DEF Accounted
  <2>6. /\ DOMAIN q = 1 .. Len(q) /\ Len(q) \in Nat
        /\ DOMAIN Append(q, r) = 1 .. Len(q) + 1
        /\ Append(q, r)[Len(q) + 1] = r
        /\ \A n \in 1 .. Len(q) : Append(q, r)[n] = q[n]
    BY AppendElements
  <2>7. \A n \in DOMAIN Append(q, r) : evaluations'[Append(q, r)[n]] > 0
    <3> SUFFICES ASSUME NEW n \in 1 .. Len(q) + 1 PROVE evaluations'[Append(q, r)[n]] > 0
      BY <2>6
    <3>1. n = Len(q) + 1 \/ n \in 1 .. Len(q)
      BY <2>6
    <3> QED
      BY <2>2, <2>3, <2>5, <2>6, <3>1
  <2>8. \A n \in DOMAIN q : evaluations'[q[n]] > 0
    BY <2>3, <2>5
  <2> QED
    BY <2>1, <2>4, <2>7, <2>8 DEF Accounted
<1>6. ASSUME NEW e \in EventIds, NEW active \in BOOLEAN, IngestIoTEvent(e, active) PROVE Accounted'
  BY <1>0, <1>1, <1>3, <1>6 DEF IngestIoTEvent
<1>7. ASSUME NEW e \in EventIds, NEW active \in BOOLEAN, NEW i \in IssueIds, OnIoTEvent(e, active, i)
      PROVE  Accounted'
  BY <1>0, <1>1, <1>2, <1>7 DEF OnIoTEvent
<1>8. ASSUME NEW r \in ReportIds, OnReport(r) PROVE Accounted'
  BY <1>0, <1>1, <1>2, <1>8 DEF OnReport
<1>9. ASSUME NEW r \in ReportIds, OnReportEvaluated(r) PROVE Accounted'
  <2>1. /\ queues["evaluated"] # <<>> /\ queues'["evaluated"] = Tail(queues["evaluated"])
        /\ UNCHANGED evaluations
    BY <1>0, <1>9, ReceiveEffect DEF OnReportEvaluated
  <2>2. PICK q \in Seq(ReportIds) : queues["evaluated"] = q
    BY <1>0
  <2>3. \A n \in DOMAIN q : evaluations[q[n]] > 0
    BY <2>2 DEF Accounted
  <2>4. /\ DOMAIN Tail(q) = 1 .. Len(q) - 1
        /\ \A n \in 1 .. Len(q) - 1 : n + 1 \in DOMAIN q /\ Tail(q)[n] = q[n + 1]
    BY <2>1, <2>2, TailElements
  <2>5. \A n \in DOMAIN Tail(q) : evaluations[Tail(q)[n]] > 0
    BY <2>3, <2>4
  <2> QED
    BY <2>1, <2>2, <2>5 DEF Accounted
<1>10. ASSUME NEW r \in ReportIds, OnReportEvaluatedForIssues(r) PROVE Accounted'
  BY <1>0, <1>1, <1>2, <1>10 DEF OnReportEvaluatedForIssues
<1>11. CASE \/ \E r \in ReportIds : BecomeOverdue(r)
            \/ ScanBegins \/ EscalationPublished \/ PublishingFails
            \/ \E i \in IssueIds, o \in collected \cup {Absent} : CreateIssue(i, o)
            \/ \E i \in IssueIds, action \in {"accept", "reject"} : ReviewIssue(i, action)
            \/ \E i \in IssueIds : ResolveIssue(i)
            \/ UNCHANGED vars
  BY <1>1, <1>11 DEF BecomeOverdue, ScanBegins, EscalationPublished, PublishingFails,
                     CreateIssue, ReviewIssue, ResolveIssue, vars
<1>12. ASSUME NEW p \in Processes, Stops(p) PROVE Accounted'
  <2>1. CASE p = "analyzer"
    <3>1. queues'["evaluated"] = <<>>
      BY <1>0, <1>12, <2>1 DEF Stops, Owner
    <3>2. DOMAIN queues'["evaluated"] = {}
      BY <3>1
    <3> QED
      BY <3>1, <3>2 DEF Accounted
  <2>2. CASE p = "issue-manager"
    <3>1. queues'["evaluated"] = queues["evaluated"] /\ UNCHANGED evaluations
      BY <1>0, <1>12, <2>2 DEF Stops, Owner
    <3> QED
      BY <1>1, <3>1
  <2> QED
    BY <2>1, <2>2 DEF Processes
<1>13. ASSUME NEW p \in Processes, Starts(p) PROVE Accounted'
  BY <1>1, <1>13 DEF Starts
<1> QED
  BY <1>4, <1>5, <1>6, <1>7, <1>8, <1>9, <1>10, <1>11, <1>12, <1>13, NextCases

LEMMA DroppedStep ==
    ASSUME TypeOK, OnItsWay, Accounted, NoReportDropped, [Next]_vars
    PROVE  NoReportDropped'
<1> USE DEF analyzerVars, faultVars
<1>0. /\ queues["created"] \in Seq(ReportIds) /\ queues["evaluated"] \in Seq(ReportIds)
      /\ \A s \in {"events", "created", "evaluated", "evaluated for issues"} : s \in Subscriptions
      /\ Absent \notin ReportIds /\ ReportIds \cap EventIds = {}
      /\ evaluations \in [ReportIds -> Nat] /\ lost \in SUBSET ReportIds
      /\ escalations \in [ReportIds -> Nat]
      /\ pending \in [ReportIds -> {"no", "fresh", "overdue"}]
      /\ scan.current \in ReportIds \cup {Absent}
  BY ObservationsAssumption DEF TypeOK, Subscriptions
<1>1. ASSUME queues'["created"] = queues["created"], UNCHANGED <<pending, escalations, evaluations, lost>>,
             collected' \cap ReportIds = collected \cap ReportIds
      PROVE  NoReportDropped'
  BY <1>1 DEF NoReportDropped, Waiting
<1>2. ASSUME NEW s \in Subscriptions, s # "created", NEW m, Receive(s, m)
      PROVE  queues'["created"] = queues["created"]
  BY <1>0, <1>2, ReceiveEffect
<1>3. ASSUME NEW ss, "created" \notin ss, NEW m, Publish(m, ss)
      PROVE  queues'["created"] = queues["created"]
  BY <1>0, <1>3 DEF Publish
<1>4. ASSUME NEW r \in ReportIds, IngestReport(r) PROVE NoReportDropped'
  <2>1. /\ collected' = collected \cup {r} /\ lost \subseteq lost'
        /\ UNCHANGED <<pending, escalations, evaluations>>
        /\ \/ queues'["created"] = queues["created"] /\ r \in lost'
           \/ queues'["created"] = Append(queues["created"], r)
    BY <1>0, <1>4 DEF IngestReport, Publish, Owner
  <2>2. CASE queues'["created"] = queues["created"] /\ r \in lost'
    BY <2>1, <2>2 DEF NoReportDropped, Waiting
  <2>3. CASE queues'["created"] = Append(queues["created"], r)
    <3>1. PICK q \in Seq(ReportIds) : queues["created"] = q
      BY <1>0
    <3>2. /\ DOMAIN q = 1 .. Len(q) /\ Len(q) \in Nat
          /\ DOMAIN Append(q, r) = 1 .. Len(q) + 1
          /\ Append(q, r)[Len(q) + 1] = r
          /\ \A n \in 1 .. Len(q) : Append(q, r)[n] = q[n]
      BY AppendElements
    <3>3. /\ \E n \in DOMAIN Append(q, r) : Append(q, r)[n] = r
          /\ \A x : (\E n \in DOMAIN q : q[n] = x) => (\E n \in DOMAIN Append(q, r) : Append(q, r)[n] = x)
      BY <3>2
    <3>4. /\ Waiting("created", r)'
          /\ \A x \in ReportIds : Waiting("created", x) => Waiting("created", x)'
      BY <2>1, <2>3, <3>1, <3>3 DEF Waiting
    <3> QED
      BY <2>1, <3>4 DEF NoReportDropped
  <2> QED
    BY <2>1, <2>2, <2>3
<1>5. ASSUME NEW r \in ReportIds, Evaluate(r) PROVE NoReportDropped'
  <2>1. /\ queues'["created"] = queues["created"]
        /\ evaluations' = [evaluations EXCEPT ![r] = evaluations[r] + 1]
        /\ UNCHANGED <<collected, pending, escalations, lost>>
    BY <1>3, <1>5 DEF Evaluate
  <2>2. \A q \in ReportIds : evaluations[q] > 0 => evaluations'[q] > 0
    <3>1. evaluations[r] \in Nat /\ evaluations'[r] = evaluations[r] + 1
      BY <1>0, <2>1
    <3>2. evaluations'[r] > 0
      BY <3>1
    <3> QED
      BY <1>0, <2>1, <3>2
  <2> QED
    BY <2>1, <2>2 DEF NoReportDropped, Waiting
<1>6. ASSUME NEW e \in EventIds, NEW active \in BOOLEAN, IngestIoTEvent(e, active) PROVE NoReportDropped'
  BY <1>0, <1>1, <1>3, <1>6 DEF IngestIoTEvent
<1>7. ASSUME NEW e \in EventIds, NEW active \in BOOLEAN, NEW i \in IssueIds, OnIoTEvent(e, active, i)
      PROVE  NoReportDropped'
  BY <1>0, <1>1, <1>2, <1>7 DEF OnIoTEvent
<1>8. ASSUME NEW r \in ReportIds, OnReport(r) PROVE NoReportDropped'
  <2>1. /\ queues["created"] # <<>> /\ r = Head(queues["created"])
        /\ queues'["created"] = Tail(queues["created"])
        /\ pending' = [pending EXCEPT ![r] = "fresh"]
        /\ UNCHANGED <<collected, escalations, evaluations, lost>>
    BY <1>0, <1>8, ReceiveEffect DEF OnReport
  <2>2. PICK q \in Seq(ReportIds) : queues["created"] = q
    BY <1>0
  <2>3. /\ DOMAIN q = 1 .. Len(q) /\ Len(q) \in Nat \ {0} /\ r = q[1]
        /\ DOMAIN Tail(q) = 1 .. Len(q) - 1
        /\ \A n \in 1 .. Len(q) - 1 : n + 1 \in DOMAIN q /\ Tail(q)[n] = q[n + 1]
    BY <2>1, <2>2, TailElements
  <2>4. ASSUME NEW n \in DOMAIN q, q[n] # r PROVE \E m \in DOMAIN Tail(q) : Tail(q)[m] = q[n]
    <3>1. n - 1 \in DOMAIN Tail(q) /\ (n - 1) + 1 = n
      BY <2>3, <2>4
    <3> QED
      BY <2>3, <3>1
  <2>5. \A x \in ReportIds \ {r} : Waiting("created", x) => Waiting("created", x)'
    BY <2>1, <2>2, <2>4 DEF Waiting
  <2>6. pending'[r] # "no" /\ \A x \in ReportIds \ {r} : pending'[x] = pending[x]
    BY <1>0, <2>1
  <2> QED
    BY <2>1, <2>5, <2>6 DEF NoReportDropped
<1>9. ASSUME NEW r \in ReportIds, OnReportEvaluated(r) PROVE NoReportDropped'
  <2>1. /\ queues["evaluated"] # <<>> /\ r = Head(queues["evaluated"])
        /\ queues'["created"] = queues["created"]
        /\ pending' = [pending EXCEPT ![r] = "no"]
        /\ UNCHANGED <<collected, escalations, evaluations, lost>>
    BY <1>0, <1>2, <1>9, ReceiveEffect DEF OnReportEvaluated
  <2>2. evaluations[r] > 0
    <3>1. PICK q \in Seq(ReportIds) : queues["evaluated"] = q
      BY <1>0
    <3>2. r = q[1] /\ 1 \in DOMAIN q
      BY <2>1, <3>1, TailElements
    <3> QED
      BY <3>1, <3>2 DEF Accounted
  <2>3. \A x \in ReportIds \ {r} : pending'[x] = pending[x]
    BY <1>0, <2>1
  <2> QED
    BY <2>1, <2>2, <2>3 DEF NoReportDropped, Waiting
<1>10. ASSUME NEW r \in ReportIds, OnReportEvaluatedForIssues(r) PROVE NoReportDropped'
  BY <1>0, <1>1, <1>2, <1>10 DEF OnReportEvaluatedForIssues
<1>11. ASSUME NEW r \in ReportIds, BecomeOverdue(r) PROVE NoReportDropped'
  <2>1. /\ pending' = [pending EXCEPT ![r] = "overdue"]
        /\ UNCHANGED <<queues, collected, escalations, evaluations, lost>>
    BY <1>11 DEF BecomeOverdue
  <2>2. \A x \in ReportIds : pending[x] # "no" => pending'[x] # "no"
    BY <1>0, <2>1
  <2> QED
    BY <2>1, <2>2 DEF NoReportDropped, Waiting
<1>12. CASE EscalationPublished
  <2>1. /\ scan.current \in ReportIds
        /\ escalations' = [escalations EXCEPT ![scan.current] = escalations[scan.current] + 1]
        /\ pending' = [pending EXCEPT ![scan.current] = "no"]
        /\ UNCHANGED <<queues, collected, evaluations, lost>>
    BY <1>0, <1>12 DEF EscalationPublished
  <2>2. escalations'[scan.current] > 0
    <3>1. escalations[scan.current] \in Nat /\ escalations'[scan.current] = escalations[scan.current] + 1
      BY <1>0, <2>1
    <3> QED
      BY <3>1
  <2>3. ASSUME NEW x \in ReportIds \ {scan.current}
        PROVE  pending'[x] = pending[x] /\ escalations'[x] = escalations[x]
    BY <1>0, <2>1
  <2> QED
    BY <2>1, <2>2, <2>3 DEF NoReportDropped, Waiting
<1>13. CASE \/ ScanBegins \/ PublishingFails
            \/ \E i \in IssueIds, o \in collected \cup {Absent} : CreateIssue(i, o)
            \/ \E i \in IssueIds, action \in {"accept", "reject"} : ReviewIssue(i, action)
            \/ \E i \in IssueIds : ResolveIssue(i)
            \/ \E p \in Processes : Starts(p)
            \/ UNCHANGED vars
  BY <1>1, <1>13 DEF ScanBegins, PublishingFails, CreateIssue, ReviewIssue, ResolveIssue, Starts, vars
<1>14. ASSUME NEW p \in Processes, Stops(p) PROVE NoReportDropped'
  <2>1. CASE p = "analyzer"
    <3>1. /\ lost' = lost \cup {r \in ReportIds : Waiting("created", r) \/ pending[r] # "no"}
          /\ UNCHANGED <<collected, evaluations, escalations>>
      BY <1>14, <2>1 DEF Stops
    <3> QED
      BY <3>1 DEF NoReportDropped
  <2>2. CASE p = "issue-manager"
    <3>1. /\ queues'["created"] = queues["created"]
          /\ UNCHANGED <<collected, pending, escalations, evaluations, lost>>
      BY <1>0, <1>14, <2>2 DEF Stops, Owner
    <3> QED
      BY <1>1, <3>1
  <2> QED
    BY <2>1, <2>2 DEF Processes
<1> QED
  BY <1>4, <1>5, <1>6, <1>7, <1>8, <1>9, <1>10, <1>11, <1>12, <1>13, <1>14, NextCases

LEMMA InitIInv == Init => IInv
<1> SUFFICES ASSUME Init PROVE IInv
  OBVIOUS
<1>0. /\ \A s \in {"events", "created", "evaluated"} : s \in Subscriptions
      /\ Absent \notin ReportIds /\ "analyzer" \in Processes
  BY ObservationsAssumption DEF Subscriptions, Processes
<1>1. queues = [s \in Subscriptions |-> <<>>] /\ scan.current = Absent /\ scan.rest = {}
  BY DEF Init, Asleep
<1>2. queues["created"] = <<>> /\ queues["evaluated"] = <<>>
  BY <1>0, <1>1
<1>3. DOMAIN queues["created"] = {} /\ DOMAIN queues["evaluated"] = {}
  BY <1>2
<1>4. TypeOK
  <2>1. /\ DOMAIN queues = Subscriptions
        /\ queues["events"] \in Seq(EventMessage)
        /\ \A s \in Subscriptions \ {"events"} : queues[s] \in Seq(ReportIds)
    BY <1>0, <1>1
  <2> QED
    BY <2>1 DEF Init, Asleep, TypeOK
<1>5. \A r \in ReportIds : ~Waiting("created", r) /\ ~Scanned(r)
  BY <1>0, <1>1, <1>3 DEF Waiting, Scanned
<1>6. OnItsWay
  BY <1>1, <1>3, <1>5 DEF OnItsWay, Init
<1>7. Accounted
  BY <1>0, <1>3 DEF Accounted, Init
<1>8. EscalatedAtMostOnce /\ NoReportDropped
  BY DEF Init, EscalatedAtMostOnce, NoReportDropped
<1> QED
  BY <1>4, <1>6, <1>7, <1>8 DEF IInv

LEMMA InductiveStep == IInv /\ [Next]_vars => IInv'
  BY TypeStep, WayStep, AccountedStep, DroppedStep DEF IInv

-----------------------------------------------------------------------------
\* Whatever is lost, delayed or restarted, obs-analyzer keeps the invariant.
THEOREM Invariance == Spec => []IInv
<1>1. Spec => Init /\ [][Next]_vars
  BY DEF Spec
<1> QED
  BY <1>1, InitIInv, InductiveStep, PTL

\* Queues and dictionaries hold what their handlers expect.
THEOREM TypeCorrect == Spec => []TypeOK
<1>1. IInv => TypeOK
  BY DEF IInv
<1> QED
  BY <1>1, Invariance, PTL

\* _scan_and_escalate publishes obs.report.escalation once for a report, whichever
\* publications fail and however its messages are interleaved.
THEOREM AlwaysEscalatedOnce == Spec => []EscalatedAtMostOnce
<1>1. IInv => EscalatedAtMostOnce
  BY DEF IInv
<1> QED
  BY <1>1, Invariance, PTL

\* A report leaves _pending_reports only escalated or evaluated, or with its process, and
\* one that never gets there was announced while obs-analyzer was down, or with an error.
THEOREM NeverDropped == Spec => []NoReportDropped
<1>1. IInv => NoReportDropped
  BY DEF IInv
<1> QED
  BY <1>1, Invariance, PTL

-----------------------------------------------------------------------------
(***************************************************************************)
(* The refinement of AtMostOnce by the events.  An event is collected,     *)
(* waits, and has its issue, each at most once and never two of these      *)
(* again; that a process is down is itself a failure, so that what is lost *)
(* meanwhile is lost by one.                                               *)
(***************************************************************************)
Made == {i \in Stored(issues) : issues[i].made = "event"}

EventOnce ==
    /\ \A m, n \in DOMAIN queues["events"] :
          queues["events"][m].event = queues["events"][n].event => m = n
    /\ \A n \in DOMAIN queues["events"] : queues["events"][n].event \in collected
    /\ \A i \in Made :
          /\ issues[i].origin \in collected
          /\ \A n \in DOMAIN queues["events"] : queues["events"][n].event # issues[i].origin
          /\ \A j \in Made : issues[j].origin = issues[i].origin => i = j

DownIsFaulty == \A p \in Processes : ~up[p] => faults > 0

\* The issues made of events are those there were.
MadeStay == Made' = Made /\ \A i \in Made : issues'[i].origin = issues[i].origin

LEMMA OneAtMost ==
    ASSUME NEW S, \A x, y \in S : x = y
    PROVE  Cardinality(S) = IF S = {} THEN 0 ELSE 1
<1>1. CASE S = {}
  BY <1>1, FS_EmptySet
<1>2. CASE S # {}
  <2>1. PICK x \in S : TRUE
    BY <1>2
  <2>2. S = {x}
    BY <2>1
  <2> QED
    BY <1>2, <2>2, FS_Singleton
<1> QED
  BY <1>1, <1>2

\* So the counts of the refinement mapping are 0 and 1.
LEMMA EventCounts ==
    ASSUME EventOnce, EventOnce'
    PROVE  \A e : /\ Cardinality(ActiveWaiting(e)) = IF ActiveWaiting(e) = {} THEN 0 ELSE 1
                  /\ Cardinality(ActiveWaiting(e)') = IF ActiveWaiting(e)' = {} THEN 0 ELSE 1
                  /\ Cardinality(IssuesOf(e)) = IF IssuesOf(e) = {} THEN 0 ELSE 1
                  /\ Cardinality(IssuesOf(e)') = IF IssuesOf(e)' = {} THEN 0 ELSE 1
<1> SUFFICES ASSUME NEW e
             PROVE  /\ Cardinality(ActiveWaiting(e)) = IF ActiveWaiting(e) = {} THEN 0 ELSE 1
                    /\ Cardinality(ActiveWaiting(e)') = IF ActiveWaiting(e)' = {} THEN 0 ELSE 1
                    /\ Cardinality(IssuesOf(e)) = IF IssuesOf(e) = {} THEN 0 ELSE 1
                    /\ Cardinality(IssuesOf(e)') = IF IssuesOf(e)' = {} THEN 0 ELSE 1
  OBVIOUS
<1>1. \A m, n \in ActiveWaiting(e) : m = n
  BY DEF EventOnce, ActiveWaiting
<1>2. \A m, n \in ActiveWaiting(e)' : m = n
  BY DEF EventOnce, ActiveWaiting
<1>3. \A i, j \in IssuesOf(e) : i = j
  BY DEF EventOnce, IssuesOf, Made
<1>4. \A i, j \in IssuesOf(e)' : i = j
  BY DEF EventOnce, IssuesOf, Made
<1> QED
  BY <1>1, <1>2, <1>3, <1>4, OneAtMost

\* What a step may do to the events.
Arrives(e, active) ==
    /\ e \notin collected /\ collected' = collected \cup {e}
    /\ queues'["events"] = Append(queues["events"], [event |-> e, active |-> active])
    /\ MadeStay /\ faults' = faults

Leaves(e, active) ==
    /\ queues["events"] # <<>> /\ Head(queues["events"]) = [event |-> e, active |-> active]
    /\ queues'["events"] = Tail(queues["events"])
    /\ collected' = collected

Becomes(e, i) ==
    /\ Leaves(e, TRUE) /\ faults' = faults
    /\ i \notin Made /\ Made' = Made \cup {i}
    /\ issues'[i].origin = e /\ \A j \in Made : issues'[j].origin = issues[j].origin

Settles(e, active) ==
    Leaves(e, active) /\ MadeStay /\ IF active THEN faults' # 0 ELSE faults' = faults

Vanish ==
    /\ queues'["events"] = queues["events"] \/ queues'["events"] = <<>>
    /\ Made' = {} \/ MadeStay
    /\ collected \subseteq collected' /\ faults' # 0

Nothing ==
    /\ queues'["events"] = queues["events"] /\ MadeStay
    /\ collected \subseteq collected' /\ faults' = faults

LEMMA EventCases ==
    ASSUME TypeOK, DownIsFaulty, [Next]_vars
    PROVE  \/ \E e \in EventIds, active \in BOOLEAN : Arrives(e, active) \/ Settles(e, active)
           \/ \E e \in EventIds, i \in IssueIds : Becomes(e, i)
           \/ Vanish \/ Nothing
<1> DEFINE Goal == \/ \E e \in EventIds, active \in BOOLEAN : Arrives(e, active) \/ Settles(e, active)
                   \/ \E e \in EventIds, i \in IssueIds : Becomes(e, i)
                   \/ Vanish \/ Nothing
<1> USE DEF analyzerVars, faultVars
<1>0. /\ "events" \in Subscriptions /\ DOMAIN queues = Subscriptions
      /\ issues \in [IssueIds -> Issue \cup {Absent}] /\ Absent \notin Issue
      /\ faults \in Nat
      /\ "created" # "events" /\ "evaluated" # "events" /\ "evaluated for issues" # "events"
  BY ObservationsAssumption DEF TypeOK, Subscriptions
<1>1. ASSUME NEW s \in Subscriptions \ {"events"}, NEW m, Receive(s, m)
      PROVE  queues'["events"] = queues["events"]
  BY <1>0, <1>1 DEF Receive
<1>2. ASSUME NEW ss, NEW m, Publish(m, ss), "events" \notin ss
      PROVE  queues'["events"] = queues["events"]
  BY <1>0, <1>2 DEF Publish
<1>3. UNCHANGED issues => MadeStay
  BY DEF MadeStay, Made, Stored
<1>4. ASSUME Fault PROVE faults' # 0
  BY <1>0, <1>4 DEF Fault
<1>5. ASSUME NEW r \in ReportIds, IngestReport(r) \/ Evaluate(r) PROVE Goal
  <2>1. /\ queues'["events"] = queues["events"] /\ MadeStay /\ collected \subseteq collected'
        /\ faults' = faults \/ faults' # 0
    BY <1>0, <1>2, <1>3, <1>4, <1>5 DEF IngestReport, Evaluate
  <2> QED
    BY <2>1 DEF Nothing, Vanish
<1>6. ASSUME NEW e \in EventIds, NEW active \in BOOLEAN, IngestIoTEvent(e, active) PROVE Goal
  <2>1. /\ e \notin collected /\ collected' = collected \cup {e} /\ MadeStay
        /\ \/ /\ queues'["events"] = Append(queues["events"], [event |-> e, active |-> active])
              /\ faults' = faults
           \/ queues'["events"] = queues["events"] /\ (faults' = faults \/ faults' # 0)
    BY <1>0, <1>3, <1>4, <1>6 DEF IngestIoTEvent, Publish, Owner
  <2> QED
    BY <2>1 DEF Arrives, Nothing, Vanish
<1>7. ASSUME NEW e \in EventIds, NEW active \in BOOLEAN, NEW i \in IssueIds, OnIoTEvent(e, active, i)
      PROVE  Goal
  <2>1. Leaves(e, active)
    BY <1>0, <1>7 DEF OnIoTEvent, Receive, Leaves
  <2>2. CASE active /\ i \in Fresh /\ issues' = WithIssue(i, e, "event") /\ faults' = faults
    <3> DEFINE record == [origin |-> e, status |-> "Open", made |-> "event"]
    <3>1. record \in Issue /\ record # Absent /\ record.origin = e /\ record.made = "event"
      BY <1>0 DEF Issue
    <3>2. issues' = [issues EXCEPT ![i] = record]
      BY <2>2 DEF WithIssue
    <3> HIDE DEF record
    <3>3. i \notin Made /\ Made' = Made \cup {i}
      BY <1>0, <2>2, <3>1, <3>2 DEF Fresh, Made, Stored
    <3>4. issues'[i].origin = e /\ \A j \in Made : issues'[j].origin = issues[j].origin
      BY <1>0, <3>1, <3>2, <3>3 DEF Made, Stored
    <3> QED
      BY <2>1, <2>2, <3>3, <3>4 DEF Becomes
  <2>3. CASE ~active /\ UNCHANGED <<issues, faults>>
    BY <1>3, <2>1, <2>3 DEF Settles
  <2>4. CASE active /\ UNCHANGED issues /\ faults' # 0
    BY <1>3, <2>1, <2>4 DEF Settles
  <2>5. ~up["issue-manager"] => faults # 0
    BY DEF DownIsFaulty, Processes
  <2> QED
    BY <1>4, <1>7, <2>2, <2>3, <2>4, <2>5 DEF OnIoTEvent
<1>8. ASSUME NEW r \in ReportIds, OnReport(r) \/ OnReportEvaluated(r) PROVE Goal
  <2>1. {"created", "evaluated"} \subseteq Subscriptions \ {"events"}
    BY DEF Subscriptions
  <2> QED
    BY <1>1, <1>3, <1>8, <2>1 DEF OnReport, OnReportEvaluated, Nothing
<1>9. ASSUME NEW r \in ReportIds, OnReportEvaluatedForIssues(r) PROVE Goal
  <2>1. "evaluated for issues" \in Subscriptions \ {"events"}
    BY DEF Subscriptions
  <2>2. ASSUME NEW i \in IssueIds, issues[i] # Absent
        PROVE  /\ issues'[i] # Absent /\ issues'[i].origin = issues[i].origin
               /\ issues'[i].made = issues[i].made
    <3>1. issues[i] \in Issue
      BY <1>0, <2>2
    <3>2. [issues[i] EXCEPT !.status = "PendingReview"] \in Issue
      BY <3>1 DEF Issue
    <3> QED
      BY <1>0, <1>9, <3>1, <3>2 DEF OnReportEvaluatedForIssues, Issue
  <2>3. DOMAIN issues' = IssueIds /\ \A i \in IssueIds : issues[i] = Absent => issues'[i] = Absent
    BY <1>9 DEF OnReportEvaluatedForIssues
  <2>4. MadeStay
    BY <1>0, <2>2, <2>3 DEF MadeStay, Made, Stored
  <2> QED
    BY <1>1, <1>9, <2>1, <2>4 DEF OnReportEvaluatedForIssues, Nothing
<1>10. ASSUME NEW i \in IssueIds, NEW o, CreateIssue(i, o) PROVE Goal
  <2> DEFINE record == [origin |-> o, status |-> "Open", made |-> "client"]
  <2>1. /\ i \in Fresh /\ issues' = [issues EXCEPT ![i] = record] /\ record.made # "event"
    BY <1>10 DEF CreateIssue, WithIssue
  <2> HIDE DEF record
  <2>2. MadeStay
    BY <1>0, <2>1 DEF Fresh, MadeStay, Made, Stored
  <2> QED
    BY <1>10, <2>2 DEF CreateIssue, Nothing
<1>11. ASSUME NEW i \in IssueIds, ResolveIssue(i) \/ \E action \in {"accept", "reject"} : ReviewIssue(i, action)
       PROVE  Goal
  <2>1. PICK status \in {"Open", "UnderReview", "Resolved"} :
           i \in Stored(issues) /\ issues' = [issues EXCEPT ![i].status = status]
    BY <1>11 DEF ResolveIssue, ReviewIssue
  <2>2. issues[i] \in Issue /\ issues'[i] = [issues[i] EXCEPT !.status = status]
    BY <1>0, <2>1 DEF Stored
  <2>3. issues'[i].origin = issues[i].origin /\ issues'[i].made = issues[i].made /\ issues'[i] \in Issue
    BY <2>2 DEF Issue
  <2>4. MadeStay
    BY <1>0, <2>1, <2>3 DEF MadeStay, Made, Stored
  <2> QED
    BY <1>11, <2>4 DEF ResolveIssue, ReviewIssue, Nothing
<1>12. ASSUME NEW p \in Processes, Stops(p) PROVE Goal
  <2>1. queues'["events"] = queues["events"] \/ queues'["events"] = <<>>
    BY <1>0, <1>12 DEF Stops
  <2>2. CASE UNCHANGED issues
    BY <1>3, <1>4, <1>12, <2>1, <2>2 DEF Stops, Vanish
  <2>3. CASE issues' = [i \in IssueIds |-> Absent]
    <3>1. Made' = {}
      BY <2>3 DEF Made, Stored
    <3> QED
      BY <1>4, <1>12, <2>1, <3>1 DEF Stops, Vanish
  <2> QED
    BY <1>12, <2>2, <2>3 DEF Stops
<1>13. CASE PublishingFails
  BY <1>3, <1>4, <1>13 DEF PublishingFails, Vanish
<1>14. CASE \/ \E r \in ReportIds : BecomeOverdue(r)
            \/ ScanBegins \/ EscalationPublished
            \/ \E p \in Processes : Starts(p)
            \/ UNCHANGED vars
  BY <1>3, <1>14 DEF BecomeOverdue, ScanBegins, EscalationPublished, Starts, vars, Nothing
<1> QED
  BY <1>5, <1>6, <1>7, <1>8, <1>9, <1>10, <1>11, <1>12, <1>13, <1>14, NextCases

LEMMA DownStep == TypeOK /\ DownIsFaulty /\ [Next]_vars => DownIsFaulty'
<1> SUFFICES ASSUME TypeOK, DownIsFaulty, [Next]_vars PROVE DownIsFaulty'
  OBVIOUS
<1> USE DEF analyzerVars, faultVars
<1>0. faults \in Nat /\ up \in [Processes -> BOOLEAN]
  BY DEF TypeOK
<1>1. ASSUME UNCHANGED up, faults' = faults \/ Fault PROVE DownIsFaulty'
  BY <1>0, <1>1 DEF DownIsFaulty, Fault
<1>2. ASSUME NEW p \in Processes, Stops(p) PROVE DownIsFaulty'
  BY <1>0, <1>2 DEF Stops, Fault, DownIsFaulty
<1>3. ASSUME NEW p \in Processes, Starts(p) PROVE DownIsFaulty'
  BY <1>0, <1>3 DEF Starts, DownIsFaulty
<1>4. ASSUME NEW e \in EventIds, NEW active \in BOOLEAN, NEW i \in IssueIds, OnIoTEvent(e, active, i)
      PROVE  DownIsFaulty'
  BY <1>1, <1>4 DEF OnIoTEvent
<1>5. ASSUME NEW r \in ReportIds, IngestReport(r) PROVE DownIsFaulty'
  BY <1>1, <1>5 DEF IngestReport
<1>6. ASSUME NEW e \in EventIds, NEW active \in BOOLEAN, IngestIoTEvent(e, active)
      PROVE  DownIsFaulty'
  BY <1>1, <1>6 DEF IngestIoTEvent
<1> QED
  BY <1>1, <1>2, <1>3, <1>4, <1>5, <1>6, NextCases
  DEF Evaluate, OnReport, OnReportEvaluated,
      OnReportEvaluatedForIssues, BecomeOverdue, ScanBegins, EscalationPublished, PublishingFails,
      CreateIssue, ReviewIssue, ResolveIssue, vars

LEMMA EventOnceStep ==
    ASSUME TypeOK, EventOnce, DownIsFaulty, [Next]_vars PROVE EventOnce'
<1>0. queues["events"] \in Seq(EventMessage) /\ \A i \in Made : i \in Made
  BY DEF TypeOK
<1>1. ASSUME NEW e \in EventIds, NEW active \in BOOLEAN, Arrives(e, active) PROVE EventOnce'
  <2> DEFINE m == [event |-> e, active |-> active]
  <2>1. m \in EventMessage /\ m.event = e
    BY DEF EventMessage
  <2>2. PICK q \in Seq(EventMessage) : queues["events"] = q
    BY <1>0
  <2>3. queues'["events"] = Append(q, m)
    BY <1>1, <2>2 DEF Arrives
  <2> HIDE DEF m
  <2>4. /\ DOMAIN q = 1 .. Len(q) /\ Len(q) \in Nat
        /\ DOMAIN Append(q, m) = 1 .. Len(q) + 1
        /\ Append(q, m)[Len(q) + 1] = m
        /\ \A n \in 1 .. Len(q) : Append(q, m)[n] = q[n]
    BY <2>1, AppendElements
  <2>5. \A n \in DOMAIN Append(q, m) :
           \/ n \in DOMAIN q /\ Append(q, m)[n] = q[n]
           \/ n = Len(q) + 1 /\ Append(q, m)[n].event = e
    BY <2>1, <2>4
  <2>6. \A n \in DOMAIN q : q[n].event \in collected
    BY <2>2 DEF EventOnce
  <2>7. e \notin collected /\ collected' = collected \cup {e} /\ MadeStay
    BY <1>1 DEF Arrives
  <2>8. \A i, n \in DOMAIN Append(q, m) : Append(q, m)[i].event = Append(q, m)[n].event => i = n
    BY <2>2, <2>5, <2>6, <2>7 DEF EventOnce
  <2>9. \A n \in DOMAIN Append(q, m) : Append(q, m)[n].event \in collected'
    BY <2>5, <2>6, <2>7
  <2>10. \A i \in Made' : /\ issues'[i].origin \in collected'
                          /\ \A n \in DOMAIN Append(q, m) : Append(q, m)[n].event # issues'[i].origin
                          /\ \A j \in Made' : issues'[j].origin = issues'[i].origin => i = j
    BY <2>2, <2>5, <2>7 DEF EventOnce, MadeStay
  <2> QED
    BY <2>3, <2>8, <2>9, <2>10 DEF EventOnce
<1>2. ASSUME NEW e \in EventIds, NEW active \in BOOLEAN, Leaves(e, active)
      PROVE  /\ \A m, n \in DOMAIN queues'["events"] :
                   queues'["events"][m].event = queues'["events"][n].event => m = n
             /\ \A n \in DOMAIN queues'["events"] :
                   /\ queues'["events"][n].event \in collected' /\ queues'["events"][n].event # e
                   /\ \E k \in DOMAIN queues["events"] : queues'["events"][n] = queues["events"][k]
             /\ e \in collected' /\ \A j \in Made : issues[j].origin # e
  <2>1. PICK q \in Seq(EventMessage) : queues["events"] = q
    BY <1>0
  <2>2. /\ q # <<>> /\ q[1].event = e /\ queues'["events"] = Tail(q) /\ collected' = collected
    BY <1>2, <2>1 DEF Leaves
  <2>3. /\ DOMAIN q = 1 .. Len(q) /\ Len(q) \in Nat \ {0}
        /\ DOMAIN Tail(q) = 1 .. Len(q) - 1
        /\ \A n \in 1 .. Len(q) - 1 : n + 1 \in DOMAIN q /\ Tail(q)[n] = q[n + 1]
    BY <2>2, TailElements
  <2>4. /\ \A m, n \in DOMAIN q : q[m].event = q[n].event => m = n
        /\ \A n \in DOMAIN q : q[n].event \in collected
        /\ \A j \in Made : \A n \in DOMAIN q : q[n].event # issues[j].origin
    BY <2>1 DEF EventOnce
  <2>5. 1 \in DOMAIN q
    BY <2>3
  <2>6. \A n \in DOMAIN Tail(q) : n + 1 \in DOMAIN q /\ n \in Nat \ {0} /\ Tail(q)[n] = q[n + 1]
    BY <2>3
  <2>7. \A m, n \in DOMAIN Tail(q) : Tail(q)[m].event = Tail(q)[n].event => m = n
    BY <2>4, <2>6
  <2>8. \A n \in DOMAIN Tail(q) : Tail(q)[n].event # e
    BY <2>2, <2>4, <2>5, <2>6
  <2> QED
    BY <2>1, <2>2, <2>4, <2>5, <2>6, <2>7, <2>8
<1>3. ASSUME NEW e \in EventIds, NEW active \in BOOLEAN, Settles(e, active) PROVE EventOnce'
  <2>1. Leaves(e, active) /\ MadeStay /\ collected' = collected
    BY <1>3 DEF Settles, Leaves
  <2> QED
    BY <1>2, <2>1 DEF EventOnce, MadeStay
<1>4. ASSUME NEW e \in EventIds, NEW i \in IssueIds, Becomes(e, i) PROVE EventOnce'
  <2>1. /\ Leaves(e, TRUE) /\ collected' = collected
        /\ i \notin Made /\ Made' = Made \cup {i}
        /\ issues'[i].origin = e /\ \A j \in Made : issues'[j].origin = issues[j].origin
    BY <1>4 DEF Becomes, Leaves
  <2>2. \A m, n \in DOMAIN queues'["events"] :
           queues'["events"][m].event = queues'["events"][n].event => m = n
    BY <1>2, <2>1
  <2>3. /\ \A n \in DOMAIN queues'["events"] :
              /\ queues'["events"][n].event \in collected' /\ queues'["events"][n].event # e
              /\ \E k \in DOMAIN queues["events"] : queues'["events"][n] = queues["events"][k]
        /\ e \in collected' /\ \A j \in Made : issues[j].origin # e
    BY <1>2, <2>1
  <2>4. ASSUME NEW j \in Made'
        PROVE  /\ issues'[j].origin \in collected'
               /\ \A n \in DOMAIN queues'["events"] : queues'["events"][n].event # issues'[j].origin
               /\ \A k \in Made' : issues'[k].origin = issues'[j].origin => j = k
    <3>1. CASE j = i
      BY <2>1, <2>3, <3>1
    <3>2. CASE j \in Made
      <4>1. issues'[j].origin = issues[j].origin /\ issues[j].origin # e
        BY <2>1, <2>3, <3>2
      <4> QED
        BY <2>1, <2>3, <3>2, <4>1 DEF EventOnce
    <3> QED
      BY <2>1, <3>1, <3>2
  <2> QED
    BY <2>2, <2>3, <2>4 DEF EventOnce
<1>5. CASE Vanish
  BY <1>5 DEF Vanish, EventOnce, MadeStay
<1>6. CASE Nothing
  BY <1>6 DEF Nothing, EventOnce, MadeStay
<1> QED
  BY <1>1, <1>3, <1>4, <1>5, <1>6, EventCases

\* A step whose outcome is no more of anything is what AtMostOnce calls Fail.
LEMMA FailureRefines ==
    ASSUME EventOnce, EventOnce', faults' \in Nat, faults' # 0,
           \A e \in EventIds : /\ ActiveWaiting(e) = {} => ActiveWaiting(e)' = {}
                               /\ IssuesOf(e) = {} => IssuesOf(e)' = {}
    PROVE  Events!Next
<1> DEFINE left == [e \in EventIds |-> Cardinality(ActiveWaiting(e)')]
           kept == [e \in EventIds |-> Cardinality(IssuesOf(e)')]
<1>1. ASSUME NEW e \in EventIds
      PROVE  /\ Cardinality(ActiveWaiting(e)') \in 0 .. 1
             /\ Cardinality(ActiveWaiting(e)') <= Cardinality(ActiveWaiting(e))
             /\ Cardinality(IssuesOf(e)') \in 0 .. 1
             /\ Cardinality(IssuesOf(e)') <= Cardinality(IssuesOf(e))
  BY EventCounts
<1>2. left \in Events!Remains([e \in EventIds |-> Cardinality(ActiveWaiting(e))])
  BY <1>1 DEF Events!Remains
<1>3. kept \in Events!Remains([e \in EventIds |-> Cardinality(IssuesOf(e))])
  BY <1>1 DEF Events!Remains
<1>4. Events!Fail(left, kept)
  BY DEF Events!Fail
<1> QED
  BY <1>2, <1>3, <1>4 DEF Events!Next

\* Collecting, on_iot_event and the restarts, as AtMostOnce sees them.
LEMMA RefinementStep ==
    ASSUME TypeOK, TypeOK', EventOnce, EventOnce', DownIsFaulty, [Next]_vars
    PROVE  [Events!Next]_Events!vars
<1>0. /\ queues["events"] \in Seq(EventMessage) /\ queues'["events"] \in Seq(EventMessage)
      /\ faults \in Nat /\ faults' \in Nat
  BY DEF TypeOK
<1>1. MadeStay => \A e : IssuesOf(e)' = IssuesOf(e)
  BY DEF MadeStay, Made, IssuesOf
<1>2. UNCHANGED queues["events"] => \A e : ActiveWaiting(e)' = ActiveWaiting(e)
  BY DEF ActiveWaiting
<1>3. ASSUME NEW e \in EventIds, NEW active \in BOOLEAN, Arrives(e, active)
      PROVE  [Events!Next]_Events!vars
  <2> DEFINE m == [event |-> e, active |-> active]
  <2>1. m \in EventMessage /\ m.event = e /\ m.active = active
    BY DEF EventMessage
  <2>2. PICK q \in Seq(EventMessage) : queues["events"] = q
    BY <1>0
  <2>3. queues'["events"] = Append(q, m)
    BY <1>3, <2>2 DEF Arrives
  <2>4. \A x : m = [event |-> x, active |-> TRUE] <=> x = e /\ active
    BY DEF m
  <2> HIDE DEF m
  <2>5. /\ DOMAIN q = 1 .. Len(q) /\ Len(q) \in Nat
        /\ DOMAIN Append(q, m) = 1 .. Len(q) + 1
        /\ Append(q, m)[Len(q) + 1] = m
        /\ \A n \in 1 .. Len(q) : Append(q, m)[n] = q[n]
    BY <2>1, AppendElements
  <2>6. ASSUME NEW x
        PROVE  ActiveWaiting(x)' =
                  ActiveWaiting(x) \cup (IF x = e /\ active THEN {Len(q) + 1} ELSE {})
    <3> DEFINE r == [event |-> x, active |-> TRUE]
    <3>1. m = r <=> x = e /\ active
      BY <2>4
    <3> HIDE DEF r
    <3>2. /\ ActiveWaiting(x) = {n \in DOMAIN q : q[n] = r}
          /\ ActiveWaiting(x)' = {n \in DOMAIN Append(q, m) : Append(q, m)[n] = r}
      BY <2>2, <2>3 DEF ActiveWaiting, r
    <3> QED
      BY <2>5, <3>1, <3>2
  <2>7. ActiveWaiting(e) = {}
    <3>1. \A n \in DOMAIN queues["events"] : queues["events"][n].event # e
      BY <1>3 DEF EventOnce, Arrives
    <3> QED
      BY <3>1 DEF ActiveWaiting
  <2>8. \A x : IssuesOf(x)' = IssuesOf(x)
    BY <1>1, <1>3 DEF Arrives
  <2>9. CASE active
    <3>1. ASSUME NEW x \in EventIds
          PROVE  Cardinality(ActiveWaiting(x)') =
             IF x = e THEN Cardinality(ActiveWaiting(x)) + 1 ELSE Cardinality(ActiveWaiting(x))
      <4>1. CASE x = e
        <5>1. ActiveWaiting(x) = {} /\ ActiveWaiting(x)' # {}
          BY <2>6, <2>7, <2>9, <4>1
        <5>2. Cardinality(ActiveWaiting(x)) = 0 /\ Cardinality(ActiveWaiting(x)') = 1
          BY <5>1, EventCounts
        <5> QED
          BY <4>1, <5>2
      <4>2. CASE x # e
        BY <2>6, <4>2
      <4> QED
        BY <4>1, <4>2
    <3>2. Events!Publish(e)
      BY <1>3, <2>8, <3>1 DEF Arrives, Events!Publish
    <3> QED
      BY <3>2 DEF Events!Next
  <2>10. CASE ~active
    BY <1>3, <2>6, <2>8, <2>10 DEF Arrives, Events!vars
  <2> QED
    BY <2>9, <2>10
<1>4. ASSUME NEW e \in EventIds, NEW active \in BOOLEAN, Leaves(e, active)
      PROVE  /\ \A x \in EventIds : ActiveWaiting(x)' = {} <=> ActiveWaiting(x) = {} \/ x = e
             /\ active <=> ActiveWaiting(e) # {}
             /\ IssuesOf(e) = {}
  <2>1. PICK q \in Seq(EventMessage) : queues["events"] = q
    BY <1>0
  <2>2. /\ q # <<>> /\ q[1] = [event |-> e, active |-> active] /\ queues'["events"] = Tail(q)
    BY <1>4, <2>1 DEF Leaves
  <2>3. /\ DOMAIN q = 1 .. Len(q) /\ Len(q) \in Nat \ {0}
        /\ DOMAIN Tail(q) = 1 .. Len(q) - 1
        /\ \A n \in 1 .. Len(q) - 1 : n + 1 \in DOMAIN q /\ Tail(q)[n] = q[n + 1]
    BY <2>2, TailElements
  <2>4. /\ \A m, n \in DOMAIN q : q[m].event = q[n].event => m = n
        /\ \A j \in Made : \A n \in DOMAIN q : q[n].event # issues[j].origin
    BY <2>1 DEF EventOnce
  <2>5. 1 \in DOMAIN q /\ q[1].event = e
    BY <2>2, <2>3
  <2>6. IssuesOf(e) = {}
    BY <2>4, <2>5 DEF IssuesOf, Made
  <2>7. \A n \in DOMAIN q : n # 1 => n - 1 \in DOMAIN Tail(q) /\ Tail(q)[n - 1] = q[n]
    BY <2>3
  <2>8. \A n \in DOMAIN Tail(q) : n + 1 \in DOMAIN q /\ n + 1 # 1 /\ Tail(q)[n] = q[n + 1]
    BY <2>3
  <2>9. \A n \in DOMAIN q : n # 1 => q[n].event # e
    BY <2>4, <2>5
  <2>10. active <=> ActiveWaiting(e) # {}
    <3>1. CASE active
      BY <2>1, <2>2, <2>5, <3>1 DEF ActiveWaiting
    <3>2. CASE ~active
      <4>1. ASSUME NEW n \in DOMAIN q PROVE q[n] # [event |-> e, active |-> TRUE]
        BY <2>2, <2>9, <3>2
      <4> QED
        BY <2>1, <3>2, <4>1 DEF ActiveWaiting
    <3> QED
      BY <3>1, <3>2
  <2>11. ASSUME NEW x \in EventIds PROVE ActiveWaiting(x)' = {} <=> ActiveWaiting(x) = {} \/ x = e
    <3> DEFINE m == [event |-> x, active |-> TRUE]
    <3>1. m.event = x
      OBVIOUS
    <3> HIDE DEF m
    <3>2. /\ ActiveWaiting(x) = {n \in DOMAIN q : q[n] = m}
          /\ ActiveWaiting(x)' = {n \in DOMAIN Tail(q) : Tail(q)[n] = m}
      BY <2>1, <2>2 DEF ActiveWaiting, m
    <3>3. CASE x = e
      BY <2>8, <2>9, <3>1, <3>2, <3>3
    <3>4. CASE x # e
      <4>1. q[1] # m
        BY <2>5, <3>1, <3>4
      <4>2. ASSUME NEW n \in DOMAIN q, q[n] = m PROVE ActiveWaiting(x)' # {}
        BY <2>7, <3>2, <4>1, <4>2
      <4>3. ASSUME NEW n \in DOMAIN Tail(q), Tail(q)[n] = m PROVE ActiveWaiting(x) # {}
        BY <2>8, <3>2, <4>3
      <4> QED
        BY <3>2, <3>4, <4>2, <4>3
    <3> QED
      BY <3>3, <3>4
  <2> QED
    BY <2>6, <2>10, <2>11
<1>5. ASSUME NEW e \in EventIds, NEW active \in BOOLEAN, Settles(e, active)
      PROVE  [Events!Next]_Events!vars
  <2>1. Leaves(e, active) /\ \A x : IssuesOf(x)' = IssuesOf(x)
    BY <1>1, <1>5 DEF Settles
  <2>2. \A x \in EventIds : ActiveWaiting(x)' = {} <=> ActiveWaiting(x) = {} \/ x = e
    BY <1>4, <2>1
  <2>3. active <=> ActiveWaiting(e) # {}
    BY <1>4, <2>1
  <2>4. CASE active
    BY <1>0, <1>5, <2>1, <2>2, <2>4, FailureRefines DEF Settles
  <2>5. CASE ~active
    <3>1. \A x \in EventIds : Cardinality(ActiveWaiting(x)') = Cardinality(ActiveWaiting(x))
      BY <2>2, <2>3, <2>5, EventCounts
    <3> QED
      BY <1>5, <2>1, <2>5, <3>1 DEF Settles, Events!vars
  <2> QED
    BY <2>4, <2>5
<1>6. ASSUME NEW e \in EventIds, NEW i \in IssueIds, Becomes(e, i)
      PROVE  Events!Next
  <2>1. /\ Leaves(e, TRUE) /\ faults' = faults /\ i \notin Made /\ Made' = Made \cup {i}
        /\ issues'[i].origin = e /\ \A j \in Made : issues'[j].origin = issues[j].origin
    BY <1>6 DEF Becomes
  <2>2. /\ \A x \in EventIds : ActiveWaiting(x)' = {} <=> ActiveWaiting(x) = {} \/ x = e
        /\ ActiveWaiting(e) # {} /\ IssuesOf(e) = {}
    BY <1>4, <2>1
  <2>3. \A x : IssuesOf(x)' = IF x = e THEN IssuesOf(x) \cup {i} ELSE IssuesOf(x)
    <3>1. \A x : IssuesOf(x) = {j \in Made : issues[j].origin = x}
      BY DEF IssuesOf, Made
    <3>2. \A x : IssuesOf(x)' = {j \in Made' : issues'[j].origin = x}
      BY DEF IssuesOf, Made
    <3> QED
      BY <2>1, <3>1, <3>2
  <2>4. ASSUME NEW x \in EventIds
        PROVE  /\ Cardinality(ActiveWaiting(x)') =
                     IF x = e THEN Cardinality(ActiveWaiting(x)) - 1 ELSE Cardinality(ActiveWaiting(x))
               /\ Cardinality(IssuesOf(x)') =
                     IF x = e THEN Cardinality(IssuesOf(x)) + 1 ELSE Cardinality(IssuesOf(x))
    BY <2>2, <2>3, EventCounts
  <2>5. Cardinality(ActiveWaiting(e)) > 0
    BY <2>2, EventCounts
  <2>6. Events!Handle(e)
    BY <2>1, <2>4, <2>5 DEF Events!Handle
  <2> QED
    BY <2>6 DEF Events!Next
<1>7. CASE Vanish
  <2>1. ASSUME NEW e PROVE /\ ActiveWaiting(e) = {} => ActiveWaiting(e)' = {}
                           /\ IssuesOf(e) = {} => IssuesOf(e)' = {}
    <3>1. queues'["events"] = <<>> => ActiveWaiting(e)' = {}
      BY DEF ActiveWaiting
    <3>2. Made' = {} => IssuesOf(e)' = {}
      BY DEF IssuesOf, Made
    <3> QED
      BY <1>1, <1>2, <1>7, <3>1, <3>2 DEF Vanish
  <2> QED
    BY <1>0, <1>7, <2>1, FailureRefines DEF Vanish
<1>8. CASE Nothing
  BY <1>1, <1>2, <1>8 DEF Nothing, Events!vars
<1> QED
  BY <1>3, <1>5, <1>6, <1>7, <1>8, EventCases

\* The safety part of ImplementsAtMostOnce: on_iot_event makes at most one issue of
\* an active event, and one that is lost was lost by a failure.
THEOREM EventsSafety == Spec => Events!Init /\ [][Events!Next]_Events!vars
<1>1. Init => Events!Init /\ EventOnce /\ DownIsFaulty
  <2> SUFFICES ASSUME Init PROVE Events!Init /\ EventOnce /\ DownIsFaulty
    OBVIOUS
  <2>1. queues["events"] = <<>> /\ Stored(issues) = {}
    BY DEF Init, Subscriptions, Stored
  <2>2. EventOnce /\ DownIsFaulty
    BY <2>1 DEF EventOnce, Made, DownIsFaulty, Init
  <2>3. \A e : ActiveWaiting(e) = {} /\ IssuesOf(e) = {}
    BY <2>1 DEF ActiveWaiting, IssuesOf
  <2>4. \A e : Cardinality(ActiveWaiting(e)) = 0 /\ Cardinality(IssuesOf(e)) = 0
    BY <2>3, FS_EmptySet
  <2> QED
    BY <2>2, <2>4 DEF Init, Events!Init
<1>2. IInv /\ EventOnce /\ DownIsFaulty /\ [Next]_vars => EventOnce' /\ DownIsFaulty'
  BY EventOnceStep, DownStep DEF IInv
<1>3. /\ IInv /\ IInv' /\ EventOnce /\ EventOnce' /\ DownIsFaulty /\ [Next]_vars
      => [Events!Next]_Events!vars
  BY RefinementStep DEF IInv
<1>4. Spec => [](EventOnce /\ DownIsFaulty)
  BY <1>1, <1>2, Invariance, PTL DEF Spec
<1> QED
  BY <1>1, <1>3, <1>4, Invariance, PTL DEF Spec

=============================================================================

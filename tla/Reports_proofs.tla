--------------------------- MODULE Reports_proofs ---------------------------
EXTENDS Reports, TLAPS

(***************************************************************************)
(* The inductive invariant adds to the checked ones that an id not issued  *)
(* yet is nowhere in the state, so that a new report starts from nothing.  *)
(***************************************************************************)
UnissuedUntouched ==
    \A r \in Unissued(reports) :
       /\ pending[r] = "no"
       /\ escalations[r] = 0
       /\ r # scan.current /\ r \notin scan.rest
       /\ DerivedFrom(r) = {}

IInv ==
    /\ TypeOK
    /\ SnapshotSound
    /\ EscalatedAtMostOnce
    /\ OneIssuePerReport
    /\ ReviewAfterEvaluation
    /\ UnissuedUntouched

-----------------------------------------------------------------------------

\* A new issue, and what evaluating a report does to the table of issues.
LEMMA WithIssueType ==
    ASSUME TypeOK, NEW i \in IssueIds, NEW o \in ReportIds \cup EventIds \cup {Absent, Unknown},
           NEW made \in {"client", "event", "report", "approval"}
    PROVE  /\ WithIssue(i, o, made) \in [IssueIds -> Issue \cup {Absent}]
           /\ WithIssue(i, o, made)[i].origin = o
           /\ WithIssue(i, o, made)[i].status = "Open"
           /\ WithIssue(i, o, made)[i].made = made
           /\ WithIssue(i, o, made)[i] # Absent
           /\ \A j \in IssueIds \ {i} : WithIssue(i, o, made)[j] = issues[j]
<1> DEFINE new == [origin |-> o, status |-> "Open", made |-> made]
<1>1. new \in Issue
  BY DEF Issue, Statuses
<1>2. new # Absent
  BY <1>1, ReportsAssumption
<1>3. new.origin = o /\ new.status = "Open" /\ new.made = made
  OBVIOUS
<1>4. WithIssue(i, o, made) = [issues EXCEPT ![i] = new]
  BY DEF WithIssue
<1> HIDE DEF new
<1> QED
  BY <1>1, <1>2, <1>3, <1>4 DEF TypeOK

LEMMA ReviewedType ==
    ASSUME NEW table \in [IssueIds -> Issue \cup {Absent}], NEW o
    PROVE  /\ Reviewed(table, o) \in [IssueIds -> Issue \cup {Absent}]
           /\ \A i \in IssueIds :
                 /\ Reviewed(table, o)[i] = Absent <=> table[i] = Absent
                 /\ table[i] # Absent =>
                       /\ Reviewed(table, o)[i].origin = table[i].origin
                       /\ Reviewed(table, o)[i].made = table[i].made
                       /\ table[i].status = "Resolved" => Reviewed(table, o)[i].status = "Resolved"
                       /\ Reviewed(table, o)[i].status = "PendingReview" =>
                             table[i].status = "PendingReview" \/ table[i].origin = o
<1> DEFINE f(i) == IF table[i] # Absent /\ table[i].origin = o /\ table[i].status = "Open"
                   THEN [table[i] EXCEPT !.status = "PendingReview"] ELSE table[i]
<1>1. Reviewed(table, o) = [i \in IssueIds |-> f(i)]
  BY DEF Reviewed
<1>2. ASSUME NEW i \in IssueIds
      PROVE  /\ f(i) \in Issue \cup {Absent}
             /\ f(i) = Absent <=> table[i] = Absent
             /\ table[i] # Absent =>
                   /\ f(i).origin = table[i].origin
                   /\ f(i).made = table[i].made
                   /\ table[i].status = "Resolved" => f(i).status = "Resolved"
                   /\ f(i).status = "PendingReview" =>
                         table[i].status = "PendingReview" \/ table[i].origin = o
  <2>1. CASE table[i] # Absent /\ table[i].origin = o /\ table[i].status = "Open"
    <3>1. table[i] \in Issue
      BY <2>1
    <3>2. /\ f(i) \in Issue
          /\ f(i).origin = table[i].origin
          /\ f(i).made = table[i].made
      BY <2>1, <3>1 DEF Issue, Statuses
    <3>3. f(i) # Absent
      BY <3>2, ReportsAssumption
    <3> QED
      BY <2>1, <3>2, <3>3
  <2>2. CASE ~(table[i] # Absent /\ table[i].origin = o /\ table[i].status = "Open")
    BY <2>2
  <2> QED
    BY <2>1, <2>2
<1> HIDE DEF f
<1> QED
  BY <1>1, <1>2

------------------------------------------------------------------------

LEMMA InitIInv == Init => IInv
<1> SUFFICES ASSUME Init PROVE IInv
  OBVIOUS
<1> USE ReportsAssumption DEF Init, Asleep, Stored, Unissued, DerivedFrom
<1>1. TypeOK
  BY DEF TypeOK
<1>2. SnapshotSound /\ EscalatedAtMostOnce /\ OneIssuePerReport
  BY DEF SnapshotSound, EscalatedAtMostOnce, OneIssuePerReport
<1>3. ReviewAfterEvaluation /\ UnissuedUntouched
  BY DEF ReviewAfterEvaluation, UnissuedUntouched
<1> QED
  BY <1>1, <1>2, <1>3 DEF IInv

\* Whatever the loop is given to do, it holds reports of the given set.
LEMMA DispatchNextType ==
    ASSUME TypeOK, NEW todo \in SUBSET ReportIds, DispatchNext(todo)
    PROVE  /\ scan' \in [current : ReportIds \cup {Absent}, rest : SUBSET ReportIds]
           /\ escalations' \in [ReportIds -> Nat]
<1>1. CASE todo = {} /\ scan' = Asleep /\ UNCHANGED escalations
  BY <1>1 DEF TypeOK, Asleep
<1>2. ASSUME NEW r \in todo, scan' = [current |-> r, rest |-> todo \ {r}],
             escalations' = [escalations EXCEPT ![r] = @ + 1]
      PROVE  /\ scan' \in [current : ReportIds \cup {Absent}, rest : SUBSET ReportIds]
             /\ escalations' \in [ReportIds -> Nat]
  <2>1. r \in ReportIds
    OBVIOUS
  <2>2. scan' \in [current : ReportIds \cup {Absent}, rest : SUBSET ReportIds]
    BY <1>2, <2>1
  <2>3. escalations' \in [ReportIds -> Nat]
    BY <1>2, <2>1 DEF TypeOK
  <2> QED
    BY <2>2, <2>3
<1> QED
  BY <1>1, <1>2 DEF DispatchNext

LEMMA TypeStep == TypeOK /\ [Next]_vars => TypeOK'
<1> SUFFICES ASSUME TypeOK, [Next]_vars PROVE TypeOK'
  OBVIOUS
<1> DEFINE Origins == ReportIds \cup EventIds \cup {Absent, Unknown}
<1>1. ASSUME NEW r \in ReportIds, NEW confident \in BOOLEAN, NEW i \in IssueIds,
             IngestReport(r, confident, i)
      PROVE TypeOK'
  <2>1. issues' \in [IssueIds -> Issue \cup {Absent}]
    BY <1>1, WithIssueType DEF IngestReport, TypeOK
  <2> QED
    BY <1>1, <2>1 DEF IngestReport, TypeOK
<1>2. ASSUME NEW e \in EventIds, NEW active \in BOOLEAN, NEW i \in IssueIds,
             IngestIoTEvent(e, active, i)
      PROVE TypeOK'
  <2>1. issues' \in [IssueIds -> Issue \cup {Absent}]
    BY <1>2, WithIssueType DEF IngestIoTEvent, TypeOK
  <2> QED
    BY <1>2, <2>1 DEF IngestIoTEvent, TypeOK
<1>3. ASSUME NEW o \in Known \cup {Unknown}, EvaluateReport(o)
      PROVE TypeOK'
  <2>1. issues' \in [IssueIds -> Issue \cup {Absent}]
    BY <1>3, ReviewedType DEF EvaluateReport, HandleReportEvaluated, TypeOK
  <2> QED
    BY <1>3, <2>1 DEF EvaluateReport, HandleReportEvaluated, TypeOK
<1>4. ASSUME NEW r \in ReportIds, NEW i \in IssueIds, ApproveReport(r, i)
      PROVE TypeOK'
  <2>1. WithIssue(i, r, "approval") \in [IssueIds -> Issue \cup {Absent}]
    BY WithIssueType
  <2>2. issues' \in [IssueIds -> Issue \cup {Absent}]
    BY <1>4, <2>1, ReviewedType DEF ApproveReport, HandleReportEvaluated, TypeOK
  <2> QED
    BY <1>4, <2>2 DEF ApproveReport, HandleReportEvaluated, TypeOK
<1>5. ASSUME NEW i \in IssueIds, NEW o \in Known \cup {Absent, Unknown}, CreateIssue(i, o)
      PROVE TypeOK'
  <2>1. o \in Origins
    BY DEF Known, Stored, TypeOK
  <2>2. issues' \in [IssueIds -> Issue \cup {Absent}]
    BY <1>5, <2>1, WithIssueType DEF CreateIssue
  <2> QED
    BY <1>5, <2>2 DEF CreateIssue, TypeOK
<1>6. ASSUME NEW i \in IssueIds, NEW action \in {"accept", "reject"}, ReviewIssue(i, action)
      PROVE TypeOK'
  <2>1. issues' \in [IssueIds -> Issue \cup {Absent}]
    BY <1>6 DEF ReviewIssue, TypeOK, Issue, Statuses, Stored
  <2> QED
    BY <1>6, <2>1 DEF ReviewIssue, TypeOK
<1>7. ASSUME NEW i \in IssueIds, ResolveIssue(i)
      PROVE TypeOK'
  <2>1. issues' \in [IssueIds -> Issue \cup {Absent}]
    BY <1>7 DEF ResolveIssue, TypeOK, Issue, Statuses, Stored
  <2> QED
    BY <1>7, <2>1 DEF ResolveIssue, TypeOK
<1>8. ASSUME NEW r \in ReportIds, BecomeOverdue(r)
      PROVE TypeOK'
  BY <1>8 DEF BecomeOverdue, TypeOK
<1>9. ASSUME ScanBegins
      PROVE TypeOK'
  BY <1>9, DispatchNextType DEF ScanBegins, TypeOK
<1>10. ASSUME EscalationSent
       PROVE TypeOK'
  <2>1. scan.rest \in SUBSET ReportIds /\ scan.current \in ReportIds
    BY <1>10 DEF EscalationSent, TypeOK
  <2> QED
    BY <1>10, <2>1, DispatchNextType DEF EscalationSent, TypeOK
<1>11. CASE UNCHANGED vars
  BY <1>11 DEF vars, TypeOK
<1> QED
  BY <1>1, <1>2, <1>3, <1>4, <1>5, <1>6, <1>7, <1>8, <1>9, <1>10, <1>11 DEF Next

-----------------------------------------------------------------------------
(***************************************************************************)
(* What a step does to the table of issues, in the two halves the          *)
(* invariants need: an issue there is keeps who made it and out of what,   *)
(* and waits for review only if it did or its report left the queue; an    *)
(* issue that appears is the only one to appear, derives from a stored     *)
(* report or from none, and from one without issues if the code made it.   *)
(***************************************************************************)
OldIssues ==
    \A i \in Stored(issues) :
       /\ i \in Stored(issues')
       /\ issues'[i].origin = issues[i].origin
       /\ issues'[i].made = issues[i].made
       /\ issues[i].status = "Resolved" => issues'[i].status = "Resolved"
       /\ issues'[i].status = "PendingReview" /\ issues[i].origin \in ReportIds =>
             issues[i].status = "PendingReview" \/ pending'[issues[i].origin] = "no"

NewIssue(i) ==
    LET o == issues'[i].origin IN
       /\ o \in ReportIds => o \in Stored(reports')
       /\ issues'[i].made \in {"report", "approval"} => DerivedFrom(o) = {}
       /\ issues'[i].status = "PendingReview" /\ o \in ReportIds => pending'[o] = "no"

NewIssues ==
    \A i \in Stored(issues') \ Stored(issues) :
       NewIssue(i) /\ \A j \in Stored(issues') \ Stored(issues) : i = j

LEMMA IssuesUnchanged ==
    ASSUME TypeOK, UNCHANGED issues
    PROVE  OldIssues /\ NewIssues
  BY DEF OldIssues, NewIssues, Stored

\* A step that stores a new Open issue and leaves the others alone.
LEMMA IssueCreated ==
    ASSUME TypeOK, NEW i \in Unissued(issues),
           NEW o \in ReportIds \cup EventIds \cup {Absent, Unknown},
           NEW made \in {"client", "event", "report", "approval"},
           issues' = WithIssue(i, o, made),
           o \in ReportIds => o \in Stored(reports'),
           made \in {"report", "approval"} => DerivedFrom(o) = {}
    PROVE  OldIssues /\ NewIssues
<1>1. i \in IssueIds /\ issues[i] = Absent
  BY DEF Unissued, Stored, TypeOK
<1>2. /\ issues' \in [IssueIds -> Issue \cup {Absent}]
      /\ issues'[i].origin = o
      /\ issues'[i].status = "Open"
      /\ issues'[i].made = made
      /\ issues'[i] # Absent
      /\ \A j \in IssueIds \ {i} : issues'[j] = issues[j]
  BY <1>1, WithIssueType
<1>3. DOMAIN issues = IssueIds /\ DOMAIN issues' = IssueIds
  BY <1>2 DEF TypeOK
<1>4. OldIssues
  BY <1>1, <1>2, <1>3 DEF OldIssues, Stored
<1>5. Stored(issues') \ Stored(issues) = {i}
  BY <1>1, <1>2, <1>3 DEF Stored
<1>6. NewIssue(i)
  BY <1>2 DEF NewIssue
<1> QED
  BY <1>4, <1>5, <1>6 DEF NewIssues

LEMMA IssuesStep == TypeOK /\ UnissuedUntouched /\ [Next]_vars => OldIssues /\ NewIssues
<1> SUFFICES ASSUME TypeOK, UnissuedUntouched, [Next]_vars PROVE OldIssues /\ NewIssues
  OBVIOUS
<1>0. /\ DOMAIN issues = IssueIds /\ DOMAIN reports = ReportIds
      /\ issues \in [IssueIds -> Issue \cup {Absent}]
  BY DEF TypeOK
<1>1. ASSUME NEW r \in ReportIds, NEW confident \in BOOLEAN, NEW i \in IssueIds,
             IngestReport(r, confident, i)
      PROVE OldIssues /\ NewIssues
  <2>1. CASE UNCHANGED issues
    BY <2>1, IssuesUnchanged
  <2>2. CASE confident /\ i \in Unissued(issues) /\ issues' = WithIssue(i, r, "report")
    <3>1. r \in Stored(reports')
      BY <1>1, <2>2, ReportsAssumption DEF IngestReport, Stored, TypeOK
    <3>2. DerivedFrom(r) = {}
      BY <1>1 DEF IngestReport, UnissuedUntouched
    <3> QED
      BY <2>2, <3>1, <3>2, IssueCreated
  <2> QED
    BY <1>1, <2>1, <2>2 DEF IngestReport
<1>2. ASSUME NEW e \in EventIds, NEW active \in BOOLEAN, NEW i \in IssueIds,
             IngestIoTEvent(e, active, i)
      PROVE OldIssues /\ NewIssues
  <2>1. CASE UNCHANGED issues
    BY <2>1, IssuesUnchanged
  <2>2. CASE i \in Unissued(issues) /\ issues' = WithIssue(i, e, "event")
    BY <2>2, IssueCreated, ReportsAssumption
  <2> QED
    BY <1>2, <2>1, <2>2 DEF IngestIoTEvent
<1>3. ASSUME NEW o \in Known \cup {Unknown}, EvaluateReport(o)
      PROVE OldIssues /\ NewIssues
  <2>1. /\ issues' = Reviewed(issues, o)
        /\ \A r \in ReportIds : r = o => pending'[r] = "no"
    BY <1>3 DEF EvaluateReport, HandleReportEvaluated
  <2>2. issues' \in [IssueIds -> Issue \cup {Absent}]
    BY <1>0, <2>1, ReviewedType
  <2>3. Stored(issues') = Stored(issues)
    BY <1>0, <2>1, <2>2, ReviewedType DEF Stored
  <2>4. OldIssues
    BY <1>0, <2>1, <2>3, ReviewedType DEF OldIssues, Stored
  <2> QED
    BY <2>3, <2>4 DEF NewIssues
<1>4. ASSUME NEW r \in ReportIds, NEW i \in IssueIds, ApproveReport(r, i)
      PROVE OldIssues /\ NewIssues
  <2>0. \A q \in ReportIds : q = r => pending'[q] = "no"
    BY <1>4 DEF ApproveReport, HandleReportEvaluated
  <2>1. CASE issues' = Reviewed(issues, r)
    <3>1. issues' \in [IssueIds -> Issue \cup {Absent}]
      BY <1>0, <2>1, ReviewedType
    <3>2. Stored(issues') = Stored(issues)
      BY <1>0, <2>1, <3>1, ReviewedType DEF Stored
    <3>3. OldIssues
      BY <1>0, <2>0, <2>1, <3>2, ReviewedType DEF OldIssues, Stored
    <3> QED
      BY <3>2, <3>3 DEF NewIssues
  <2>2. CASE /\ DerivedFrom(r) = {} /\ i \in Unissued(issues)
             /\ issues' = Reviewed(WithIssue(i, r, "approval"), r)
    <3> DEFINE table == WithIssue(i, r, "approval")
    <3>1. /\ table \in [IssueIds -> Issue \cup {Absent}]
          /\ table[i].origin = r
          /\ table[i] # Absent
          /\ \A j \in IssueIds \ {i} : table[j] = issues[j]
      BY WithIssueType
    <3>2. issues' = Reviewed(table, r)
      BY <2>2
    <3> HIDE DEF table
    <3>3. /\ issues' \in [IssueIds -> Issue \cup {Absent}]
          /\ \A j \in IssueIds :
                /\ issues'[j] = Absent <=> table[j] = Absent
                /\ table[j] # Absent =>
                      /\ issues'[j].origin = table[j].origin
                      /\ issues'[j].made = table[j].made
                      /\ table[j].status = "Resolved" => issues'[j].status = "Resolved"
                      /\ issues'[j].status = "PendingReview" =>
                            table[j].status = "PendingReview" \/ table[j].origin = r
      BY <3>1, <3>2, ReviewedType
    <3>4. issues[i] = Absent
      BY <2>2 DEF Unissued, Stored
    <3>5. OldIssues
      BY <1>0, <2>0, <3>1, <3>3, <3>4 DEF OldIssues, Stored
    <3>6. Stored(issues') \ Stored(issues) = {i}
      BY <1>0, <3>1, <3>3, <3>4 DEF Stored
    <3>7. issues'[i].origin = r
      BY <3>1, <3>3
    <3>8. r \in Stored(reports')
      BY <1>4 DEF ApproveReport, Stored
    <3>9. NewIssue(i)
      BY <2>0, <2>2, <3>7, <3>8 DEF NewIssue
    <3> QED
      BY <3>5, <3>6, <3>9 DEF NewIssues
  <2> QED
    BY <1>4, <2>1, <2>2 DEF ApproveReport, HandleReportEvaluated
<1>5. ASSUME NEW i \in IssueIds, NEW o \in Known \cup {Absent, Unknown}, CreateIssue(i, o)
      PROVE OldIssues /\ NewIssues
  <2>1. o \in ReportIds \cup EventIds \cup {Absent, Unknown}
    BY DEF Known, Stored, TypeOK
  <2>2. o \in ReportIds => o \in Stored(reports')
    BY <1>5, ReportsAssumption DEF CreateIssue, Known, Stored, TypeOK
  <2> QED
    BY <1>5, <2>1, <2>2, IssueCreated DEF CreateIssue
<1>6. ASSUME NEW i \in IssueIds, NEW status \in Statuses \ {"PendingReview"},
             i \in Stored(issues), issues[i].status = "Resolved" => status = "Resolved",
             issues' = [issues EXCEPT ![i].status = status]
      PROVE OldIssues /\ NewIssues
  <2>1. issues[i] \in Issue
    BY <1>0, <1>6 DEF Stored
  <2>2. /\ issues'[i] \in Issue
        /\ issues'[i].origin = issues[i].origin
        /\ issues'[i].made = issues[i].made
        /\ issues'[i].status = status
        /\ \A j \in IssueIds \ {i} : issues'[j] = issues[j]
        /\ DOMAIN issues' = IssueIds
    BY <1>0, <1>6, <2>1 DEF Issue
  <2>3. issues[i] # Absent /\ issues'[i] # Absent
    BY <2>1, <2>2, ReportsAssumption
  <2>4. Stored(issues') = Stored(issues)
    BY <1>0, <2>2, <2>3 DEF Stored
  <2>5. OldIssues
    BY <1>0, <1>6, <2>2, <2>4 DEF OldIssues, Stored
  <2> QED
    BY <2>4, <2>5 DEF NewIssues
<1>7. ASSUME NEW i \in IssueIds, NEW action \in {"accept", "reject"}, ReviewIssue(i, action)
      PROVE OldIssues /\ NewIssues
  <2> DEFINE status == IF action = "accept" THEN "UnderReview" ELSE "Open"
  <2>1. status \in Statuses \ {"PendingReview"}
    BY DEF Statuses
  <2>2. /\ i \in Stored(issues) /\ issues[i].status # "Resolved"
        /\ issues' = [issues EXCEPT ![i].status = status]
    BY <1>7 DEF ReviewIssue
  <2> HIDE DEF status
  <2> QED
    BY <1>6, <2>1, <2>2
<1>8. ASSUME NEW i \in IssueIds, ResolveIssue(i)
      PROVE OldIssues /\ NewIssues
  BY <1>6, <1>8 DEF ResolveIssue, Statuses
<1>9. CASE (\E r \in ReportIds : BecomeOverdue(r)) \/ ScanBegins \/ EscalationSent
           \/ UNCHANGED vars
  BY <1>9, IssuesUnchanged DEF BecomeOverdue, ScanBegins, EscalationSent, vars
<1> QED
  BY <1>1, <1>2, <1>3, <1>4, <1>5, <1>7, <1>8, <1>9 DEF Next

-----------------------------------------------------------------------------
\* Reports are never forgotten, and one enters the queue only when it is new.
LEMMA QueueStep ==
    ASSUME TypeOK, [Next]_vars
    PROVE  /\ Stored(reports) \subseteq Stored(reports')
           /\ \A r \in ReportIds : pending[r] = "no" =>
                 pending'[r] = "no" \/ r \in Unissued(reports)
<1>1. /\ DOMAIN reports = ReportIds
      /\ pending \in [ReportIds -> {"no", "fresh", "overdue"}]
      /\ reports \in [ReportIds -> BOOLEAN \cup {Absent}]
  BY DEF TypeOK
<1>2. ASSUME NEW r \in ReportIds, NEW confident \in BOOLEAN, NEW i \in IssueIds,
             IngestReport(r, confident, i)
      PROVE  /\ Stored(reports) \subseteq Stored(reports')
             /\ \A q \in ReportIds : pending[q] = "no" =>
                   pending'[q] = "no" \/ q \in Unissued(reports)
  BY <1>1, <1>2 DEF IngestReport, Stored, Unissued
<1>3. CASE \/ \E e \in EventIds, active \in BOOLEAN, i \in IssueIds : IngestIoTEvent(e, active, i)
           \/ \E i \in IssueIds, o \in Known \cup {Absent, Unknown} : CreateIssue(i, o)
           \/ \E i \in IssueIds, action \in {"accept", "reject"} : ReviewIssue(i, action)
           \/ \E i \in IssueIds : ResolveIssue(i)
           \/ ScanBegins
           \/ UNCHANGED vars
  BY <1>3 DEF IngestIoTEvent, CreateIssue, ReviewIssue, ResolveIssue, ScanBegins, vars
<1>4. CASE \/ \E o \in Known \cup {Unknown} : EvaluateReport(o)
           \/ \E r \in ReportIds, i \in IssueIds : ApproveReport(r, i)
  BY <1>1, <1>4 DEF EvaluateReport, ApproveReport, HandleReportEvaluated
<1>5. CASE (\E r \in ReportIds : BecomeOverdue(r)) \/ EscalationSent
  BY <1>1, <1>5 DEF BecomeOverdue, EscalationSent
<1> QED
  BY <1>2, <1>3, <1>4, <1>5 DEF Next

LEMMA OneIssueStep ==
    ASSUME OneIssuePerReport, OldIssues, NewIssues
    PROVE  OneIssuePerReport'
<1> SUFFICES ASSUME NEW r \in ReportIds,
                    NEW i \in Stored(issues'), NEW j \in Stored(issues'),
                    issues'[i].origin = r, issues'[j].origin = r,
                    issues'[i].made \in {"report", "approval"},
                    issues'[j].made \in {"report", "approval"}
             PROVE  i = j
  BY DEF OneIssuePerReport, DerivedFrom
<1>1. CASE i \in Stored(issues) /\ j \in Stored(issues)
  BY <1>1 DEF OneIssuePerReport, OldIssues, DerivedFrom
<1>2. CASE i \notin Stored(issues) /\ j \notin Stored(issues)
  BY <1>2 DEF NewIssues
<1>3. CASE i \notin Stored(issues) /\ j \in Stored(issues)
  BY <1>3 DEF NewIssues, NewIssue, OldIssues, DerivedFrom
<1>4. CASE i \in Stored(issues) /\ j \notin Stored(issues)
  BY <1>4 DEF NewIssues, NewIssue, OldIssues, DerivedFrom
<1> QED
  BY <1>1, <1>2, <1>3, <1>4

LEMMA ReviewStep ==
    ASSUME TypeOK, ReviewAfterEvaluation, UnissuedUntouched, OldIssues, NewIssues, [Next]_vars
    PROVE  ReviewAfterEvaluation'
<1> SUFFICES ASSUME NEW i \in Stored(issues'), issues'[i].status = "PendingReview",
                    issues'[i].origin \in ReportIds
             PROVE  pending'[issues'[i].origin] = "no"
  BY DEF ReviewAfterEvaluation
<1>1. CASE i \notin Stored(issues)
  BY <1>1 DEF NewIssues, NewIssue
<1>2. CASE i \in Stored(issues)
  <2>1. issues'[i].origin = issues[i].origin
    BY <1>2 DEF OldIssues
  <2>2. CASE pending'[issues[i].origin] = "no"
    BY <2>1, <2>2
  <2>3. CASE issues[i].status = "PendingReview"
    <3>1. pending[issues[i].origin] = "no"
      BY <1>2, <2>1, <2>3 DEF ReviewAfterEvaluation
    <3>2. issues[i].origin \notin Unissued(reports)
      BY <1>2 DEF UnissuedUntouched, DerivedFrom
    <3> QED
      BY <2>1, <3>1, <3>2, QueueStep
  <2> QED
    BY <1>2, <2>1, <2>2, <2>3 DEF OldIssues
<1> QED
  BY <1>1, <1>2

-----------------------------------------------------------------------------
\* The last part of SnapshotSound: how a report may have left the queue.
Accounted ==
    \A r \in Stored(reports) : pending[r] = "no" => escalations[r] > 0 \/ r \in evaluated

LEMMA AccountedStep ==
    ASSUME TypeOK, TypeOK', SnapshotSound, [Next]_vars
    PROVE  Accounted'
<1> USE DEF TypeOK
<1>0. Accounted
  BY DEF SnapshotSound, Accounted
<1>1. ASSUME NEW todo \in SUBSET ReportIds, DispatchNext(todo), NEW r \in ReportIds
      PROVE  escalations'[r] >= escalations[r] /\ escalations'[r] \in Nat
  BY <1>1 DEF DispatchNext
<1>2. CASE ScanBegins
  <2> DEFINE todo == {r \in ReportIds : pending[r] = "overdue"}
  <2>1. DispatchNext(todo) /\ UNCHANGED <<reports, pending, evaluated>>
    BY <1>2 DEF ScanBegins
  <2>2. \A r \in ReportIds : escalations'[r] >= escalations[r]
    <3> HIDE DEF todo
    <3>1. todo \in SUBSET ReportIds
      BY DEF todo
    <3> QED
      BY <1>1, <2>1, <3>1
  <2> QED
    BY <1>0, <2>1, <2>2 DEF Accounted, Stored
<1>3. CASE EscalationSent
  <2>1. /\ scan.rest \in SUBSET ReportIds /\ scan.current \in ReportIds /\ DispatchNext(scan.rest)
        /\ escalations[scan.current] = 1 /\ UNCHANGED <<reports, evaluated>>
        /\ \A r \in ReportIds \ {scan.current} : pending'[r] = pending[r]
    BY <1>3 DEF EscalationSent, SnapshotSound
  <2>2. \A r \in ReportIds : escalations'[r] >= escalations[r]
    BY <1>1, <2>1
  <2>3. escalations'[scan.current] > 0
    BY <1>1, <2>1, <2>2
  <2> QED
    BY <1>0, <2>1, <2>2, <2>3 DEF Accounted, Stored
<1>4. ASSUME NEW q \in ReportIds, NEW confident \in BOOLEAN, NEW i \in IssueIds,
             IngestReport(q, confident, i)
      PROVE  Accounted'
  BY <1>0, <1>4 DEF IngestReport, Accounted, Stored
<1>5. CASE \/ \E o \in Known \cup {Unknown} : EvaluateReport(o)
           \/ \E q \in ReportIds, i \in IssueIds : ApproveReport(q, i)
  BY <1>0, <1>5 DEF EvaluateReport, ApproveReport, HandleReportEvaluated, Accounted, Stored
<1>6. CASE \E q \in ReportIds : BecomeOverdue(q)
  BY <1>0, <1>6 DEF BecomeOverdue, Accounted, Stored
<1>7. CASE UNCHANGED <<reports, pending, escalations, evaluated>>
  BY <1>0, <1>7 DEF Accounted, Stored
<1> QED
  BY <1>2, <1>3, <1>4, <1>5, <1>6, <1>7 DEF Next, IngestIoTEvent, CreateIssue, ReviewIssue,
     ResolveIssue, vars

-----------------------------------------------------------------------------
\* Who is in the hands of escalation_loop after it dispatched the next of todo,
\* when nobody of todo was escalated before and nobody else is in the queue
\* after having been escalated.
LEMMA DispatchNextSound ==
    ASSUME TypeOK, TypeOK', EscalatedAtMostOnce, Accounted', NEW todo \in SUBSET ReportIds, DispatchNext(todo),
           \A r \in todo : escalations[r] = 0 /\ pending'[r] # "fresh",
           \A r \in ReportIds : pending'[r] # "no" => escalations[r] = 0
    PROVE  SnapshotSound' /\ EscalatedAtMostOnce'
<1>1. CASE todo = {} /\ scan' = Asleep /\ UNCHANGED escalations
  <2>1. scan'.current = Absent /\ scan'.rest = {}
    BY <1>1 DEF Asleep
  <2>2. EscalatedAtMostOnce'
    BY <1>1 DEF EscalatedAtMostOnce
  <2>3. SnapshotSound'
    BY <1>1, <2>1 DEF SnapshotSound, Accounted, TypeOK
  <2> QED
    BY <2>2, <2>3
<1>2. ASSUME NEW r \in todo, scan' = [current |-> r, rest |-> todo \ {r}],
             escalations' = [escalations EXCEPT ![r] = @ + 1]
      PROVE  SnapshotSound' /\ EscalatedAtMostOnce'
  <2>1. scan'.current = r /\ scan'.rest = todo \ {r}
    BY <1>2
  <2>2. /\ escalations'[r] = 1
        /\ \A q \in ReportIds \ {r} : escalations'[q] = escalations[q]
    BY <1>2 DEF TypeOK
  <2>3. EscalatedAtMostOnce'
    BY <2>2 DEF EscalatedAtMostOnce
  <2>4. SnapshotSound'
    BY <2>1, <2>2 DEF SnapshotSound, Accounted
  <2> QED
    BY <2>3, <2>4
<1> QED
  BY <1>1, <1>2 DEF DispatchNext

LEMMA SnapshotStep ==
    ASSUME TypeOK, TypeOK', SnapshotSound, EscalatedAtMostOnce, UnissuedUntouched, [Next]_vars
    PROVE  SnapshotSound' /\ EscalatedAtMostOnce'
<1>0. Accounted'
  BY AccountedStep
<1>1. CASE ScanBegins
  <2> DEFINE todo == {r \in ReportIds : pending[r] = "overdue"}
  <2>1. scan.current = Absent /\ UNCHANGED pending /\ DispatchNext(todo)
    BY <1>1 DEF ScanBegins, Asleep
  <2>2. \A r \in ReportIds : pending[r] # "no" => escalations[r] = 0
    BY <2>1, ReportsAssumption DEF SnapshotSound, TypeOK
  <2> QED
    BY <1>0, <2>1, <2>2, DispatchNextSound
<1>2. CASE EscalationSent
  <2>1. scan.rest \in SUBSET ReportIds /\ scan.current \in ReportIds
    BY <1>2 DEF EscalationSent, TypeOK
  <2>2. /\ pending'[scan.current] = "no"
        /\ \A r \in ReportIds \ {scan.current} : pending'[r] = pending[r]
        /\ DispatchNext(scan.rest)
    BY <1>2, <2>1 DEF EscalationSent, TypeOK
  <2>3. \A r \in scan.rest : escalations[r] = 0 /\ pending'[r] # "fresh"
    BY <2>1, <2>2 DEF SnapshotSound
  <2>4. \A r \in ReportIds : pending'[r] # "no" => escalations[r] = 0
    BY <2>1, <2>2 DEF SnapshotSound, TypeOK
  <2> QED
    BY <1>0, <2>1, <2>2, <2>3, <2>4, DispatchNextSound
<1>3. ASSUME UNCHANGED <<scan, escalations>>,
             \A r \in ReportIds :
                \/ pending'[r] = pending[r] \/ pending'[r] = "no"
                \/ pending[r] = "fresh" /\ pending'[r] = "overdue"
                \/ r \in Unissued(reports)
      PROVE  SnapshotSound' /\ EscalatedAtMostOnce'
  <2>1. EscalatedAtMostOnce'
    BY <1>3 DEF EscalatedAtMostOnce
  <2>2. \A r \in scan.rest : pending'[r] # "fresh"
    BY <1>3 DEF SnapshotSound, UnissuedUntouched, TypeOK
  <2>3. \A r \in ReportIds : pending'[r] # "no" /\ escalations[r] > 0 => r = scan.current
    BY <1>3 DEF SnapshotSound, UnissuedUntouched, TypeOK
  <2>4. SnapshotSound'
    BY <1>0, <1>3, <2>2, <2>3 DEF SnapshotSound, Accounted
  <2> QED
    BY <2>1, <2>4
<1>4. ASSUME NEW r \in ReportIds, NEW confident \in BOOLEAN, NEW i \in IssueIds,
             IngestReport(r, confident, i)
      PROVE  SnapshotSound' /\ EscalatedAtMostOnce'
  BY <1>3, <1>4 DEF IngestReport, TypeOK
<1>5. CASE \/ \E e \in EventIds, active \in BOOLEAN, i \in IssueIds : IngestIoTEvent(e, active, i)
           \/ \E i \in IssueIds, o \in Known \cup {Absent, Unknown} : CreateIssue(i, o)
           \/ \E i \in IssueIds, action \in {"accept", "reject"} : ReviewIssue(i, action)
           \/ \E i \in IssueIds : ResolveIssue(i)
           \/ UNCHANGED vars
  <2>1. UNCHANGED <<pending, scan, escalations>>
    BY <1>5 DEF IngestIoTEvent, CreateIssue, ReviewIssue, ResolveIssue, vars
  <2> QED
    BY <1>3, <2>1
<1>6. CASE \/ \E o \in Known \cup {Unknown} : EvaluateReport(o)
           \/ \E r \in ReportIds, i \in IssueIds : ApproveReport(r, i)
  BY <1>3, <1>6 DEF EvaluateReport, ApproveReport, HandleReportEvaluated
<1>7. ASSUME NEW r \in ReportIds, BecomeOverdue(r)
      PROVE  SnapshotSound' /\ EscalatedAtMostOnce'
  BY <1>3, <1>7 DEF BecomeOverdue, TypeOK
<1> QED
  BY <1>1, <1>2, <1>4, <1>5, <1>6, <1>7 DEF Next

LEMMA DispatchNextUntouched ==
    ASSUME TypeOK, NEW todo \in SUBSET ReportIds, DispatchNext(todo), NEW r \in ReportIds \ todo
    PROVE  escalations'[r] = escalations[r] /\ r # scan'.current /\ r \notin scan'.rest
<1>1. CASE todo = {} /\ scan' = Asleep /\ UNCHANGED escalations
  BY <1>1, ReportsAssumption DEF Asleep
<1>2. ASSUME NEW q \in todo, scan' = [current |-> q, rest |-> todo \ {q}],
             escalations' = [escalations EXCEPT ![q] = @ + 1]
      PROVE  escalations'[r] = escalations[r] /\ r # scan'.current /\ r \notin scan'.rest
  BY <1>2 DEF TypeOK
<1> QED
  BY <1>1, <1>2 DEF DispatchNext

LEMMA UnissuedStep ==
    ASSUME TypeOK, UnissuedUntouched, OldIssues, NewIssues, [Next]_vars
    PROVE  UnissuedUntouched'
<1> SUFFICES ASSUME NEW r \in Unissued(reports')
             PROVE  /\ pending'[r] = "no"
                    /\ escalations'[r] = 0
                    /\ r # scan'.current /\ r \notin scan'.rest
                    /\ DerivedFrom(r)' = {}
  BY DEF UnissuedUntouched
<1>0. r \in Unissued(reports) /\ r \in ReportIds
  <2>1. DOMAIN reports' = DOMAIN reports /\ DOMAIN reports = ReportIds
    BY TypeStep DEF TypeOK
  <2> QED
    BY <2>1, QueueStep DEF Unissued
<1>1. /\ pending[r] = "no" /\ escalations[r] = 0
      /\ r # scan.current /\ r \notin scan.rest
      /\ DerivedFrom(r) = {}
  BY <1>0 DEF UnissuedUntouched
<1>2. DerivedFrom(r)' = {}
  BY <1>0, <1>1 DEF DerivedFrom, OldIssues, NewIssues, NewIssue, Unissued
<1>3. ASSUME NEW q \in ReportIds, NEW confident \in BOOLEAN, NEW i \in IssueIds,
             IngestReport(q, confident, i)
      PROVE  r # q /\ pending'[r] = "no"
  <2>1. r # q
    BY <1>0, <1>3, ReportsAssumption DEF IngestReport, Unissued, Stored, TypeOK
  <2> QED
    BY <1>0, <1>1, <1>3, <2>1 DEF IngestReport, TypeOK
<1>4. pending'[r] = "no"
  <2>1. CASE \/ \E e \in EventIds, active \in BOOLEAN, i \in IssueIds : IngestIoTEvent(e, active, i)
             \/ \E i \in IssueIds, o \in Known \cup {Absent, Unknown} : CreateIssue(i, o)
             \/ \E i \in IssueIds, action \in {"accept", "reject"} : ReviewIssue(i, action)
             \/ \E i \in IssueIds : ResolveIssue(i)
             \/ ScanBegins
             \/ UNCHANGED vars
    BY <1>1, <2>1 DEF IngestIoTEvent, CreateIssue, ReviewIssue, ResolveIssue, ScanBegins, vars
  <2>2. CASE \/ \E o \in Known \cup {Unknown} : EvaluateReport(o)
             \/ \E q \in ReportIds, i \in IssueIds : ApproveReport(q, i)
    BY <1>0, <1>1, <2>2 DEF EvaluateReport, ApproveReport, HandleReportEvaluated
  <2>3. CASE (\E q \in ReportIds : BecomeOverdue(q)) \/ EscalationSent
    BY <1>0, <1>1, <2>3 DEF BecomeOverdue, EscalationSent, TypeOK
  <2> QED
    BY <1>3, <2>1, <2>2, <2>3 DEF Next
<1>5. escalations'[r] = 0 /\ r # scan'.current /\ r \notin scan'.rest
  <2>1. CASE ScanBegins
    <3> DEFINE todo == {q \in ReportIds : pending[q] = "overdue"}
    <3>1. DispatchNext(todo) /\ r \notin todo
      BY <1>1, <2>1 DEF ScanBegins
    <3> HIDE DEF todo
    <3>2. todo \in SUBSET ReportIds
      BY DEF todo
    <3> QED
      BY <1>0, <1>1, <3>1, <3>2, DispatchNextUntouched
  <2>2. CASE EscalationSent
    <3>1. scan.rest \in SUBSET ReportIds /\ DispatchNext(scan.rest)
      BY <2>2 DEF EscalationSent, TypeOK
    <3> QED
      BY <1>0, <1>1, <3>1, DispatchNextUntouched
  <2>3. CASE UNCHANGED <<scan, escalations>>
    BY <1>1, <2>3
  <2> QED
    BY <2>1, <2>2, <2>3 DEF Next, IngestReport, IngestIoTEvent, EvaluateReport, ApproveReport,
       CreateIssue, ReviewIssue, ResolveIssue, BecomeOverdue, vars
<1> QED
  BY <1>2, <1>4, <1>5

LEMMA InductiveStep == IInv /\ [Next]_vars => IInv'
<1> SUFFICES ASSUME IInv, [Next]_vars PROVE IInv'
  OBVIOUS
<1>1. TypeOK'
  BY TypeStep DEF IInv
<1>2. OldIssues /\ NewIssues
  BY IssuesStep DEF IInv
<1>3. SnapshotSound' /\ EscalatedAtMostOnce'
  BY <1>1, SnapshotStep DEF IInv
<1>4. OneIssuePerReport'
  BY <1>2, OneIssueStep DEF IInv
<1>5. ReviewAfterEvaluation'
  BY <1>2, ReviewStep DEF IInv
<1>6. UnissuedUntouched'
  BY <1>2, UnissuedStep DEF IInv
<1> QED
  BY <1>1, <1>3, <1>4, <1>5, <1>6 DEF IInv

-----------------------------------------------------------------------------
\* The invariant holds in every reachable state, for any number of reports,
\* events and issues.
THEOREM Invariance == Spec => []IInv
  BY InitIInv, InductiveStep, PTL DEF Spec

\* The dictionaries of routes/obs.py and routes/issues.py keep their types.
THEOREM TypeCorrect == Spec => []TypeOK
<1>1. IInv => TypeOK
  BY DEF IInv
<1> QED
  BY <1>1, Invariance, PTL

\* escalation_loop dispatches an alarm for a report at most once.
THEOREM NeverEscalatedTwice == Spec => []EscalatedAtMostOnce
<1>1. IInv => EscalatedAtMostOnce
  BY DEF IInv
<1> QED
  BY <1>1, Invariance, PTL

\* escalation_loop's snapshot stays usable while its dispatches are awaited.
THEOREM SnapshotAlwaysSound == Spec => []SnapshotSound
<1>1. IInv => SnapshotSound
  BY DEF IInv
<1> QED
  BY <1>1, Invariance, PTL

\* handle_report_created and approve_report make one issue of a report between them.
THEOREM NeverTwoIssues == Spec => []OneIssuePerReport
<1>1. IInv => OneIssuePerReport
  BY DEF IInv
<1> QED
  BY <1>1, Invariance, PTL

\* An issue of a report waits for review only after handle_report_evaluated.
THEOREM ReviewedOnceEvaluated == Spec => []ReviewAfterEvaluation
<1>1. IInv => ReviewAfterEvaluation
  BY DEF IInv
<1> QED
  BY <1>1, Invariance, PTL

\* No handler reopens a Resolved issue, loses an issue or changes its origin.
THEOREM ResolvedStays == Spec => ResolvedFinal
<1>1. IInv /\ [Next]_vars => [IssuesKept]_vars
  BY IssuesStep DEF IInv, OldIssues, IssuesKept
<1> QED
  BY <1>1, Invariance, PTL DEF Spec, ResolvedFinal

=============================================================================

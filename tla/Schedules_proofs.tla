-------------------------- MODULE Schedules_proofs --------------------------
EXTENDS Chains, TLAPS

(***************************************************************************)
(* Whether the next chain of a schedule comes too early depends on its     *)
(* dates, which lag behind while the loop is suspended.  The invariant     *)
(* spaces the cycles that make chains; it adds DatesHonest and DueStaysDue,*)
(* and that no such cycle began later than now, nor later than the cycle   *)
(* that holds its schedule.  When a chain is made is then bounded by the   *)
(* cycles: its own began before, the next one after.                       *)
(***************************************************************************)
CyclesSpaced ==
    \A s \in ScheduleIds : \A i, j \in DOMAIN triggers[s] :
       i < j /\ NextAfter(s, triggers[s][i]) <= MaxDate =>
          triggers[s][j] >= NextAfter(s, triggers[s][i])

InHand ==
    LET s == cycle.current IN s # Never =>
       /\ schedules[s] # Never
       /\ triggers[s] # <<>>
       /\ triggers[s][Len(triggers[s])] = cycle.now

Past ==
    /\ cycle.now <= clock
    /\ \A s \in ScheduleIds : \A i \in DOMAIN triggers[s] :
          /\ triggers[s][i] <= clock
          /\ s \in cycle.due => triggers[s][i] <= cycle.now

Unmade ==
    /\ \A s \in ScheduleIds : schedules[s] = Never => triggers[s] = <<>>
    /\ \A s \in registered : schedules[s] # Never

InTurn ==
    \A s \in ScheduleIds :
       /\ Len(issued[s]) = Len(triggers[s])
       /\ \A i \in 1 .. Len(triggers[s]) : triggers[s][i] <= issued[s][i] /\ issued[s][i] <= clock
       /\ \A i, j \in 1 .. Len(triggers[s]) : i < j => issued[s][i] <= triggers[s][j]

\* What is made for the schedules of due is made before now.
MadeBefore(due, now) == \A s \in due : \A i \in 1 .. Len(triggers[s]) : issued[s][i] <= now

IssuedInTurn == InTurn /\ MadeBefore(cycle.due, cycle.now)

IInv ==
    /\ TypeOK
    /\ IssuedInTurn
    /\ CyclesSpaced
    /\ DatesHonest
    /\ DueStaysDue
    /\ InHand
    /\ Past
    /\ Unmade

-----------------------------------------------------------------------------

LEMMA InitIInv == Init => IInv
<1> SUFFICES ASSUME Init PROVE IInv
  OBVIOUS
<1>1. /\ \A s \in ScheduleIds : triggers[s] = <<>> /\ schedules[s] = Never
      /\ cycle.current = Never /\ cycle.due = {} /\ cycle.now = 0
      /\ registered = {} /\ clock = 0
  BY DEF Init, Asleep
<1>2. TypeOK
  BY SchedulesAssumption DEF Init, TypeOK, Asleep
<1>3. CyclesSpaced /\ DatesHonest /\ DueStaysDue /\ InHand /\ Past /\ Unmade
  BY <1>1, SchedulesAssumption DEF CyclesSpaced, DatesHonest, DueStaysDue, InHand, Past, Unmade
<1>4. IssuedInTurn
  BY <1>1 DEF Init, IssuedInTurn, InTurn, MadeBefore
<1> QED
  BY <1>2, <1>3, <1>4 DEF IInv

\* What InTurn says of two chains of one schedule, and of what type their dates are.
LEMMA InTurnOf ==
    ASSUME TypeOK, InTurn, NEW s \in ScheduleIds, NEW i \in DOMAIN triggers[s],
           NEW j \in DOMAIN triggers[s], i < j
    PROVE  /\ issued[s][i] <= triggers[s][j] /\ triggers[s][j] <= issued[s][j]
           /\ triggers[s][j] \in Nat /\ issued[s][j] \in Nat /\ triggers[s][i] \in Nat
<1> DEFINE t == triggers[s]
           d == issued[s]
<1>1. t \in Seq(0 .. MaxTime) /\ d \in Seq(0 .. MaxTime) /\ Len(d) = Len(t)
  BY DEF TypeOK, InTurn
<1>2. i \in DOMAIN t /\ j \in DOMAIN t
  OBVIOUS
<1>3. /\ \A k \in 1 .. Len(t) : t[k] <= d[k]
      /\ \A k, m \in 1 .. Len(t) : k < m => d[k] <= t[m]
  BY DEF InTurn
<1> HIDE DEF t, d
<1>4. i \in 1 .. Len(t) /\ j \in 1 .. Len(t) /\ j \in 1 .. Len(d)
  BY <1>1, <1>2
<1>5. \A u \in Seq(0 .. MaxTime) : \A k \in 1 .. Len(u) : u[k] \in 0 .. MaxTime
  BY SchedulesAssumption
<1> QED
  <2>1. /\ d[i] <= t[j] /\ t[j] <= d[j]
        /\ t[i] \in 0 .. MaxTime /\ t[j] \in 0 .. MaxTime /\ d[j] \in 0 .. MaxTime
    BY <1>1, <1>3, <1>4, <1>5
  <2> QED
    BY <2>1, SchedulesAssumption DEF t, d

LEMMA IntervalOf ==
    ASSUME TypeOK, Unmade, NEW s \in ScheduleIds, NEW i \in DOMAIN triggers[s]
    PROVE  schedules[s].interval \in Nat
<1>1. schedules[s] # Never
  BY DEF Unmade
<1>2. schedules[s] \in ScheduleDef
  BY <1>1 DEF TypeOK
<1> QED
  BY <1>2, SchedulesAssumption DEF ScheduleDef

\* A chain is made for s in the cycle that began at now.
LEMMA Issue ==
    ASSUME TypeOK, InTurn, NEW s \in ScheduleIds, NEW now \in 0 .. MaxTime, now <= clock,
           MadeBefore({s}, now), clock' = clock,
           triggers' = [triggers EXCEPT ![s] = Append(@, now)],
           issued' = [issued EXCEPT ![s] = Append(@, clock)]
    PROVE  InTurn'
<1> DEFINE t == triggers[s]
           d == issued[s]
           n == Len(triggers[s])
<1>1. t \in Seq(0 .. MaxTime) /\ d \in Seq(0 .. MaxTime) /\ clock \in 0 .. MaxTime /\ Len(d) = n /\ n \in Nat
  BY DEF TypeOK, InTurn
<1>2. /\ triggers'[s] = Append(t, now) /\ issued'[s] = Append(d, clock)
      /\ \A q \in ScheduleIds \ {s} : triggers'[q] = triggers[q] /\ issued'[q] = issued[q]
  BY DEF TypeOK
<1>3. /\ Len(triggers'[s]) = n + 1 /\ Len(issued'[s]) = n + 1
      /\ triggers'[s][n + 1] = now /\ issued'[s][n + 1] = clock
      /\ \A i \in 1 .. n : triggers'[s][i] = t[i] /\ issued'[s][i] = d[i]
  BY <1>1, <1>2
<1>4. \A i \in 1 .. n : t[i] <= d[i] /\ d[i] <= clock /\ d[i] <= now
  BY DEF InTurn, MadeBefore
<1>5. \A i, j \in 1 .. n : i < j => d[i] <= t[j]
  BY DEF InTurn
<1> HIDE DEF t, d, n
<1>6. \A i \in 1 .. n + 1 : triggers'[s][i] <= issued'[s][i] /\ issued'[s][i] <= clock
  <2>1. now <= clock /\ clock <= clock
    BY <1>1, SchedulesAssumption
  <2>2. \A i \in 1 .. n + 1 : i \in 1 .. n \/ i = n + 1
    BY <1>1
  <2> QED
    BY <1>3, <1>4, <2>1, <2>2
<1>7. \A i, j \in 1 .. n + 1 : i < j => issued'[s][i] <= triggers'[s][j]
  <2> SUFFICES ASSUME NEW i \in 1 .. n + 1, NEW j \in 1 .. n + 1, i < j
               PROVE  issued'[s][i] <= triggers'[s][j]
    OBVIOUS
  <2>1. i \in 1 .. n /\ (j \in 1 .. n \/ j = n + 1)
    BY <1>1
  <2> QED
    BY <2>1, <1>3, <1>4, <1>5
<1> QED
  BY <1>2, <1>3, <1>6, <1>7 DEF InTurn

\* What the loop leaves behind when it goes on with the schedules of due.
Goes(s, due, now) ==
    /\ cycle'.current = s /\ cycle'.due = due \ {s} /\ cycle'.now = now
    /\ Len(triggers'[s]) = Len(triggers[s]) + 1
    /\ triggers'[s][Len(triggers'[s])] = now
    /\ \A i \in 1 .. Len(triggers[s]) : triggers'[s][i] = triggers[s][i]
    /\ \A q \in ScheduleIds \ {s} : triggers'[q] = triggers[q]
    /\ triggers' = [triggers EXCEPT ![s] = Append(@, now)]
    /\ issued' = [issued EXCEPT ![s] = Append(@, clock)]

Stops ==
    /\ cycle'.current = Never /\ cycle'.due = {} /\ cycle'.now = 0
    /\ UNCHANGED <<triggers, issued>>

LEMMA TriggerNextEffect ==
    ASSUME TypeOK, NEW due \in SUBSET ScheduleIds, NEW now \in 0 .. MaxTime, TriggerNext(due, now)
    PROVE  /\ cycle' \in [current : ScheduleIds \cup {Never}, due : SUBSET ScheduleIds,
                          now : 0 .. MaxTime]
           /\ triggers' \in [ScheduleIds -> Seq(0 .. MaxTime)]
           /\ issued' \in [ScheduleIds -> Seq(0 .. MaxTime)]
           /\ Stops \/ \E s \in due : Goes(s, due, now)
<1>1. CASE due = {} /\ cycle' = Asleep /\ UNCHANGED <<triggers, issued>>
  BY <1>1, SchedulesAssumption DEF Asleep, Stops, TypeOK
<1>2. ASSUME NEW s \in due,
             cycle' = [current |-> s, due |-> due \ {s}, now |-> now],
             triggers' = [triggers EXCEPT ![s] = Append(@, now)],
             issued' = [issued EXCEPT ![s] = Append(@, clock)]
      PROVE  /\ cycle' \in [current : ScheduleIds \cup {Never}, due : SUBSET ScheduleIds,
                            now : 0 .. MaxTime]
             /\ triggers' \in [ScheduleIds -> Seq(0 .. MaxTime)]
             /\ issued' \in [ScheduleIds -> Seq(0 .. MaxTime)]
             /\ Goes(s, due, now)
  <2>1. s \in ScheduleIds /\ triggers[s] \in Seq(0 .. MaxTime)
    BY DEF TypeOK
  <2>2. /\ triggers'[s] = Append(triggers[s], now)
        /\ \A q \in ScheduleIds \ {s} : triggers'[q] = triggers[q]
        /\ triggers' \in [ScheduleIds -> Seq(0 .. MaxTime)]
    BY <1>2, <2>1 DEF TypeOK
  <2>3. cycle' \in [current : ScheduleIds \cup {Never}, due : SUBSET ScheduleIds,
                    now : 0 .. MaxTime]
    BY <1>2, <2>1
  <2>4. Goes(s, due, now)
    BY <1>2, <2>1, <2>2 DEF Goes
  <2>5. issued' \in [ScheduleIds -> Seq(0 .. MaxTime)]
    <3>1. issued[s] \in Seq(0 .. MaxTime) /\ clock \in 0 .. MaxTime
      BY <2>1 DEF TypeOK
    <3>2. Append(issued[s], clock) \in Seq(0 .. MaxTime)
      BY <3>1
    <3> QED
      BY <1>2, <3>2 DEF TypeOK
  <2> QED
    BY <2>2, <2>3, <2>4, <2>5
<1> QED
  BY <1>1, <1>2 DEF TriggerNext

\* Before the loop goes on, a step has brought the dates of the schedules up to
\* what was triggered so far, and what it goes on with is due.
SameSchedules ==
    \A s \in ScheduleIds :
       /\ schedules'[s] = Never <=> schedules[s] = Never
       /\ schedules[s] # Never => schedules'[s].interval = schedules[s].interval

DatesCurrent ==
    \A s \in ScheduleIds : schedules[s] # Never =>
       /\ schedules'[s].last = Never <=> triggers[s] = <<>>
       /\ triggers[s] # <<>> =>
             /\ schedules'[s].last = triggers[s][Len(triggers[s])]
             /\ NextAfter(s, schedules'[s].last) <= MaxDate =>
                   schedules'[s].next = NextAfter(s, schedules'[s].last)

Ready(due, now) ==
    \A s \in due : /\ schedules'[s] # Never /\ schedules'[s].next <= now
                   /\ \A i \in DOMAIN triggers[s] : triggers[s][i] <= now

LEMMA LoopStep ==
    ASSUME TypeOK, TypeOK', CyclesSpaced, Past, Unmade,
           UNCHANGED <<registered, clock>>,
           NEW due \in SUBSET ScheduleIds, NEW now \in 0 .. MaxTime, TriggerNext(due, now),
           now <= clock,
           SameSchedules, DatesCurrent, Ready(due, now)
    PROVE  CyclesSpaced' /\ DatesHonest' /\ DueStaysDue' /\ InHand' /\ Past' /\ Unmade'
<1> USE DEF SameSchedules, DatesCurrent, Ready
<1>1. \A s \in ScheduleIds :
         /\ triggers[s] \in Seq(0 .. MaxTime) /\ triggers'[s] \in Seq(0 .. MaxTime)
         /\ schedules[s] # Never => schedules[s] \in ScheduleDef /\ schedules'[s] \in ScheduleDef
         /\ schedules[s] # Never => schedules[s].interval \in Nat
  <2>1. ASSUME NEW s \in ScheduleIds
        PROVE  /\ triggers[s] \in Seq(0 .. MaxTime) /\ triggers'[s] \in Seq(0 .. MaxTime)
               /\ schedules[s] # Never => schedules[s] \in ScheduleDef /\ schedules'[s] \in ScheduleDef
    BY DEF TypeOK
  <2>2. \A d \in ScheduleDef : d.interval \in Nat
    BY SchedulesAssumption DEF ScheduleDef
  <2> QED
    BY <2>1, <2>2
<1>2. \A s \in ScheduleIds : schedules[s] # Never => schedules'[s].interval = schedules[s].interval
  OBVIOUS
<1>3. CASE Stops
  <2>1. CyclesSpaced'
    <3>1. ASSUME NEW q \in ScheduleIds, NEW i \in DOMAIN triggers[q], NEW j \in DOMAIN triggers[q]
          PROVE  schedules'[q].interval = schedules[q].interval
      BY <1>1, <1>2, <3>1 DEF Unmade
    <3> QED
      BY <1>3, <3>1 DEF Stops, CyclesSpaced, NextAfter
  <2>2. DatesHonest'
    BY <1>3 DEF Stops, DatesHonest, NextAfter
  <2>3. DueStaysDue' /\ InHand' /\ Past' /\ Unmade'
    BY <1>1, <1>3 DEF Stops, DueStaysDue, InHand, Past, Unmade, TypeOK
  <2> QED
    BY <2>1, <2>2, <2>3
<1>4. ASSUME NEW s \in due, Goes(s, due, now)
      PROVE  CyclesSpaced' /\ DatesHonest' /\ DueStaysDue' /\ InHand' /\ Past' /\ Unmade'
  <2>0. /\ s \in ScheduleIds /\ s # Never
        /\ schedules[s] # Never
        /\ schedules'[s].interval = schedules[s].interval
        /\ schedules[s].interval \in Nat /\ schedules'[s].next \in Nat
    BY <1>1, SchedulesAssumption DEF ScheduleDef
  <2>1. ASSUME NEW i \in 1 .. Len(triggers[s]), NextAfter(s, triggers[s][i]) <= MaxDate
        PROVE  now >= NextAfter(s, triggers[s][i])
    <3> DEFINE n == Len(triggers[s])
               old == triggers[s]
    <3>1. n \in Nat /\ n >= 1 /\ old # <<>> /\ old[i] \in Nat /\ old[n] \in Nat
      <4>1. old \in Seq(0 .. MaxTime)
        BY <1>1, <2>0
      <4> HIDE DEF old
      <4>2. n \in Nat /\ i \in 1 .. n
        BY <4>1 DEF old
      <4>3. n = Len(old)
        BY DEF old
      <4> QED
        BY <4>1, <4>2, <4>3, SchedulesAssumption
    <3>2. schedules'[s].last = old[n]
      BY <2>0, <3>1
    <3>3. CASE NextAfter(s, old[n]) <= MaxDate
      <4>1. now >= NextAfter(s, old[n])
        BY <2>0, <3>1, <3>2, <3>3
      <4>2. old[i] <= old[n]
        BY <2>1, <2>0, <3>1 DEF CyclesSpaced, NextAfter
      <4> QED
        BY <2>0, <3>1, <4>1, <4>2 DEF NextAfter
    <3>4. CASE ~(NextAfter(s, old[n]) <= MaxDate)
      <4>1. i < n
        BY <2>1, <3>1, <3>4
      <4>2. old[n] >= NextAfter(s, old[i])
        BY <2>0, <2>1, <3>1, <4>1 DEF CyclesSpaced
      <4>3. old[n] <= now
        BY <2>0, <3>1
      <4> QED
        BY <2>0, <3>1, <4>2, <4>3 DEF NextAfter
    <3> QED
      BY <3>3, <3>4
  <2>2. /\ DOMAIN triggers'[s] = 1 .. Len(triggers[s]) + 1
        /\ DOMAIN triggers[s] = 1 .. Len(triggers[s])
        /\ Len(triggers[s]) \in Nat
        /\ triggers'[s][Len(triggers[s]) + 1] = now
        /\ triggers'[s] # <<>>
    BY <1>1, <1>4, <2>0 DEF Goes
  <2>3. CyclesSpaced'
    <3> SUFFICES ASSUME NEW q \in ScheduleIds, NEW i \in DOMAIN triggers'[q],
                        NEW j \in DOMAIN triggers'[q], i < j,
                        triggers'[q][i] + schedules'[q].interval <= MaxDate
                 PROVE  triggers'[q][j] >= triggers'[q][i] + schedules'[q].interval
      BY DEF CyclesSpaced, NextAfter
    <3>1. CASE q # s
      <4>1. triggers'[q] = triggers[q]
        BY <1>4, <3>1 DEF Goes
      <4>2. schedules'[q].interval = schedules[q].interval
        BY <1>1, <1>2, <4>1 DEF Unmade
      <4> QED
        BY <4>1, <4>2 DEF CyclesSpaced, NextAfter
    <3>2. CASE q = s /\ j <= Len(triggers[s])
      <4>1. i \in DOMAIN triggers[s] /\ j \in DOMAIN triggers[s]
        BY <2>2, <3>2
      <4>2. triggers'[s][i] = triggers[s][i] /\ triggers'[s][j] = triggers[s][j]
        BY <1>4, <2>2, <4>1 DEF Goes
      <4> QED
        BY <2>0, <3>2, <4>1, <4>2 DEF CyclesSpaced, NextAfter
    <3>3. CASE q = s /\ j = Len(triggers[s]) + 1
      <4>1. i \in 1 .. Len(triggers[s]) /\ triggers'[s][i] = triggers[s][i]
        BY <1>4, <2>2, <3>3 DEF Goes
      <4> QED
        BY <2>0, <2>1, <2>2, <3>3, <4>1 DEF NextAfter
    <3>4. DOMAIN triggers'[q] = 1 .. Len(triggers'[q]) /\ Len(triggers'[q]) \in Nat
      BY <1>1
    <3> QED
      BY <2>2, <3>1, <3>2, <3>3, <3>4
  <2>4. DatesHonest'
    BY <1>4 DEF Goes, DatesHonest, NextAfter
  <2>5. DueStaysDue'
    BY <1>4 DEF Goes, DueStaysDue
  <2>6. InHand'
    BY <1>4, <2>0, <2>2 DEF Goes, InHand
  <2>7. Past'
    <3>1. ASSUME NEW q \in ScheduleIds, NEW i \in DOMAIN triggers'[q]
          PROVE  /\ triggers'[q][i] <= clock'
                 /\ q \in cycle'.due => triggers'[q][i] <= cycle'.now
      <4>1. CASE q # s
        BY <1>4, <3>1, <4>1 DEF Goes, Past
      <4>2. CASE q = s
        BY <1>4, <2>2, <3>1, <4>2 DEF Goes, Past
      <4> QED
        BY <4>1, <4>2
    <3> QED
      BY <1>4, <3>1 DEF Goes, Past
  <2>8. Unmade'
    BY <1>4, <2>0 DEF Goes, Unmade, TypeOK
  <2> QED
    BY <2>3, <2>4, <2>5, <2>6, <2>7, <2>8
<1> QED
  BY <1>3, <1>4, TriggerNextEffect

-----------------------------------------------------------------------------

\* What happens to the schedule in hand when its dispatch returns.
LEMMA DatesSet ==
    ASSUME TypeOK, InHand, TriggerReturns
    PROVE  LET s == cycle.current IN
           /\ s \in ScheduleIds
           /\ schedules \in [ScheduleIds -> ScheduleDef \cup {Never}]
           /\ schedules' \in [ScheduleIds -> ScheduleDef \cup {Never}]
           /\ schedules[s] \in ScheduleDef /\ schedules'[s] \in ScheduleDef
           /\ schedules'[s].interval = schedules[s].interval
           /\ schedules'[s].last = cycle.now
           /\ NextAfter(s, cycle.now) <= MaxDate => schedules'[s].next = NextAfter(s, cycle.now)
           /\ \A q \in ScheduleIds \ {s} : schedules'[q] = schedules[q]
           /\ TriggerNext(cycle.due, cycle.now) \/ TriggerNext({}, cycle.now)
<1> DEFINE s == cycle.current
           next == cycle.now + schedules[s].interval
<1>1. s \in ScheduleIds /\ schedules[s] \in ScheduleDef /\ cycle.now \in Nat
  BY DEF TriggerReturns, InHand, TypeOK
<1>2. next \in Nat
  <2>1. schedules[s].interval \in Nat
    BY <1>1, SchedulesAssumption DEF ScheduleDef
  <2> QED
    BY <1>1, <2>1
<1>3. CASE /\ next <= MaxDate
           /\ schedules' = [schedules EXCEPT ![s].last = cycle.now, ![s].next = next]
           /\ TriggerNext(cycle.due, cycle.now)
  <2> HIDE DEF next
  <2>1. next = NextAfter(s, cycle.now)
    BY DEF next, NextAfter
  <2> QED
    BY <1>1, <1>2, <1>3, <2>1 DEF TypeOK, ScheduleDef
<1>4. CASE /\ next > MaxDate
           /\ schedules' = [schedules EXCEPT ![s].last = cycle.now]
           /\ TriggerNext({}, cycle.now)
  <2>1. ~(NextAfter(s, cycle.now) <= MaxDate)
    BY <1>2, <1>4, SchedulesAssumption DEF NextAfter
  <2> QED
    BY <1>1, <1>4, <2>1 DEF TypeOK, ScheduleDef
<1> QED
  BY <1>3, <1>4 DEF TriggerReturns

LEMMA TypeStep == TypeOK /\ InHand /\ [Next]_vars => TypeOK'
<1> SUFFICES ASSUME TypeOK, InHand, [Next]_vars PROVE TypeOK'
  OBVIOUS
<1>1. ASSUME NEW s \in ScheduleIds, NEW interval \in Intervals, NEW next \in 0 .. MaxTime,
             CreateSchedule(s, interval, next)
      PROVE TypeOK'
  <2>1. [interval |-> interval, next |-> next, last |-> Never] \in ScheduleDef
    BY DEF ScheduleDef
  <2> QED
    BY <1>1, <2>1 DEF CreateSchedule, TypeOK
<1>2. ASSUME NEW s \in ScheduleIds, DeleteSchedule(s)
      PROVE TypeOK'
  BY <1>2 DEF DeleteSchedule, TypeOK
<1>3. CASE Tick
  BY <1>3, SchedulesAssumption DEF Tick, TypeOK
<1>4. CASE RunCycle
  <2> DEFINE due == {s \in registered : schedules[s].next <= clock}
  <2>1. due \in SUBSET ScheduleIds /\ clock \in 0 .. MaxTime /\ TriggerNext(due, clock)
    BY <1>4 DEF RunCycle, TypeOK
  <2> HIDE DEF due
  <2> QED
    BY <1>4, <2>1, TriggerNextEffect DEF RunCycle, TypeOK
<1>5. CASE TriggerReturns
  <2>1. /\ schedules' \in [ScheduleIds -> ScheduleDef \cup {Never}]
        /\ TriggerNext(cycle.due, cycle.now) \/ TriggerNext({}, cycle.now)
    BY <1>5, DatesSet
  <2>2. cycle.due \in SUBSET ScheduleIds /\ cycle.now \in 0 .. MaxTime
    BY DEF TypeOK
  <2>3. /\ cycle' \in [current : ScheduleIds \cup {Never}, due : SUBSET ScheduleIds,
                         now : 0 .. MaxTime]
        /\ triggers' \in [ScheduleIds -> Seq(0 .. MaxTime)]
        /\ issued' \in [ScheduleIds -> Seq(0 .. MaxTime)]
    BY <2>1, <2>2, TriggerNextEffect
  <2> QED
    BY <1>5, <2>1, <2>3 DEF TriggerReturns, TypeOK
<1>6. CASE UNCHANGED vars
  BY <1>6 DEF vars, TypeOK
<1> QED
  BY <1>1, <1>2, <1>3, <1>4, <1>5, <1>6 DEF Next

\* The loop goes on: what it makes, it makes in turn.
LEMMA IssuedLoop ==
    ASSUME TypeOK, InTurn, clock' = clock, NEW due \in SUBSET ScheduleIds, NEW now \in 0 .. MaxTime,
           now <= clock, TriggerNext(due, now), MadeBefore(due, now)
    PROVE  IssuedInTurn'
<1>1. CASE Stops
  BY <1>1 DEF Stops, IssuedInTurn, InTurn, MadeBefore
<1>2. ASSUME NEW s \in due, Goes(s, due, now) PROVE IssuedInTurn'
  <2>1. InTurn'
    BY <1>2, Issue DEF Goes, MadeBefore
  <2>2. /\ cycle'.due = due \ {s} /\ cycle'.now = now
        /\ \A q \in ScheduleIds \ {s} : triggers'[q] = triggers[q] /\ issued'[q] = issued[q]
    BY <1>2 DEF Goes, TypeOK
  <2> QED
    BY <2>1, <2>2 DEF IssuedInTurn, MadeBefore
<1> QED
  BY <1>1, <1>2, TriggerNextEffect

LEMMA IssuedStep ==
    ASSUME TypeOK, Past, IssuedInTurn, [Next]_vars
    PROVE  IssuedInTurn'
<1>1. ASSUME UNCHANGED <<triggers, issued, cycle>>, clock' = clock \/ clock' = clock + 1
      PROVE  IssuedInTurn'
  <2>1. clock \in Nat /\ \A s \in ScheduleIds : \A i \in 1 .. Len(triggers[s]) : issued[s][i] \in Nat
    <3>1. ASSUME NEW s \in ScheduleIds, NEW i \in 1 .. Len(triggers[s]) PROVE issued[s][i] \in Nat
      <4>1. issued[s] \in Seq(0 .. MaxTime) /\ i \in 1 .. Len(issued[s])
        BY DEF TypeOK, IssuedInTurn, InTurn
      <4> QED
        BY <4>1, SchedulesAssumption
    <3> QED
      BY <3>1, SchedulesAssumption DEF TypeOK
  <2> QED
    BY <1>1, <2>1 DEF IssuedInTurn, InTurn, MadeBefore
<1>2. CASE RunCycle
  <2> DEFINE due == {s \in registered : schedules[s].next <= clock}
  <2>1. /\ due \in SUBSET ScheduleIds /\ clock \in 0 .. MaxTime /\ clock <= clock
        /\ TriggerNext(due, clock) /\ clock' = clock
    BY <1>2, SchedulesAssumption DEF RunCycle, TypeOK
  <2>2. MadeBefore(due, clock)
    BY <2>1 DEF MadeBefore, IssuedInTurn, InTurn
  <2> HIDE DEF due
  <2> QED
    BY <2>1, <2>2, IssuedLoop DEF IssuedInTurn
<1>3. CASE TriggerReturns
  <2>1. PICK due \in SUBSET cycle.due : TriggerNext(due, cycle.now)
    BY <1>3 DEF TriggerReturns
  <2>2. /\ due \in SUBSET ScheduleIds /\ cycle.now \in 0 .. MaxTime /\ cycle.now <= clock
        /\ clock' = clock
    BY <1>3 DEF TriggerReturns, TypeOK, Past
  <2>3. MadeBefore(due, cycle.now)
    BY DEF IssuedInTurn, MadeBefore
  <2> QED
    BY <2>1, <2>2, <2>3, IssuedLoop DEF IssuedInTurn
<1> QED
  BY <1>1, <1>2, <1>3 DEF Next, CreateSchedule, DeleteSchedule, Tick, vars

LEMMA InductiveStep == IInv /\ [Next]_vars => IInv'
<1> SUFFICES ASSUME IInv, [Next]_vars PROVE IInv'
  OBVIOUS
<1>00. IssuedInTurn'
  BY IssuedStep DEF IInv
<1> DEFINE Rest == CyclesSpaced /\ DatesHonest /\ DueStaysDue /\ InHand /\ Past /\ Unmade
<1>0. TypeOK /\ TypeOK' /\ Rest
  BY TypeStep DEF IInv
<1>1. ASSUME NEW s \in ScheduleIds, NEW interval \in Intervals, NEW next \in 0 .. MaxTime,
             CreateSchedule(s, interval, next)
      PROVE Rest'
  <2>1. /\ schedules[s] = Never /\ triggers[s] = <<>>
        /\ s \notin cycle.due /\ s # cycle.current
    BY <1>0, <1>1, SchedulesAssumption DEF CreateSchedule, Unmade, DueStaysDue, InHand
  <2>2. /\ schedules'[s] # Never /\ schedules'[s].last = Never
        /\ \A q \in ScheduleIds \ {s} : schedules'[q] = schedules[q]
        /\ UNCHANGED <<clock, cycle, triggers>>
        /\ registered' = registered \cup {s}
    <3>1. [interval |-> interval, next |-> next, last |-> Never] \in ScheduleDef
      BY DEF ScheduleDef
    <3>2. [interval |-> interval, next |-> next, last |-> Never] # Never
      BY <3>1, SchedulesAssumption
    <3> QED
      BY <1>0, <1>1, <3>2 DEF CreateSchedule, TypeOK
  <2>3. CyclesSpaced'
    BY <1>0, <2>1, <2>2 DEF CyclesSpaced, NextAfter
  <2>4. DatesHonest'
    BY <1>0, <2>1, <2>2 DEF DatesHonest, NextAfter
  <2>5. DueStaysDue'
    BY <1>0, <2>1, <2>2 DEF DueStaysDue, TypeOK
  <2>6. InHand'
    BY <1>0, <2>1, <2>2 DEF InHand, TypeOK
  <2>7. Past' /\ Unmade'
    BY <1>0, <2>1, <2>2 DEF Past, Unmade, TypeOK
  <2> QED
    BY <2>3, <2>4, <2>5, <2>6, <2>7
<1>2. ASSUME NEW s \in ScheduleIds, DeleteSchedule(s)
      PROVE Rest'
  <2>1. UNCHANGED <<schedules, clock, cycle, triggers>> /\ registered' \subseteq registered
    BY <1>2 DEF DeleteSchedule
  <2> QED
    BY <1>0, <2>1 DEF CyclesSpaced, DatesHonest, DueStaysDue, InHand, Past, Unmade, NextAfter
<1>3. ASSUME Tick PROVE Rest'
  <2>1. /\ UNCHANGED <<schedules, registered, cycle, triggers>>
        /\ clock' = clock + 1 /\ clock \in Nat
    BY <1>0, <1>3 DEF Tick, TypeOK
  <2>2. Past'
    <3>1. cycle.now \in Nat /\ \A s \in ScheduleIds : \A i \in DOMAIN triggers[s] : triggers[s][i] \in Nat
      <4>1. cycle.now \in 0 .. MaxTime /\ \A s \in ScheduleIds : triggers[s] \in Seq(0 .. MaxTime)
        BY <1>0 DEF TypeOK
      <4> QED
        BY <4>1, SchedulesAssumption
    <3> QED
      BY <1>0, <2>1, <3>1 DEF Past
  <2>3. CyclesSpaced' /\ DatesHonest'
    BY <1>0, <2>1 DEF CyclesSpaced, DatesHonest, NextAfter
  <2>4. DueStaysDue' /\ InHand' /\ Unmade'
    BY <1>0, <2>1 DEF DueStaysDue, InHand, Unmade
  <2> QED
    BY <2>2, <2>3, <2>4
<1>4. ASSUME RunCycle PROVE Rest'
  <2> DEFINE due == {s \in registered : schedules[s].next <= clock}
  <2>1. /\ due \in SUBSET ScheduleIds /\ clock \in 0 .. MaxTime /\ clock <= clock
        /\ TriggerNext(due, clock)
        /\ UNCHANGED <<schedules, registered, clock>>
        /\ cycle.current = Never
    BY <1>0, <1>4, SchedulesAssumption DEF RunCycle, TypeOK
  <2>2. Ready(due, clock)
    BY <1>0, <2>1 DEF Ready, Unmade, Past, TypeOK
  <2>3. DatesCurrent
    BY <1>0, <2>1, SchedulesAssumption DEF DatesCurrent, DatesHonest
  <2>4. SameSchedules
    BY <2>1 DEF SameSchedules
  <2>5. UNCHANGED <<registered, clock>>
    BY <2>1
  <2> HIDE DEF due
  <2> QED
    BY <1>0, <2>1, <2>2, <2>3, <2>4, <2>5, LoopStep
<1>5. ASSUME TriggerReturns PROVE Rest'
  <2> DEFINE s == cycle.current
  <2>1. /\ s \in ScheduleIds
        /\ schedules[s] \in ScheduleDef /\ schedules'[s] \in ScheduleDef
        /\ schedules'[s].interval = schedules[s].interval
        /\ schedules'[s].last = cycle.now
        /\ NextAfter(s, cycle.now) <= MaxDate => schedules'[s].next = NextAfter(s, cycle.now)
        /\ \A q \in ScheduleIds \ {s} : schedules'[q] = schedules[q]
        /\ TriggerNext(cycle.due, cycle.now) \/ TriggerNext({}, cycle.now)
    BY <1>0, <1>5, DatesSet
  <2>2. /\ UNCHANGED <<registered, clock>>
        /\ cycle.now \in 0 .. MaxTime /\ cycle.now <= clock
        /\ s # Never
        /\ triggers[s] # <<>> /\ triggers[s][Len(triggers[s])] = cycle.now
    BY <1>0, <1>5 DEF TriggerReturns, TypeOK, Past, InHand
  <2>3. PICK due \in SUBSET ScheduleIds : due \subseteq cycle.due /\ TriggerNext(due, cycle.now)
    BY <1>0, <2>1 DEF TypeOK
  <2>4. SameSchedules
    BY <2>1, SchedulesAssumption DEF SameSchedules
  <2>5. Ready(due, cycle.now)
    <3>1. \A q \in due : q # s
      BY <1>0, <2>3 DEF DueStaysDue
    <3> QED
      BY <1>0, <2>1, <2>3, <3>1 DEF Ready, DueStaysDue, Past
  <2>6. DatesCurrent
    <3>1. cycle.now # Never
      BY <2>2, SchedulesAssumption
    <3> QED
      BY <1>0, <2>1, <2>2, <3>1 DEF DatesCurrent, DatesHonest
  <2> HIDE DEF s
  <2> QED
    BY <1>0, <2>2, <2>3, <2>4, <2>5, <2>6, LoopStep
<1>6. ASSUME UNCHANGED vars PROVE Rest'
  <2>1. UNCHANGED <<schedules, registered, clock, cycle, triggers>>
    BY <1>6 DEF vars
  <2>2. CyclesSpaced' /\ DatesHonest'
    BY <1>0, <2>1 DEF CyclesSpaced, DatesHonest, NextAfter
  <2>3. DueStaysDue' /\ InHand' /\ Past' /\ Unmade'
    BY <1>0, <2>1 DEF DueStaysDue, InHand, Past, Unmade
  <2> QED
    BY <2>2, <2>3
<1> QED
  BY <1>0, <1>00, <1>1, <1>2, <1>3, <1>4, <1>5, <1>6 DEF Next, IInv

-----------------------------------------------------------------------------
\* The invariant holds in every reachable state, for any schedules, intervals
\* and bounds.
THEOREM Invariance == Spec => []IInv
  BY InitIInv, InductiveStep, PTL DEF Spec

\* state.schedules and the variables of run_cycle keep their types.
THEOREM TypeCorrect == Spec => []TypeOK
<1>1. IInv => TypeOK
  BY DEF IInv
<1> QED
  BY <1>1, Invariance, PTL

\* wo_scheduler: a cycle issues no second chain for a schedule, nor any cycle one within
\* interval_days of the beginning of an earlier cycle that did, whatever the dispatches take.
THEOREM AlwaysSpaced == Spec => []TriggersSpaced
<1>1. IInv => TriggersSpaced
  <2> SUFFICES ASSUME IInv, NEW s \in ScheduleIds, NEW i \in DOMAIN triggers[s],
                      NEW j \in DOMAIN triggers[s], i < j
               PROVE  /\ issued[s][i] <= triggers[s][j]
                      /\ NextAfter(s, triggers[s][i]) <= MaxDate =>
                            issued[s][j] >= NextAfter(s, triggers[s][i])
    BY DEF TriggersSpaced
  <2>1. /\ issued[s][i] <= triggers[s][j] /\ triggers[s][j] <= issued[s][j]
        /\ triggers[s][j] \in Nat /\ issued[s][j] \in Nat /\ triggers[s][i] \in Nat
    BY InTurnOf DEF IInv, IssuedInTurn
  <2>2. schedules[s].interval \in Nat
    BY IntervalOf DEF IInv
  <2>3. NextAfter(s, triggers[s][i]) <= MaxDate => triggers[s][j] >= NextAfter(s, triggers[s][i])
    BY DEF IInv, CyclesSpaced
  <2> QED
    BY <2>1, <2>2, <2>3 DEF NextAfter
<1> QED
  BY <1>1, Invariance, PTL

\* last_triggered_at and next_trigger_at tell what wo_scheduler did.
THEOREM DatesAlwaysHonest == Spec => []DatesHonest
<1>1. IInv => DatesHonest
  BY DEF IInv
<1> QED
  BY <1>1, Invariance, PTL

\* A snapshot of due schedules does not go stale while run_cycle works through it.
THEOREM DueAlwaysDue == Spec => []DueStaysDue
<1>1. IInv => DueStaysDue
  BY DEF IInv
<1> QED
  BY <1>1, Invariance, PTL
-----------------------------------------------------------------------------

(***************************************************************************)
(* The chains of wo-scheduler.  That an approval comes too early depends   *)
(* on the dates, which stand for the last approval that was answered:      *)
(* there is such a one if any was answered.  The schedules the cycle holds *)
(* are due, the one in hand included, for its dates are set when the chain *)
(* is over.  For the records, the chain in hand has left one more behind   *)
(* the request it waits for than in front of it.                           *)
(***************************************************************************)
Held(s) == s \in cycle.due \/ s = cycle.current

HeldDue ==
    /\ \A s \in ScheduleIds : Held(s) => schedules[s] # Never /\ schedules[s].next <= cycle.now
    /\ cycle.current \notin cycle.due

ChainPast ==
    /\ cycle.now <= clock
    /\ \A s \in ScheduleIds : \A i \in DOMAIN triggers[s] :
          /\ triggers[s][i] <= clock
          /\ Held(s) => triggers[s][i] <= cycle.now

LastAnswered ==
    \A s \in ScheduleIds : Answered(s) # {} =>
       \E i \in Answered(s) : \A j \in Answered(s) : j <= i

LostServed == \A s \in ScheduleIds, i \in Nat : <<s, i>> \in lost => i \in DOMAIN triggers[s]

OneAhead ==
    \A s \in ScheduleIds : cycle.current = s /\ step > 1 => made[s][step - 1] > made[s][step]

AnsweredSpaced ==
    \A s \in ScheduleIds : \A i, j \in DOMAIN triggers[s] :
       i < j /\ <<s, i>> \notin lost /\ NextAfter(s, triggers[s][i]) <= MaxDate =>
          triggers[s][j] >= NextAfter(s, triggers[s][i])

ApprovedInTurn == InTurn /\ MadeBefore({s \in ScheduleIds : Held(s)}, cycle.now)

ChainDates ==
    /\ AnsweredSpaced
    /\ AnsweredDates
    /\ HeldDue
    /\ ChainPast
    /\ LastAnswered
    /\ LostServed
    /\ Unmade

ChainIInv ==
    /\ ChainTypeOK
    /\ ChainDates
    /\ ApprovedInTurn
    /\ OrphansAccounted
    /\ OneAhead

LEMMA ChainInitIInv == ChainInit => ChainIInv
<1> SUFFICES ASSUME ChainInit PROVE ChainIInv
  OBVIOUS
<1>1. /\ \A s \in ScheduleIds : triggers[s] = <<>> /\ schedules[s] = Never
      /\ cycle.current = Never /\ cycle.due = {} /\ cycle.now = 0
      /\ registered = {} /\ clock = 0 /\ lost = {} /\ step = 1 /\ failures = 0
      /\ \A s \in ScheduleIds : \A n \in 1 .. 4 : made[s][n] = 0
  BY DEF ChainInit, Init, Asleep, Requests
<1>2. ChainTypeOK
  BY InitIInv, ChainsAssumption DEF ChainInit, IInv, ChainTypeOK, Requests
<1>3. ChainDates
  BY <1>1, SchedulesAssumption
  DEF ChainDates, AnsweredSpaced, AnsweredDates, Answered, HeldDue, Held, ChainPast,
      LastAnswered, LostServed, Unmade
<1>4. OrphansAccounted /\ OneAhead
  BY <1>1 DEF OrphansAccounted, OneAhead, Unfinished, Approve
<1>5. ApprovedInTurn
  BY <1>1 DEF ChainInit, Init, ApprovedInTurn, InTurn, MadeBefore
<1> QED
  BY <1>2, <1>3, <1>4, <1>5 DEF ChainIInv

\* What the loop holds when it goes on with the schedules of due.
LEMMA BeginNextEffect ==
    ASSUME NEW due \in SUBSET ScheduleIds, NEW now \in 0 .. MaxTime, BeginNext(due, now)
    PROVE  /\ cycle' \in [current : ScheduleIds \cup {Never}, due : SUBSET ScheduleIds,
                          now : 0 .. MaxTime]
           /\ step' = 1
           /\ \A q \in ScheduleIds : Held(q)' => q \in due /\ cycle'.now = now
           /\ cycle'.current \notin cycle'.due
           /\ cycle'.now = now \/ cycle'.now = 0
<1>1. CASE cycle' = Asleep
  BY <1>1, SchedulesAssumption DEF Asleep, Held, BeginNext
<1>2. ASSUME NEW s \in due, cycle' = [current |-> s, due |-> due \ {s}, now |-> now]
      PROVE  /\ cycle' \in [current : ScheduleIds \cup {Never}, due : SUBSET ScheduleIds,
                            now : 0 .. MaxTime]
             /\ \A q \in ScheduleIds : Held(q)' => q \in due /\ cycle'.now = now
             /\ cycle'.current \notin cycle'.due
             /\ cycle'.now = now
  BY <1>2 DEF Held
<1> QED
  BY <1>1, <1>2 DEF BeginNext

\* What a request that is served leaves behind.
LEMMA ServeEffect ==
    ASSUME ChainTypeOK, cycle.current # Never, Serve
    PROVE  LET s == cycle.current IN
           /\ s \in ScheduleIds
           /\ made' \in [ScheduleIds -> [Requests -> Nat]]
           /\ triggers' \in [ScheduleIds -> Seq(0 .. MaxTime)]
           /\ made'[s][step] = made[s][step] + 1
           /\ \A n \in Requests \ {step} : made'[s][n] = made[s][n]
           /\ \A q \in ScheduleIds \ {s} : made'[q] = made[q] /\ triggers'[q] = triggers[q]
           /\ step # Approve => triggers' = triggers
           /\ step = Approve => triggers'[s] = Append(triggers[s], cycle.now)
           /\ issued' \in [ScheduleIds -> Seq(0 .. MaxTime)]
           /\ step # Approve => issued' = issued
           /\ step = Approve => /\ triggers' = [triggers EXCEPT ![s] = Append(@, cycle.now)]
                               /\ issued' = [issued EXCEPT ![s] = Append(@, clock)]
<1> DEFINE s == cycle.current
<1>1. /\ s \in ScheduleIds /\ step \in Requests /\ cycle.now \in 0 .. MaxTime
      /\ made \in [ScheduleIds -> [Requests -> Nat]]
      /\ triggers \in [ScheduleIds -> Seq(0 .. MaxTime)]
  BY DEF ChainTypeOK, TypeOK
<1>2. /\ made' = [made EXCEPT ![s][step] = @ + 1]
      /\ triggers' = IF step = Approve THEN [triggers EXCEPT ![s] = Append(@, cycle.now)]
                     ELSE triggers
      /\ issued' = IF step = Approve THEN [issued EXCEPT ![s] = Append(@, clock)] ELSE issued
  BY DEF Serve, ServeIssue, ServeTicket, ServeEstimate, ServeApproval, Store, Approve
<1> HIDE DEF s
<1>3. /\ made' \in [ScheduleIds -> [Requests -> Nat]]
      /\ made'[s][step] = made[s][step] + 1
      /\ \A n \in Requests \ {step} : made'[s][n] = made[s][n]
      /\ \A q \in ScheduleIds \ {s} : made'[q] = made[q]
  BY <1>1, <1>2
<1>4. Append(triggers[s], cycle.now) \in Seq(0 .. MaxTime)
  BY <1>1
<1>5. /\ triggers' \in [ScheduleIds -> Seq(0 .. MaxTime)]
      /\ \A q \in ScheduleIds \ {s} : triggers'[q] = triggers[q]
      /\ step # Approve => triggers' = triggers
      /\ step = Approve => triggers'[s] = Append(triggers[s], cycle.now)
  BY <1>1, <1>2, <1>4
<1>6. issued' \in [ScheduleIds -> Seq(0 .. MaxTime)]
  <2>1. issued \in [ScheduleIds -> Seq(0 .. MaxTime)] /\ clock \in 0 .. MaxTime
    BY DEF ChainTypeOK, TypeOK
  <2>2. Append(issued[s], clock) \in Seq(0 .. MaxTime)
    BY <1>1, <2>1
  <2> QED
    BY <1>2, <2>1, <2>2
<1> QED
  BY <1>1, <1>2, <1>3, <1>5, <1>6 DEF s
-----------------------------------------------------------------------------

\* Before the loop goes on, a step may set the dates of the schedule in hand.
LEMMA ApprovalSetsDates ==
    ASSUME ChainTypeOK, HeldDue, ApprovalAnswered
    PROVE  LET s == cycle.current IN
           /\ s \in ScheduleIds
           /\ schedules' \in [ScheduleIds -> ScheduleDef \cup {Never}]
           /\ schedules[s] \in ScheduleDef /\ schedules'[s] \in ScheduleDef
           /\ schedules'[s].interval = schedules[s].interval
           /\ schedules'[s].last = cycle.now
           /\ NextAfter(s, cycle.now) <= MaxDate => schedules'[s].next = NextAfter(s, cycle.now)
           /\ \A q \in ScheduleIds \ {s} : schedules'[q] = schedules[q]
           /\ \E due \in SUBSET cycle.due : BeginNext(due, cycle.now)
<1> DEFINE s == cycle.current
           next == cycle.now + schedules[s].interval
<1>1. s \in ScheduleIds /\ schedules[s] \in ScheduleDef /\ cycle.now \in Nat
  BY DEF ApprovalAnswered, HeldDue, Held, ChainTypeOK, TypeOK
<1>2. next \in Nat
  <2>1. schedules[s].interval \in Nat
    BY <1>1, SchedulesAssumption DEF ScheduleDef
  <2> QED
    BY <1>1, <2>1
<1>3. CASE /\ next <= MaxDate
           /\ schedules' = [schedules EXCEPT ![s].last = cycle.now, ![s].next = next]
           /\ BeginNext(cycle.due, cycle.now)
  <2> HIDE DEF next
  <2>1. next = NextAfter(s, cycle.now)
    BY DEF next, NextAfter
  <2> QED
    BY <1>1, <1>2, <1>3, <2>1 DEF ChainTypeOK, TypeOK, ScheduleDef
<1>4. CASE /\ next > MaxDate
           /\ schedules' = [schedules EXCEPT ![s].last = cycle.now]
           /\ BeginNext({}, cycle.now)
  <2>1. ~(NextAfter(s, cycle.now) <= MaxDate)
    BY <1>2, <1>4, SchedulesAssumption DEF NextAfter
  <2>2. {} \in SUBSET cycle.due
    OBVIOUS
  <2> QED
    BY <1>1, <1>4, <2>1, <2>2 DEF ChainTypeOK, TypeOK, ScheduleDef
<1> QED
  BY <1>3, <1>4 DEF ApprovalAnswered

LEMMA ChainTypeStep == ChainTypeOK /\ HeldDue /\ [ChainNext]_serviceVars => ChainTypeOK'
<1> SUFFICES ASSUME ChainTypeOK, HeldDue, [ChainNext]_serviceVars PROVE ChainTypeOK'
  OBVIOUS
<1>0. /\ TypeOK /\ cycle.due \in SUBSET ScheduleIds /\ cycle.now \in 0 .. MaxTime
      /\ 1 \in Requests
  BY DEF ChainTypeOK, TypeOK, Requests
<1>1. ASSUME Elsewhere PROVE ChainTypeOK'
  <2>1. ASSUME NEW s \in ScheduleIds, NEW interval \in Intervals, NEW next \in 0 .. MaxTime,
               CreateSchedule(s, interval, next)
        PROVE TypeOK'
    <3>1. [interval |-> interval, next |-> next, last |-> Never] \in ScheduleDef
      BY DEF ScheduleDef
    <3> QED
      BY <1>0, <2>1, <3>1 DEF CreateSchedule, TypeOK
  <2>2. ASSUME NEW s \in ScheduleIds, DeleteSchedule(s) PROVE TypeOK'
    BY <1>0, <2>2 DEF DeleteSchedule, TypeOK
  <2>3. ASSUME Tick PROVE TypeOK'
    BY <1>0, <2>3, SchedulesAssumption DEF Tick, TypeOK
  <2>4. TypeOK'
    BY <1>1, <2>1, <2>2, <2>3 DEF Elsewhere
  <2> QED
    BY <1>1, <2>4 DEF Elsewhere, chainVars, ChainTypeOK
<1>2. ASSUME BeginCycle PROVE ChainTypeOK'
  <2> DEFINE due == {s \in registered : schedules[s].next <= clock}
  <2>1. due \in SUBSET ScheduleIds /\ clock \in 0 .. MaxTime /\ BeginNext(due, clock)
    BY <1>0, <1>2 DEF BeginCycle, TypeOK
  <2> HIDE DEF due
  <2>2. /\ step' = 1
        /\ cycle' \in [current : ScheduleIds \cup {Never}, due : SUBSET ScheduleIds,
                       now : 0 .. MaxTime]
    BY <2>1, BeginNextEffect
  <2> QED
    BY <1>0, <1>2, <2>2 DEF BeginCycle, ChainTypeOK, TypeOK
<1>3. ASSUME RequestAnswered PROVE ChainTypeOK'
  <2>1. /\ made' \in [ScheduleIds -> [Requests -> Nat]]
        /\ triggers' \in [ScheduleIds -> Seq(0 .. MaxTime)]
        /\ issued' \in [ScheduleIds -> Seq(0 .. MaxTime)]
    BY <1>3, ServeEffect DEF RequestAnswered
  <2>2. step' \in Requests
    BY <1>3 DEF RequestAnswered, ChainTypeOK, Requests, Approve
  <2> QED
    BY <1>0, <1>3, <2>1, <2>2 DEF RequestAnswered, ChainTypeOK, TypeOK
<1>4. ASSUME ApprovalAnswered PROVE ChainTypeOK'
  <2>1. /\ made' \in [ScheduleIds -> [Requests -> Nat]]
        /\ triggers' \in [ScheduleIds -> Seq(0 .. MaxTime)]
        /\ issued' \in [ScheduleIds -> Seq(0 .. MaxTime)]
    BY <1>4, ServeEffect DEF ApprovalAnswered
  <2>2. PICK due \in SUBSET cycle.due : BeginNext(due, cycle.now)
    BY <1>4, ApprovalSetsDates
  <2>3. /\ step' = 1
        /\ cycle' \in [current : ScheduleIds \cup {Never}, due : SUBSET ScheduleIds,
                       now : 0 .. MaxTime]
    BY <1>0, <2>2, BeginNextEffect
  <2>4. schedules' \in [ScheduleIds -> ScheduleDef \cup {Never}]
    BY <1>4, ApprovalSetsDates
  <2> QED
    BY <1>0, <1>4, <2>1, <2>3, <2>4 DEF ApprovalAnswered, ChainTypeOK, TypeOK
<1>5. ASSUME NEW served \in BOOLEAN, NEW raised \in BOOLEAN, RequestFails(served, raised)
      PROVE  ChainTypeOK'
  <2>1. /\ made' \in [ScheduleIds -> [Requests -> Nat]]
        /\ triggers' \in [ScheduleIds -> Seq(0 .. MaxTime)]
        /\ issued' \in [ScheduleIds -> Seq(0 .. MaxTime)]
    BY <1>0, <1>5, ServeEffect DEF RequestFails, ChainTypeOK, TypeOK
  <2>2. PICK due \in SUBSET cycle.due : BeginNext(due, cycle.now)
    BY <1>5 DEF RequestFails
  <2>3. /\ step' = 1
        /\ cycle' \in [current : ScheduleIds \cup {Never}, due : SUBSET ScheduleIds,
                       now : 0 .. MaxTime]
    BY <1>0, <2>2, BeginNextEffect
  <2>4. lost' \in SUBSET (ScheduleIds \X (Nat \ {0}))
    <3>1. cycle.current \in ScheduleIds /\ Len(triggers[cycle.current]) \in Nat
      BY <1>0, <1>5 DEF RequestFails, TypeOK
    <3>2. <<cycle.current, Len(triggers[cycle.current]) + 1>> \in ScheduleIds \X (Nat \ {0})
      BY <3>1
    <3> QED
      BY <1>5, <3>2 DEF RequestFails, ChainTypeOK
  <2>5. failures' \in 0 .. MaxFailures
    BY <1>5, ChainsAssumption DEF RequestFails, ChainTypeOK
  <2> QED
    BY <1>0, <1>5, <2>1, <2>3, <2>4, <2>5 DEF RequestFails, ChainTypeOK, TypeOK
<1>6. CASE UNCHANGED serviceVars
  BY <1>6 DEF serviceVars, chainVars, vars, ChainTypeOK, TypeOK
<1> QED
  BY <1>1, <1>2, <1>3, <1>4, <1>5, <1>6 DEF ChainNext, RequestEnds

\* The records left by the chains.
LEMMA ServedRecords ==
    ASSUME ChainTypeOK, cycle.current # Never, OrphansAccounted, OneAhead, Serve
    PROVE  LET s == cycle.current IN
           /\ s \in ScheduleIds
           /\ \A q \in ScheduleIds : made'[q] \in [Requests -> Nat] /\ made[q] \in [Requests -> Nat]
           /\ \A q \in ScheduleIds \ {s} : made'[q] = made[q]
           /\ \A n \in 1 .. 3 : made'[s][n] >= made'[s][n + 1]
           /\ step < Approve => made'[s][step] > made'[s][step + 1]
           /\ made'[s][1] - made'[s][Approve] <=
                 failures + (IF step < Approve THEN 1 ELSE 0)
<1> DEFINE s == cycle.current
           a == made[s]
           b == made'[s]
<1>1. /\ s \in ScheduleIds
      /\ a \in [Requests -> Nat] /\ b \in [Requests -> Nat]
      /\ b[step] = a[step] + 1
      /\ \A n \in Requests \ {step} : b[n] = a[n]
      /\ step \in Requests /\ failures \in Nat
  BY ServeEffect, ChainsAssumption DEF ChainTypeOK
<1>2. /\ \A n \in 1 .. 3 : a[n] >= a[n + 1]
      /\ step > 1 => a[step - 1] > a[step]
      /\ a[1] - a[4] <= failures + (IF step > 1 THEN 1 ELSE 0)
  BY <1>1 DEF OrphansAccounted, OneAhead, Unfinished, Approve
<1>3. /\ a[1] \in Nat /\ a[2] \in Nat /\ a[3] \in Nat /\ a[4] \in Nat
      /\ b[1] \in Nat /\ b[2] \in Nat /\ b[3] \in Nat /\ b[4] \in Nat
  BY <1>1 DEF Requests
<1>4. /\ a[1] >= a[2] /\ a[2] >= a[3] /\ a[3] >= a[4]
      /\ step = 2 => a[1] > a[2]
      /\ step = 3 => a[2] > a[3]
      /\ step = 4 => a[3] > a[4]
      /\ a[1] - a[4] <= failures + (IF step > 1 THEN 1 ELSE 0)
  BY <1>2
<1>5. /\ \A n \in 1 .. 4 : b[n] = IF n = step THEN a[n] + 1 ELSE a[n]
      /\ step \in 1 .. 4
  BY <1>1 DEF Requests
<1> HIDE DEF a, b
<1>6. /\ b[1] >= b[2] /\ b[2] >= b[3] /\ b[3] >= b[4]
      /\ step < 4 => b[step] > b[step + 1]
      /\ b[1] - b[4] <= failures + (IF step < 4 THEN 1 ELSE 0)
  BY <1>1, <1>3, <1>4, <1>5
<1>7. \A n \in 1 .. 3 : b[n] >= b[n + 1]
  BY <1>6
<1>8. /\ \A q \in ScheduleIds : made'[q] \in [Requests -> Nat] /\ made[q] \in [Requests -> Nat]
      /\ \A q \in ScheduleIds \ {s} : made'[q] = made[q]
  BY ServeEffect DEF ChainTypeOK
<1> QED
  BY <1>1, <1>6, <1>7, <1>8 DEF a, b, Approve
LEMMA RecordsStep ==
    ASSUME ChainTypeOK, HeldDue, OrphansAccounted, OneAhead, [ChainNext]_serviceVars
    PROVE  OrphansAccounted' /\ OneAhead'
<1> USE DEF Approve
<1>0. /\ cycle.due \in SUBSET ScheduleIds /\ cycle.now \in 0 .. MaxTime
      /\ clock \in 0 .. MaxTime /\ registered \in SUBSET ScheduleIds
      /\ \A s \in ScheduleIds : made[s][1] \in Nat /\ made[s][4] \in Nat
      /\ failures \in Nat
  BY ChainsAssumption DEF ChainTypeOK, TypeOK, Requests
<1>1. ASSUME UNCHANGED <<made, cycle, step, failures>> PROVE OrphansAccounted' /\ OneAhead'
  BY <1>1 DEF OrphansAccounted, OneAhead, Unfinished
<1>2. ASSUME BeginCycle PROVE OrphansAccounted' /\ OneAhead'
  <2>1. step' = 1
    BY <1>2 DEF BeginCycle, BeginNext
  <2>2. \A s \in ScheduleIds : Unfinished(s) = 0 /\ Unfinished(s)' = 0
    BY <1>2, <2>1, SchedulesAssumption DEF BeginCycle, Unfinished
  <2> QED
    BY <1>2, <2>1, <2>2 DEF BeginCycle, OrphansAccounted, OneAhead
<1>3. ASSUME RequestAnswered PROVE OrphansAccounted' /\ OneAhead'
  <2> DEFINE s == cycle.current
  <2>1. /\ cycle.current # Never /\ Serve /\ step < 4 /\ step' = step + 1
        /\ step \in 1 .. 4 /\ cycle' = cycle /\ failures' = failures
    BY <1>3 DEF RequestAnswered, ChainTypeOK, Requests
  <2>2. /\ \A q \in ScheduleIds \ {s} : made'[q] = made[q]
        /\ \A n \in 1 .. 3 : made'[s][n] >= made'[s][n + 1]
        /\ made'[s][step] > made'[s][step + 1]
        /\ made'[s][1] - made'[s][4] <= failures + 1
    BY <2>1, ServedRecords
  <2>3. OrphansAccounted'
    BY <1>0, <2>1, <2>2 DEF OrphansAccounted, Unfinished
  <2>4. OneAhead'
    BY <2>1, <2>2 DEF OneAhead
  <2> QED
    BY <2>3, <2>4
<1>4. ASSUME ApprovalAnswered PROVE OrphansAccounted' /\ OneAhead'
  <2> DEFINE s == cycle.current
  <2>1. cycle.current # Never /\ Serve /\ step = 4 /\ failures' = failures
    BY <1>4 DEF ApprovalAnswered
  <2>2. step' = 1
    BY <1>4 DEF ApprovalAnswered, BeginNext
  <2>3. /\ \A q \in ScheduleIds \ {s} : made'[q] = made[q]
        /\ \A n \in 1 .. 3 : made'[s][n] >= made'[s][n + 1]
        /\ made'[s][1] - made'[s][4] <= failures
    BY <1>0, <2>1, ServedRecords
  <2>4. \A q \in ScheduleIds \ {s} : Unfinished(q) = 0
    BY DEF Unfinished
  <2>5. \A q \in ScheduleIds : Unfinished(q)' = 0
    BY <2>2 DEF Unfinished
  <2> QED
    BY <1>0, <2>1, <2>2, <2>3, <2>4, <2>5 DEF OrphansAccounted, OneAhead
<1>5. ASSUME NEW served \in BOOLEAN, NEW raised \in BOOLEAN, RequestFails(served, raised)
      PROVE  OrphansAccounted' /\ OneAhead'
  <2> DEFINE s == cycle.current
  <2>1. cycle.current # Never /\ failures' = failures + 1 /\ step' = 1 /\ s \in ScheduleIds
    BY <1>5 DEF RequestFails, BeginNext, ChainTypeOK, TypeOK
  <2>2. /\ \A q \in ScheduleIds \ {s} : made'[q] = made[q]
        /\ \A n \in 1 .. 3 : made'[s][n] >= made'[s][n + 1]
        /\ made'[s][1] - made'[s][4] <= failures + 1
    <3>1. CASE Serve
      <4>1. made'[s][1] \in Nat /\ made'[s][4] \in Nat
        BY <2>1, <3>1, ServedRecords DEF Requests
      <4> QED
        BY <1>0, <2>1, <3>1, <4>1, ServedRecords
    <3>2. CASE made' = made
      BY <1>0, <2>1, <3>2 DEF OrphansAccounted, Unfinished
    <3> QED
      BY <1>5, <3>1, <3>2 DEF RequestFails
  <2>3. \A q \in ScheduleIds \ {s} : Unfinished(q) = 0
    BY DEF Unfinished
  <2>4. \A q \in ScheduleIds : Unfinished(q)' = 0
    BY <2>1 DEF Unfinished
  <2> QED
    BY <1>0, <2>1, <2>2, <2>3, <2>4 DEF OrphansAccounted, OneAhead
<1>6. CASE Elsewhere
  BY <1>1, <1>6 DEF Elsewhere, chainVars, CreateSchedule, DeleteSchedule, Tick
<1>7. CASE UNCHANGED serviceVars
  BY <1>1, <1>7 DEF serviceVars, chainVars, vars
<1> QED
  BY <1>2, <1>3, <1>4, <1>5, <1>6, <1>7 DEF ChainNext, RequestEnds
-----------------------------------------------------------------------------

\* The dates, when the cycle goes on and no approval is served.
LEMMA QuietStep ==
    ASSUME ChainTypeOK, ChainDates, UNCHANGED <<schedules, registered, clock, triggers, lost>>,
           NEW due \in SUBSET ScheduleIds, NEW now \in 0 .. MaxTime, BeginNext(due, now),
           now <= clock,
           \A s \in due : schedules[s] # Never /\ schedules[s].next <= now,
           \A s \in due : \A i \in DOMAIN triggers[s] : triggers[s][i] <= now
    PROVE  ChainDates'
<1>1. /\ \A q \in ScheduleIds : Held(q)' => q \in due /\ cycle'.now = now
      /\ cycle'.current \notin cycle'.due
      /\ cycle'.now = now \/ cycle'.now = 0
  BY BeginNextEffect
<1>2. AnsweredSpaced' /\ AnsweredDates' /\ LastAnswered' /\ LostServed' /\ Unmade'
  BY DEF ChainDates, AnsweredSpaced, AnsweredDates, Answered, LastAnswered, LostServed, Unmade,
         NextAfter
<1>3. HeldDue'
  BY <1>1 DEF HeldDue
<1>4. ChainPast'
  <2>1. cycle'.now <= clock'
    BY <1>1, SchedulesAssumption DEF ChainTypeOK, TypeOK
  <2>2. \A s \in ScheduleIds : \A i \in DOMAIN triggers'[s] :
           /\ triggers'[s][i] <= clock'
           /\ Held(s)' => triggers'[s][i] <= cycle'.now
    BY <1>1 DEF ChainDates, ChainPast
  <2> QED
    BY <2>1, <2>2 DEF ChainPast
<1> QED
  BY <1>2, <1>3, <1>4 DEF ChainDates

\* The approval that is served now is an interval later than those before it that
\* were answered.
LEMMA NotTooEarly ==
    ASSUME ChainTypeOK, ChainDates, cycle.current # Never,
           NEW i \in Answered(cycle.current),
           NextAfter(cycle.current, triggers[cycle.current][i]) <= MaxDate
    PROVE  cycle.now >= NextAfter(cycle.current, triggers[cycle.current][i])
<1> DEFINE s == cycle.current
           old == triggers[s]
           d == schedules[s].interval
<1>1. /\ s \in ScheduleIds /\ schedules[s] # Never /\ schedules[s].next <= cycle.now
      /\ cycle.now \in Nat /\ d \in Nat /\ schedules[s].next \in Nat
      /\ \A j \in DOMAIN old : old[j] \in Nat /\ old[j] <= cycle.now
      /\ \A j \in DOMAIN old : j \in Nat
  <2>1. s \in ScheduleIds /\ cycle.now \in Nat /\ old \in Seq(0 .. MaxTime)
    BY DEF ChainTypeOK, TypeOK
  <2>2. schedules[s] # Never /\ schedules[s].next <= cycle.now
    BY <2>1 DEF ChainDates, HeldDue, Held
  <2>3. schedules[s] \in ScheduleDef
    BY <2>1, <2>2 DEF ChainTypeOK, TypeOK
  <2>4. d \in Nat /\ schedules[s].next \in Nat
    BY <2>3, SchedulesAssumption DEF ScheduleDef
  <2>5. \A j \in DOMAIN old : old[j] \in Nat /\ j \in Nat
    BY <2>1, SchedulesAssumption
  <2>6. \A j \in DOMAIN old : old[j] <= cycle.now
    BY <2>1 DEF ChainDates, ChainPast, Held
  <2> QED
    BY <2>1, <2>2, <2>4, <2>5, <2>6
<1>2. PICK m \in Answered(s) : \A j \in Answered(s) : j <= m
  BY <1>1 DEF ChainDates, LastAnswered
<1>3. /\ i \in DOMAIN old /\ <<s, i>> \notin lost /\ i <= m
      /\ m \in DOMAIN old /\ <<s, m>> \notin lost
  BY <1>2 DEF Answered
<1>4. /\ schedules[s].last = old[m]
      /\ old[m] + d <= MaxDate => schedules[s].next = old[m] + d
  BY <1>1, <1>2 DEF ChainDates, AnsweredDates, NextAfter
<1>5. old[i] + d <= MaxDate
  BY DEF NextAfter
<1>6. i < m => old[m] >= old[i] + d
  BY <1>1, <1>3, <1>5 DEF ChainDates, AnsweredSpaced, NextAfter
<1> HIDE DEF s, old, d
<1>7. cycle.now >= old[i] + d
  BY <1>1, <1>3, <1>4, <1>5, <1>6, SchedulesAssumption
<1> QED
  BY <1>7 DEF NextAfter, s, old, d

\* An approval of the schedule in hand is served.
LEMMA ApprovalStep ==
    ASSUME ChainTypeOK, ChainTypeOK', ChainDates,
           NEW s \in ScheduleIds, s = cycle.current, NEW now \in 0 .. MaxTime, now = cycle.now,
           step = Approve, Serve, UNCHANGED <<registered, clock>>,
           NEW due \in SUBSET cycle.due, BeginNext(due, now),
           NEW answered \in BOOLEAN,
           lost' = IF answered THEN lost ELSE lost \cup {<<s, Len(triggers[s]) + 1>>},
           \A q \in ScheduleIds \ {s} : schedules'[q] = schedules[q],
           \/ ~answered /\ schedules'[s] = schedules[s]
           \/ /\ answered
              /\ schedules'[s] \in ScheduleDef
              /\ schedules'[s].interval = schedules[s].interval
              /\ schedules'[s].last = now
              /\ NextAfter(s, now) <= MaxDate => schedules'[s].next = NextAfter(s, now)
    PROVE  ChainDates'
<1> DEFINE n == Len(triggers[s])
<1>0. /\ s # Never /\ clock \in Nat /\ now \in Nat /\ now <= clock
      /\ schedules[s] # Never /\ schedules[s] \in ScheduleDef
      /\ cycle.due \in SUBSET ScheduleIds
      /\ \A q \in ScheduleIds : \A k \in DOMAIN triggers[q] : k \in Nat
      /\ \A q \in ScheduleIds : \A k \in DOMAIN triggers'[q] : k \in Nat
  <2>1. TypeOK /\ TypeOK'
    BY DEF ChainTypeOK
  <2>2. s # Never /\ clock \in Nat /\ now \in Nat /\ now <= clock
    BY <2>1, SchedulesAssumption DEF TypeOK, ChainDates, ChainPast
  <2>3. /\ schedules[s] # Never /\ schedules[s] \in ScheduleDef
        /\ cycle.due \in SUBSET ScheduleIds
    BY <2>1 DEF TypeOK, ChainDates, HeldDue, Held
  <2>4. \A q \in ScheduleIds : triggers[q] \in Seq(0 .. MaxTime) /\ triggers'[q] \in Seq(0 .. MaxTime)
    BY <2>1 DEF TypeOK
  <2> QED
    BY <2>2, <2>3, <2>4
<1>1. /\ triggers[s] \in Seq(0 .. MaxTime)
      /\ n \in Nat /\ DOMAIN triggers[s] = 1 .. n
      /\ triggers'[s] = Append(triggers[s], now)
      /\ DOMAIN triggers'[s] = 1 .. n + 1
      /\ \A i \in 1 .. n : triggers'[s][i] = triggers[s][i]
      /\ triggers'[s][n + 1] = now
      /\ \A q \in ScheduleIds \ {s} : triggers'[q] = triggers[q]
  <2>1. triggers[s] \in Seq(0 .. MaxTime)
    BY <1>0 DEF ChainTypeOK, TypeOK
  <2>2. /\ triggers'[s] = Append(triggers[s], now)
        /\ \A q \in ScheduleIds \ {s} : triggers'[q] = triggers[q]
    BY <1>0, ServeEffect
  <2> QED
    BY <2>1, <2>2, <1>0
<1>2. /\ \A q \in ScheduleIds : Held(q)' => q \in due /\ cycle'.now = now
      /\ cycle'.current \notin cycle'.due
      /\ cycle'.now = now \/ cycle'.now = 0
  BY <1>0, BeginNextEffect
<1>3. s \notin due
  BY DEF ChainDates, HeldDue
<1>4. /\ schedules'[s] # Never
      /\ schedules'[s].interval = schedules[s].interval
  BY <1>0, SchedulesAssumption
<1>5. /\ \A q \in ScheduleIds : schedules'[q] = Never <=> schedules[q] = Never
      /\ \A q \in ScheduleIds : schedules'[q].interval = schedules[q].interval
  BY <1>0, <1>4
<1>6. \A q \in ScheduleIds : \A i \in Nat :
         <<q, i>> \in lost' <=> <<q, i>> \in lost \/ (~answered /\ q = s /\ i = n + 1)
  BY <1>1
<1>7. <<s, n + 1>> \notin lost
  BY <1>0, <1>1 DEF ChainDates, LostServed
<1>8. /\ \A q \in ScheduleIds \ {s} : Answered(q)' = Answered(q)
      /\ Answered(s)' = IF answered THEN Answered(s) \cup {n + 1} ELSE Answered(s)
      /\ Answered(s) \subseteq 1 .. n
  <2>2. ASSUME NEW q \in ScheduleIds \ {s} PROVE Answered(q)' = Answered(q)
    BY <1>0, <1>1, <1>6, <2>2 DEF Answered
  <2>3. Answered(s)' = IF answered THEN Answered(s) \cup {n + 1} ELSE Answered(s)
    BY <1>0, <1>1, <1>6, <1>7 DEF Answered
  <2> QED
    BY <1>1, <2>2, <2>3 DEF Answered
<1> HIDE DEF n
<1>9. AnsweredSpaced'
  <2> SUFFICES ASSUME NEW q \in ScheduleIds, NEW i \in DOMAIN triggers'[q],
                      NEW j \in DOMAIN triggers'[q], i < j, <<q, i>> \notin lost',
                      triggers'[q][i] + schedules'[q].interval <= MaxDate
               PROVE  triggers'[q][j] >= triggers'[q][i] + schedules'[q].interval
    BY DEF AnsweredSpaced, NextAfter
  <2>1. CASE q # s
    BY <1>0, <1>1, <1>5, <1>6, <2>1 DEF ChainDates, AnsweredSpaced, NextAfter
  <2>2. CASE q = s /\ j <= n
    <3>1. i \in 1 .. n /\ j \in 1 .. n /\ <<s, i>> \notin lost
      BY <1>1, <1>6, <2>2
    <3> QED
      BY <1>0, <1>1, <1>5, <2>2, <3>1 DEF ChainDates, AnsweredSpaced, NextAfter
  <2>3. CASE q = s /\ j = n + 1
    <3>1. i \in 1 .. n /\ <<s, i>> \notin lost
      BY <1>1, <1>6, <2>3
    <3>2. i \in Answered(s)
      BY <1>1, <3>1 DEF Answered
    <3>3. NextAfter(s, triggers[s][i]) <= MaxDate
      BY <1>1, <1>5, <2>3, <3>1 DEF NextAfter
    <3>4. now >= NextAfter(s, triggers[s][i])
      BY <1>0, <3>2, <3>3, NotTooEarly
    <3> QED
      BY <1>1, <1>5, <2>3, <3>1, <3>4 DEF NextAfter
  <2> QED
    BY <1>1, <2>1, <2>2, <2>3
<1>10. AnsweredDates'
  <2>1. ASSUME NEW q \in ScheduleIds \ {s}, schedules[q] # Never
        PROVE  /\ schedules'[q].last = Never <=> Answered(q)' = {}
               /\ \A i \in Answered(q)' : (\A j \in Answered(q)' : j <= i) =>
                     /\ schedules'[q].last = triggers'[q][i]
                     /\ NextAfter(q, schedules[q].last)' <= MaxDate =>
                           schedules'[q].next = NextAfter(q, schedules[q].last)'
    <3>1. /\ Answered(q)' = Answered(q) /\ schedules'[q] = schedules[q]
          /\ triggers'[q] = triggers[q]
      BY <1>1, <1>8
    <3> QED
      BY <2>1, <3>1 DEF ChainDates, AnsweredDates, NextAfter
  <2>2. /\ schedules'[s].last = Never <=> Answered(s)' = {}
        /\ \A i \in Answered(s)' : (\A j \in Answered(s)' : j <= i) =>
              /\ schedules'[s].last = triggers'[s][i]
              /\ NextAfter(s, schedules[s].last)' <= MaxDate =>
                    schedules'[s].next = NextAfter(s, schedules[s].last)'
    <3>1. CASE answered
      <4>1. /\ schedules'[s].last = now
            /\ NextAfter(s, now) <= MaxDate => schedules'[s].next = NextAfter(s, now)
        BY <3>1
      <4>2. now # Never /\ Answered(s)' # {}
        BY <1>0, <1>8, <3>1, SchedulesAssumption
      <4>3. \A i \in Answered(s)' : (\A j \in Answered(s)' : j <= i) => i = n + 1
        BY <1>1, <1>8, <3>1
      <4>4. NextAfter(s, now)' = NextAfter(s, now)
        BY <1>4 DEF NextAfter
      <4>5. NextAfter(s, schedules[s].last)' = NextAfter(s, now)
        BY <1>4, <4>1 DEF NextAfter
      <4> QED
        BY <1>1, <4>1, <4>2, <4>3, <4>5
    <3>2. CASE ~answered
      <4>1. schedules'[s] = schedules[s] /\ Answered(s)' = Answered(s)
        BY <1>8, <3>2
      <4>2. \A i \in Answered(s) : triggers'[s][i] = triggers[s][i]
        BY <1>1, <1>8
      <4> QED
        BY <1>0, <4>1, <4>2 DEF ChainDates, AnsweredDates, NextAfter
    <3> QED
      BY <3>1, <3>2
  <2> QED
    BY <1>5, <2>1, <2>2 DEF AnsweredDates
<1>11. LastAnswered'
  <2>1. ASSUME answered PROVE n + 1 \in Answered(s)' /\ \A j \in Answered(s)' : j <= n + 1
    BY <1>1, <1>8, <2>1
  <2> QED
    BY <1>0, <1>8, <2>1 DEF ChainDates, LastAnswered
<1>12. LostServed'
  <2> SUFFICES ASSUME NEW q \in ScheduleIds, NEW i \in Nat, <<q, i>> \in lost'
               PROVE  i \in DOMAIN triggers'[q]
    BY DEF LostServed
  <2>1. \/ <<q, i>> \in lost
        \/ q = s /\ i = n + 1
    BY <1>6
  <2> QED
    BY <1>1, <2>1 DEF ChainDates, LostServed
<1>13. HeldDue'
  <2>1. \A q \in due : /\ q \in ScheduleIds /\ schedules'[q] = schedules[q]
                       /\ schedules[q] # Never /\ schedules[q].next <= now
    BY <1>0, <1>3 DEF ChainDates, HeldDue, Held
  <2> QED
    BY <1>2, <2>1 DEF HeldDue
<1>14. ChainPast'
  <2>1. cycle'.now <= clock'
    BY <1>0, <1>2
  <2>2. ASSUME NEW q \in ScheduleIds \ {s}, NEW i \in DOMAIN triggers'[q]
        PROVE  triggers'[q][i] <= clock' /\ (Held(q)' => triggers'[q][i] <= cycle'.now)
    <3>1. triggers'[q] = triggers[q]
      BY <1>1
    <3>2. q \in due => Held(q)
      BY DEF Held
    <3> QED
      BY <1>2, <2>2, <3>1, <3>2 DEF ChainDates, ChainPast
  <2>3. ASSUME NEW i \in DOMAIN triggers'[s]
        PROVE  triggers'[s][i] <= clock' /\ ~Held(s)'
    BY <1>0, <1>1, <1>2, <1>3, <2>3 DEF ChainDates, ChainPast
  <2> QED
    BY <2>1, <2>2, <2>3 DEF ChainPast
<1>15. Unmade'
  <2>1. registered \subseteq ScheduleIds
    BY DEF ChainTypeOK, TypeOK
  <2> QED
    BY <1>0, <1>1, <1>5, <2>1 DEF ChainDates, Unmade
<1> QED
  BY <1>9, <1>10, <1>11, <1>12, <1>13, <1>14, <1>15 DEF ChainDates
\* The routes and the clock leave the dates true.
LEMMA ElsewhereStep == ChainTypeOK /\ ChainDates /\ Elsewhere => ChainDates'
<1> SUFFICES ASSUME ChainTypeOK, ChainDates, Elsewhere PROVE ChainDates'
  OBVIOUS
<1>0. UNCHANGED <<cycle, triggers, lost>>
  BY DEF Elsewhere, chainVars, CreateSchedule, DeleteSchedule, Tick
<1>1. ASSUME NEW s \in ScheduleIds, NEW interval \in Intervals, NEW next \in 0 .. MaxTime,
             CreateSchedule(s, interval, next)
      PROVE ChainDates'
  <2>1. /\ schedules[s] = Never /\ triggers[s] = <<>> /\ ~Held(s)
        /\ Answered(s) = {}
    BY <1>1 DEF CreateSchedule, ChainDates, Unmade, HeldDue, Answered
  <2>2. /\ schedules'[s] # Never /\ schedules'[s].last = Never
        /\ \A q \in ScheduleIds \ {s} : schedules'[q] = schedules[q]
        /\ clock' = clock
        /\ registered' = registered \cup {s}
    <3>1. [interval |-> interval, next |-> next, last |-> Never] \in ScheduleDef
      BY DEF ScheduleDef
    <3>2. [interval |-> interval, next |-> next, last |-> Never] # Never
      BY <3>1, SchedulesAssumption
    <3> QED
      BY <1>1, <3>2 DEF CreateSchedule, ChainTypeOK, TypeOK
  <2>3. \A q \in ScheduleIds : Answered(q)' = Answered(q) /\ Held(q)' = Held(q)
    BY <1>0 DEF Answered, Held
  <2>4. AnsweredSpaced'
    BY <1>0, <2>1, <2>2 DEF ChainDates, AnsweredSpaced, NextAfter
  <2>5. AnsweredDates'
    BY <1>0, <2>1, <2>2, <2>3 DEF ChainDates, AnsweredDates, NextAfter
  <2>6. HeldDue' /\ ChainPast'
    BY <1>0, <2>1, <2>2, <2>3 DEF ChainDates, HeldDue, ChainPast
  <2>7. LastAnswered' /\ LostServed'
    BY <1>0, <2>3 DEF ChainDates, LastAnswered, LostServed
  <2>8. Unmade'
    BY <1>0, <2>1, <2>2 DEF ChainDates, Unmade, ChainTypeOK, TypeOK
  <2> QED
    BY <2>4, <2>5, <2>6, <2>7, <2>8 DEF ChainDates
<1>2. ASSUME NEW s \in ScheduleIds, DeleteSchedule(s)
      PROVE ChainDates'
  <2>1. UNCHANGED <<schedules, clock>> /\ registered' \subseteq registered
    BY <1>2 DEF DeleteSchedule
  <2> QED
    BY <1>0, <2>1 DEF ChainDates, AnsweredSpaced, AnsweredDates, Answered, HeldDue, Held, ChainPast,
                      LastAnswered, LostServed, Unmade, NextAfter
<1>3. ASSUME Tick PROVE ChainDates'
  <2>1. /\ UNCHANGED <<schedules, registered>>
        /\ clock' = clock + 1 /\ clock \in Nat
    BY <1>3, SchedulesAssumption DEF Tick, ChainTypeOK, TypeOK
  <2>2. ChainPast'
    <3>1. /\ cycle.now \in Nat
          /\ \A s \in ScheduleIds : \A i \in DOMAIN triggers[s] : triggers[s][i] \in Nat
      BY SchedulesAssumption DEF ChainTypeOK, TypeOK
    <3> QED
      BY <1>0, <2>1, <3>1 DEF ChainDates, ChainPast, Held
  <2> QED
    BY <1>0, <2>1, <2>2 DEF ChainDates, AnsweredSpaced, AnsweredDates, Answered, HeldDue, Held,
                            LastAnswered, LostServed, Unmade, NextAfter
<1> QED
  BY <1>1, <1>2, <1>3 DEF Elsewhere

LEMMA ChainDatesStep ==
    ASSUME ChainTypeOK, ChainTypeOK', ChainDates, [ChainNext]_serviceVars
    PROVE  ChainDates'
<1>0. /\ TypeOK /\ cycle.due \in SUBSET ScheduleIds /\ cycle.now \in 0 .. MaxTime
      /\ clock \in 0 .. MaxTime /\ registered \in SUBSET ScheduleIds
      /\ HeldDue /\ ChainPast
  BY DEF ChainTypeOK, TypeOK, ChainDates
<1>1. CASE Elsewhere
  BY <1>1, ElsewhereStep
<1>2. CASE BeginCycle
  <2> DEFINE due == {s \in registered : schedules[s].next <= clock}
  <2>1. /\ due \in SUBSET ScheduleIds /\ BeginNext(due, clock) /\ clock <= clock
        /\ UNCHANGED <<schedules, registered, clock, triggers, lost>>
    BY <1>0, <1>2, SchedulesAssumption DEF BeginCycle
  <2>2. /\ \A s \in due : schedules[s] # Never /\ schedules[s].next <= clock
        /\ \A s \in due : \A i \in DOMAIN triggers[s] : triggers[s][i] <= clock
    BY <1>0 DEF ChainDates, Unmade, ChainPast
  <2> HIDE DEF due
  <2> QED
    BY <1>0, <2>1, <2>2, QuietStep
<1>3. CASE RequestAnswered
  <2>1. UNCHANGED <<schedules, registered, clock, cycle, triggers, lost>>
    <3>1. step # Approve
      BY <1>3 DEF RequestAnswered, ChainTypeOK, Requests, Approve
    <3> QED
      BY <1>3, <3>1, ServeEffect DEF RequestAnswered
  <2> QED
    BY <2>1 DEF ChainDates, AnsweredSpaced, AnsweredDates, Answered, HeldDue, Held, ChainPast,
                LastAnswered, LostServed, Unmade, NextAfter
<1>4. CASE ApprovalAnswered
  <2>1. PICK s \in ScheduleIds, now \in 0 .. MaxTime : s = cycle.current /\ now = cycle.now
    BY <1>0, <1>4 DEF ApprovalAnswered, TypeOK
  <2>2. PICK due \in SUBSET cycle.due : BeginNext(due, cycle.now)
    BY <1>0, <1>4, ApprovalSetsDates
  <2>3. /\ step = Approve /\ Serve /\ UNCHANGED <<registered, clock>> /\ lost' = lost
        /\ BeginNext(due, now)
    BY <1>4, <2>1, <2>2 DEF ApprovalAnswered
  <2>4. /\ schedules'[s] \in ScheduleDef
        /\ schedules'[s].interval = schedules[s].interval
        /\ schedules'[s].last = now
        /\ NextAfter(s, now) <= MaxDate => schedules'[s].next = NextAfter(s, now)
        /\ \A q \in ScheduleIds \ {s} : schedules'[q] = schedules[q]
    BY <1>0, <1>4, <2>1, ApprovalSetsDates
  <2>5. TRUE \in BOOLEAN
    OBVIOUS
  <2>6. lost' = IF TRUE THEN lost ELSE lost \cup {<<s, Len(triggers[s]) + 1>>}
    BY <2>3
  <2> QED
    BY <2>1, <2>2, <2>3, <2>4, <2>5, <2>6, ApprovalStep
<1>5. ASSUME NEW served \in BOOLEAN, NEW raised \in BOOLEAN, RequestFails(served, raised)
      PROVE  ChainDates'
  <2>1. PICK s \in ScheduleIds, now \in 0 .. MaxTime : s = cycle.current /\ now = cycle.now
    BY <1>0, <1>5 DEF RequestFails, TypeOK
  <2>2. PICK due \in SUBSET cycle.due : BeginNext(due, now)
    BY <1>5, <2>1 DEF RequestFails
  <2>3. UNCHANGED <<schedules, registered, clock>>
    BY <1>5 DEF RequestFails
  <2>4. CASE served /\ step = Approve
    <3>1. Serve /\ lost' = lost \cup {<<s, Len(triggers[s]) + 1>>}
      BY <1>5, <2>1, <2>4 DEF RequestFails
    <3>2. FALSE \in BOOLEAN
      OBVIOUS
    <3>3. lost' = IF FALSE THEN lost ELSE lost \cup {<<s, Len(triggers[s]) + 1>>}
      BY <3>1
    <3> QED
      BY <2>1, <2>2, <2>3, <2>4, <3>1, <3>2, <3>3, ApprovalStep
  <2>5. CASE ~(served /\ step = Approve)
    <3>1. triggers' = triggers /\ lost' = lost
      BY <1>5, <2>5, ServeEffect DEF RequestFails
    <3>2. /\ due \in SUBSET ScheduleIds /\ now <= clock
          /\ \A q \in due : schedules[q] # Never /\ schedules[q].next <= now
          /\ \A q \in due : \A i \in DOMAIN triggers[q] : triggers[q][i] <= now
      BY <1>0, <2>1 DEF HeldDue, ChainPast, Held
    <3> QED
      BY <2>1, <2>2, <2>3, <3>1, <3>2, QuietStep
  <2> QED
    BY <2>4, <2>5
<1>6. CASE UNCHANGED serviceVars
  <2>1. UNCHANGED <<schedules, registered, clock, cycle, triggers, lost>>
    BY <1>6 DEF serviceVars, chainVars, vars
  <2> QED
    BY <2>1 DEF ChainDates, AnsweredSpaced, AnsweredDates, Answered, HeldDue, Held, ChainPast,
                LastAnswered, LostServed, Unmade, NextAfter
<1> QED
  BY <1>1, <1>2, <1>3, <1>4, <1>5, <1>6 DEF ChainNext, RequestEnds

\* The cycle goes on: the approvals served are served in turn.
LEMMA ApprovedStep ==
    ASSUME ChainTypeOK, ChainDates, ApprovedInTurn, [ChainNext]_serviceVars
    PROVE  ApprovedInTurn'
<1> USE DEF ChainTypeOK
<1>0. /\ cycle.due \in SUBSET ScheduleIds /\ cycle.now \in 0 .. MaxTime /\ clock \in 0 .. MaxTime
      /\ registered \in SUBSET ScheduleIds /\ cycle.now <= clock
      /\ cycle.current \notin cycle.due /\ cycle.current \in ScheduleIds \cup {Never}
  BY DEF TypeOK, ChainDates, ChainPast, HeldDue
<1>1. ASSUME UNCHANGED <<triggers, issued, cycle>>, clock' = clock \/ clock' = clock + 1
      PROVE  ApprovedInTurn'
  <2>1. clock \in Nat /\ \A s \in ScheduleIds : \A i \in 1 .. Len(triggers[s]) : issued[s][i] \in Nat
    <3>1. ASSUME NEW s \in ScheduleIds, NEW i \in 1 .. Len(triggers[s]) PROVE issued[s][i] \in Nat
      <4>1. issued[s] \in Seq(0 .. MaxTime) /\ i \in 1 .. Len(issued[s])
        BY DEF TypeOK, ApprovedInTurn, InTurn
      <4> QED
        BY <4>1, SchedulesAssumption
    <3> QED
      BY <1>0, <3>1, SchedulesAssumption
  <2> QED
    BY <1>1, <2>1 DEF ApprovedInTurn, InTurn, MadeBefore, Held
<1>2. ASSUME NEW due \in SUBSET ScheduleIds, NEW now \in 0 .. MaxTime, BeginNext(due, now), InTurn',
             \A q \in due : \A i \in 1 .. Len(triggers'[q]) : issued'[q][i] <= now
      PROVE  ApprovedInTurn'
  <2>1. \A q \in ScheduleIds : Held(q)' => q \in due /\ cycle'.now = now
    BY <1>2, BeginNextEffect
  <2>2. \A q \in ScheduleIds : Held(q)' =>
           \A i \in 1 .. Len(triggers'[q]) : issued'[q][i] <= cycle'.now
    BY <1>2, <2>1
  <2> HIDE DEF ChainTypeOK
  <2> QED
    BY <1>2, <2>2 DEF ApprovedInTurn, MadeBefore
<1>3. CASE BeginCycle
  <2> DEFINE due == {s \in registered : schedules[s].next <= clock}
  <2>1. due \in SUBSET ScheduleIds /\ BeginNext(due, clock) /\ UNCHANGED <<clock, triggers, issued>>
    BY <1>0, <1>3 DEF BeginCycle
  <2>2. InTurn' /\ \A q \in due : \A i \in 1 .. Len(triggers'[q]) : issued'[q][i] <= clock
    BY <2>1 DEF ApprovedInTurn, InTurn
  <2> HIDE DEF due
  <2> QED
    BY <1>0, <1>2, <2>1, <2>2
<1>4. CASE RequestAnswered
  <2>1. UNCHANGED <<triggers, issued, cycle, clock>>
    <3>1. cycle.current # Never /\ step # Approve /\ Serve /\ UNCHANGED <<cycle, clock>>
      BY <1>4 DEF RequestAnswered, Requests, Approve
    <3> QED
      BY <3>1, ServeEffect
  <2> QED
    BY <1>1, <2>1
<1>5. ASSUME cycle.current # Never, clock' = clock,
             Serve \/ UNCHANGED <<made, triggers, issued>>,
             NEW due \in SUBSET cycle.due, BeginNext(due, cycle.now)
      PROVE  ApprovedInTurn'
  <2> DEFINE s == cycle.current
  <2>1. s \in ScheduleIds /\ MadeBefore({s}, cycle.now) /\ InTurn
    BY <1>0, <1>5 DEF ApprovedInTurn, MadeBefore, Held
  <2>2. /\ InTurn'
        /\ \A q \in ScheduleIds \ {s} : triggers'[q] = triggers[q] /\ issued'[q] = issued[q]
    <3>1. CASE UNCHANGED <<triggers, issued>>
      BY <1>5, <2>1, <3>1 DEF InTurn
    <3>2. CASE /\ triggers' = [triggers EXCEPT ![s] = Append(@, cycle.now)]
               /\ issued' = [issued EXCEPT ![s] = Append(@, clock)]
      <4>1. InTurn'
        BY <1>0, <1>5, <2>1, <3>2, Issue
      <4> QED
        BY <3>2, <4>1 DEF TypeOK
    <3> QED
      BY <1>5, <3>1, <3>2, ServeEffect
  <2>3. \A q \in due : \A i \in 1 .. Len(triggers'[q]) : issued'[q][i] <= cycle.now
    BY <1>0, <1>5, <2>2 DEF ApprovedInTurn, MadeBefore, Held
  <2> QED
    BY <1>0, <1>2, <1>5, <2>2, <2>3
<1>6. CASE ApprovalAnswered
  <2>1. PICK due \in SUBSET cycle.due : BeginNext(due, cycle.now)
    BY <1>6, ApprovalSetsDates DEF ChainDates
  <2> QED
    BY <1>5, <1>6, <2>1 DEF ApprovalAnswered
<1>7. ASSUME NEW served \in BOOLEAN, NEW raised \in BOOLEAN, RequestFails(served, raised)
      PROVE  ApprovedInTurn'
  <2>1. PICK due \in SUBSET cycle.due : BeginNext(due, cycle.now)
    BY <1>7 DEF RequestFails
  <2> QED
    BY <1>5, <1>7, <2>1 DEF RequestFails
<1>8. CASE Elsewhere
  BY <1>1, <1>8 DEF Elsewhere, chainVars, CreateSchedule, DeleteSchedule, Tick
<1>9. CASE UNCHANGED serviceVars
  BY <1>1, <1>9 DEF serviceVars, vars
<1> QED
  BY <1>3, <1>4, <1>6, <1>7, <1>8, <1>9 DEF ChainNext, RequestEnds

-----------------------------------------------------------------------------
\* The invariant of wo-scheduler holds in every reachable state.
THEOREM ChainInvariance == ChainSpec => []ChainIInv
<1>1. ChainIInv /\ [ChainNext]_serviceVars => ChainIInv'
  <2> SUFFICES ASSUME ChainIInv, [ChainNext]_serviceVars PROVE ChainIInv'
    OBVIOUS
  <2>1. ChainTypeOK'
    BY ChainTypeStep DEF ChainIInv, ChainDates
  <2>2. ChainDates'
    BY <2>1, ChainDatesStep DEF ChainIInv
  <2>3. OrphansAccounted' /\ OneAhead'
    BY RecordsStep DEF ChainIInv, ChainDates
  <2>4. ApprovedInTurn'
    BY ApprovedStep DEF ChainIInv
  <2> QED
    BY <2>1, <2>2, <2>3, <2>4 DEF ChainIInv
<1> QED
  BY ChainInitIInv, <1>1, PTL DEF ChainSpec

\* wo-scheduler's variables keep their types.
THEOREM ChainTypeCorrect == ChainSpec => []ChainTypeOK
<1>1. ChainIInv => ChainTypeOK
  BY DEF ChainIInv
<1> QED
  BY <1>1, ChainInvariance, PTL

\* wo-scheduler has no estimate of a schedule approved twice in a cycle, nor within
\* interval_days of the beginning of an earlier cycle whose approval was answered.
THEOREM ApprovalsAlwaysSpaced == ChainSpec => []ApprovalsSpaced
<1>1. ChainIInv => ApprovalsSpaced
  <2> SUFFICES ASSUME ChainIInv, NEW s \in ScheduleIds, NEW i \in DOMAIN triggers[s],
                      NEW j \in DOMAIN triggers[s], i < j
               PROVE  /\ issued[s][i] <= triggers[s][j]
                      /\ <<s, i>> \notin lost /\ NextAfter(s, triggers[s][i]) <= MaxDate =>
                            issued[s][j] >= NextAfter(s, triggers[s][i])
    BY DEF ApprovalsSpaced
  <2>1. /\ issued[s][i] <= triggers[s][j] /\ triggers[s][j] <= issued[s][j]
        /\ triggers[s][j] \in Nat /\ issued[s][j] \in Nat /\ triggers[s][i] \in Nat
    BY InTurnOf DEF ChainIInv, ChainTypeOK, ApprovedInTurn
  <2>2. schedules[s].interval \in Nat
    BY IntervalOf DEF ChainIInv, ChainTypeOK, ChainDates
  <2>3. <<s, i>> \notin lost /\ NextAfter(s, triggers[s][i]) <= MaxDate =>
           triggers[s][j] >= NextAfter(s, triggers[s][i])
    BY DEF ChainIInv, ChainDates, AnsweredSpaced
  <2> QED
    BY <2>1, <2>2, <2>3 DEF NextAfter
<1> QED
  BY <1>1, ChainInvariance, PTL

\* last_triggered_at is the date of the last approval that was answered.
THEOREM DatesAlwaysAnswered == ChainSpec => []AnsweredDates
<1>1. ChainIInv => AnsweredDates
  BY DEF ChainIInv, ChainDates
<1> QED
  BY <1>1, ChainInvariance, PTL

\* The issues, tickets and estimates without an approval are at most as many as the
\* requests of _trigger_chain that failed, and the one under way.
THEOREM OrphansAlwaysAccounted == ChainSpec => []OrphansAccounted
<1>1. ChainIInv => OrphansAccounted
  BY DEF ChainIInv
<1> QED
  BY <1>1, ChainInvariance, PTL

=============================================================================

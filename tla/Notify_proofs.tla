---------------------------- MODULE Notify_proofs ----------------------------
EXTENDS Dispatcher, TLAPS

(***************************************************************************)
(* The inductive invariant adds to LogExact and VerdictHonest only where a *)
(* call that has not returned may be: an attempt is counted as soon as it  *)
(* begins, and a call that sleeps has attempts left.                       *)
(***************************************************************************)
AttemptsCounted ==
    \A c \in Calls :
       /\ phase[c] = "idle" => attempt[c] = 0
       /\ phase[c] # "idle" => attempt[c] >= 1
       /\ phase[c] = "backoff" => attempt[c] < MaxAttempts

IInv == TypeOK /\ AttemptsCounted /\ LogExact /\ VerdictHonest

-----------------------------------------------------------------------------

\* One handler's step: c is at attempt k after it, which it has begun or was at,
\* and either goes on or returns with a record.
Goes(c, k, p, n) ==
    /\ phase' = [phase EXCEPT ![c] = p]
    /\ attempt' = [attempt EXCEPT ![c] = k]
    /\ received' = [received EXCEPT ![c] = n]
    /\ p \in {"calling", "backoff"}
    /\ p = "backoff" => k < MaxAttempts
    /\ deliveryLog' = deliveryLog

Returns(c, k, p, n) ==
    /\ phase' = [phase EXCEPT ![c] = p]
    /\ attempt' = [attempt EXCEPT ![c] = k]
    /\ received' = [received EXCEPT ![c] = n]
    /\ \/ p = "success" /\ n >= 1
       \/ p = "error" /\ k = MaxAttempts
    /\ deliveryLog' = Append(deliveryLog, [call |-> c, status |-> p, attempt |-> k])

\* Every step of a call is one of the two, and never of a call that returned.
StepShape(c) ==
    /\ phase[c] \notin Verdicts
    /\ UNCHANGED adapter
    /\ \E k \in 1 .. MaxAttempts, p \in Phases, n \in Nat :
          /\ n \in {received[c], received[c] + 1} /\ n <= k
          /\ p = "calling" => n < k
          /\ Goes(c, k, p, n) \/ Returns(c, k, p, n)

LEMMA BeginShape ==
    ASSUME IInv, NEW c \in Calls, phase[c] \in {"idle", "backoff"}, UNCHANGED adapter,
           NEW k \in 1 .. MaxAttempts, k = attempt[c] + 1, BeginAttempt(c, k)
    PROVE  StepShape(c)
<1> USE DEF IInv, TypeOK, VerdictHonest
<1>1. received[c] \in Nat /\ received[c] < k /\ attempt[c] \in Nat /\ k \in Nat
  BY NotifyAssumption
<1>2. phase[c] \notin Verdicts
  BY DEF Verdicts
<1>3. CASE adapter = "email"
  <2>1. Returns(c, k, "success", received[c] + 1)
    BY <1>1, <1>3 DEF BeginAttempt, Finish, Returns, Adapters
  <2> QED
    BY <1>1, <1>2, <2>1 DEF StepShape, Phases, Verdicts
<1>4. CASE adapter = "http without URL"
  <2>1. received' = [received EXCEPT ![c] = received[c]]
    BY <1>4 DEF BeginAttempt
  <2>2. CASE k < MaxAttempts
    <3>1. AttemptFails(c, k) /\ attempt' = [attempt EXCEPT ![c] = k]
      BY <1>4 DEF BeginAttempt
    <3>2. phase' = [phase EXCEPT ![c] = "backoff"] /\ deliveryLog' = deliveryLog
      BY <1>1, <2>2, <3>1, NotifyAssumption DEF AttemptFails
    <3>3. Goes(c, k, "backoff", received[c])
      BY <2>1, <2>2, <3>1, <3>2 DEF Goes
    <3> QED
      BY <1>1, <1>2, <3>3 DEF StepShape, Phases
  <2>3. CASE ~(k < MaxAttempts)
    <3>1. Returns(c, k, "error", received[c])
      BY <1>1, <1>4, <2>1, <2>3 DEF BeginAttempt, AttemptFails, Finish, Returns
    <3> QED
      BY <1>1, <1>2, <3>1 DEF StepShape, Phases, Verdicts
  <2> QED
    BY <2>2, <2>3
<1>5. CASE adapter = "http"
  <2>1. received' = [received EXCEPT ![c] = received[c]]
    BY <1>5 DEF BeginAttempt
  <2>2. Goes(c, k, "calling", received[c])
    BY <1>5, <2>1 DEF BeginAttempt, Goes
  <2> QED
    BY <1>1, <1>2, <2>2 DEF StepShape, Phases
<1> QED
  BY <1>3, <1>4, <1>5 DEF BeginAttempt

LEMMA OneCallShape ==
    ASSUME IInv, NEW d \in Calls, Dispatch(d) \/ Answered(d) \/ RequestFails(d) \/ Wake(d)
    PROVE  StepShape(d)
<1> USE DEF IInv, TypeOK
<1>1. ASSUME NEW c \in Calls, Dispatch(c)
      PROVE  StepShape(c)
  <2>1. attempt[c] = 0 /\ 1 \in 1 .. MaxAttempts
    BY <1>1, NotifyAssumption DEF Dispatch, AttemptsCounted
  <2> QED
    BY <1>1, <2>1, BeginShape DEF Dispatch
<1>2. ASSUME NEW c \in Calls, Wake(c)
      PROVE  StepShape(c)
  <2>1. attempt[c] + 1 \in 1 .. MaxAttempts
    BY <1>2, NotifyAssumption DEF Wake, AttemptsCounted
  <2> QED
    BY <1>2, <2>1, BeginShape DEF Wake
<1>3. ASSUME NEW c \in Calls, phase[c] = "calling", UNCHANGED <<adapter, attempt>>
      PROVE  /\ attempt[c] \in 1 .. MaxAttempts
             /\ attempt' = [attempt EXCEPT ![c] = attempt[c]]
             /\ received[c] \in Nat /\ received[c] + 1 <= attempt[c]
             /\ phase[c] \notin Verdicts
  BY <1>3, NotifyAssumption DEF AttemptsCounted, VerdictHonest, Verdicts
<1>4. ASSUME NEW c \in Calls, Answered(c)
      PROVE  StepShape(c)
  <2>1. Returns(c, attempt[c], "success", received[c] + 1)
    BY <1>3, <1>4 DEF Answered, Finish, Returns
  <2> QED
    BY <1>3, <1>4, <2>1 DEF Answered, StepShape, Phases, Verdicts
<1>5. ASSUME NEW c \in Calls, RequestFails(c)
      PROVE  StepShape(c)
  <2> DEFINE n == received[c]
  <2>2. n \in Nat /\ n \in {received[c], received[c] + 1} /\ n <= attempt[c]
    BY <1>3, <1>5, NotifyAssumption DEF RequestFails
  <2>3. received' = [received EXCEPT ![c] = n]
    BY <1>5 DEF RequestFails
  <2> HIDE DEF n
  <2>4. CASE attempt[c] < MaxAttempts
    <3>1. AttemptFails(c, attempt[c]) /\ attempt' = [attempt EXCEPT ![c] = attempt[c]]
      BY <1>3, <1>5 DEF RequestFails
    <3>2. phase' = [phase EXCEPT ![c] = "backoff"] /\ deliveryLog' = deliveryLog
      BY <2>4, <2>2, <3>1, NotifyAssumption DEF AttemptFails
    <3>3. Goes(c, attempt[c], "backoff", n)
      BY <2>3, <2>4, <3>1, <3>2 DEF Goes
    <3> QED
      BY <1>3, <1>5, <2>2, <3>3 DEF RequestFails, StepShape, Phases
  <2>5. CASE attempt[c] = MaxAttempts
    <3>1. AttemptFails(c, attempt[c]) /\ attempt' = [attempt EXCEPT ![c] = attempt[c]]
      BY <1>3, <1>5 DEF RequestFails
    <3>2. Finish(c, "error", attempt[c])
      BY <2>5, <3>1, NotifyAssumption DEF AttemptFails
    <3>3. Returns(c, attempt[c], "error", n)
      BY <2>3, <2>5, <3>1, <3>2 DEF Finish, Returns
    <3> QED
      BY <1>3, <1>5, <2>2, <3>3 DEF RequestFails, StepShape, Phases, Verdicts
  <2> QED
    BY <1>5, <2>4, <2>5 DEF RequestFails, AttemptFails
<1> QED
  BY <1>1, <1>2, <1>4, <1>5

\* The receiver gets a request that c has given up on.
LateShape(c) ==
    /\ received' = [received EXCEPT ![c] = received[c] + 1]
    /\ received[c] + 1 <= attempt[c]
    /\ phase[c] = "calling" => received[c] + 1 < attempt[c]
    /\ UNCHANGED <<adapter, phase, attempt, deliveryLog>>

LEMMA LateReceiptShape ==
    ASSUME IInv, NEW c \in Calls, LateReceipt(c) PROVE LateShape(c)
<1>1. received[c] \in Nat /\ attempt[c] \in Nat
  BY NotifyAssumption DEF IInv, TypeOK
<1> QED
  BY <1>1 DEF LateReceipt, Ended, LateShape

LEMMA EveryStepShape ==
    ASSUME IInv, Next
    PROVE  \E c \in Calls : StepShape(c) \/ LateShape(c)
  BY OneCallShape, LateReceiptShape DEF Next

-----------------------------------------------------------------------------

LEMMA InitIInv == Init => IInv
  BY NotifyAssumption DEF Init, IInv, TypeOK, AttemptsCounted, LogExact, Logged, VerdictHonest, Phases,
     Verdicts, Settled, LogRecord

LEMMA InductiveStep == IInv /\ [Next]_vars => IInv'
<1> SUFFICES ASSUME IInv, [Next]_vars PROVE IInv'
  OBVIOUS
<1>1. CASE UNCHANGED vars
  BY <1>1 DEF vars, IInv, TypeOK, AttemptsCounted, LogExact, VerdictHonest, Settled, Logged
<1>2. ASSUME NEW c \in Calls, LateShape(c) PROVE IInv'
  BY <1>2, NotifyAssumption DEF LateShape, IInv, TypeOK, AttemptsCounted, LogExact, Settled, Logged,
     VerdictHonest
<1>3. ASSUME NEW c \in Calls, StepShape(c) PROVE IInv'
  <2>1. StepShape(c)
    BY <1>3
  <2>2. PICK k \in 1 .. MaxAttempts, p \in Phases, n \in Nat :
          /\ n \in {received[c], received[c] + 1} /\ n <= k
          /\ p = "calling" => n < k
          /\ Goes(c, k, p, n) \/ Returns(c, k, p, n)
    BY <2>1 DEF StepShape
  <2>3. /\ phase' = [phase EXCEPT ![c] = p]
        /\ attempt' = [attempt EXCEPT ![c] = k]
        /\ received' = [received EXCEPT ![c] = n]
        /\ UNCHANGED adapter
        /\ p \in {"calling", "backoff"} \cup Verdicts
        /\ p = "backoff" => k < MaxAttempts
        /\ p = "success" => n >= 1
        /\ p = "error" => k = MaxAttempts
    BY <2>1, <2>2 DEF Goes, Returns, Verdicts, StepShape
  <2>4. deliveryLog' \in Seq(LogRecord)
    <3>1. CASE Goes(c, k, p, n)
      BY <3>1 DEF Goes, IInv, TypeOK
    <3>2. CASE Returns(c, k, p, n)
      <4>1. [call |-> c, status |-> p, attempt |-> k] \in LogRecord
        BY <3>2 DEF Returns, LogRecord, Verdicts
      <4> QED
        BY <3>2, <4>1 DEF Returns, IInv, TypeOK
    <3> QED
      BY <2>2, <3>1, <3>2
  <2>5. TypeOK'
    <3>1. k \in 0 .. MaxAttempts /\ adapter' \in Adapters
      BY <2>3, NotifyAssumption DEF IInv, TypeOK
    <3> QED
      BY <2>3, <2>4, <3>1 DEF IInv, TypeOK
  <2>6. AttemptsCounted'
    BY <2>3, NotifyAssumption DEF IInv, TypeOK, AttemptsCounted, Verdicts
  <2>7. VerdictHonest'
    BY <2>2, <2>3, NotifyAssumption DEF IInv, TypeOK, VerdictHonest, Verdicts
  <2>8. LogExact'
    <3>1. phase[c] \notin Verdicts
      BY <2>1 DEF StepShape
    <3>2. \A i \in DOMAIN deliveryLog : deliveryLog[i].call \in Calls \ {c}
      <4>1. \A i \in DOMAIN deliveryLog : deliveryLog[i] \in LogRecord
        BY DEF IInv, TypeOK
      <4>2. \A i \in DOMAIN deliveryLog : deliveryLog[i].call \in Calls
        BY <4>1 DEF LogRecord
      <4>3. \A i \in DOMAIN deliveryLog : deliveryLog[i].call # c
        BY <3>1 DEF IInv, LogExact, Settled, Logged
      <4> QED
        BY <4>2, <4>3
    <3>3. CASE Goes(c, k, p, n)
      BY <2>3, <3>2, <3>3 DEF Goes, IInv, TypeOK, LogExact, Settled, Logged, Verdicts
    <3>4. CASE Returns(c, k, p, n)
      <4> DEFINE m == Len(deliveryLog) + 1
                 record == [call |-> c, status |-> p, attempt |-> k]
      <4>1. /\ DOMAIN deliveryLog' = DOMAIN deliveryLog \cup {m} /\ m \notin DOMAIN deliveryLog
            /\ deliveryLog'[m] = record
            /\ \A i \in DOMAIN deliveryLog : deliveryLog'[i] = deliveryLog[i]
        BY <2>4, <3>4 DEF Returns, IInv, TypeOK
      <4>2. p \in Verdicts
        BY <3>4 DEF Returns, Verdicts
      <4>3. /\ phase'[c] = p /\ attempt'[c] = k
            /\ \A d \in Calls \ {c} : phase'[d] = phase[d] /\ attempt'[d] = attempt[d]
        BY <2>3 DEF IInv, TypeOK
      <4>4. \A d \in Calls :
               Settled(d)' <=> \E i \in DOMAIN deliveryLog' : deliveryLog'[i].call = d
        BY <3>2, <4>1, <4>2, <4>3 DEF IInv, LogExact, Settled, Logged
      <4>5. \A i, j \in DOMAIN deliveryLog' :
               deliveryLog'[i].call = deliveryLog'[j].call => i = j
        BY <3>2, <4>1 DEF IInv, LogExact
      <4>6. \A i \in DOMAIN deliveryLog' :
               /\ deliveryLog'[i].status = phase'[deliveryLog'[i].call]
               /\ deliveryLog'[i].attempt = attempt'[deliveryLog'[i].call]
        <5>1. \A i \in DOMAIN deliveryLog :
               /\ deliveryLog[i].status = phase'[deliveryLog[i].call]
               /\ deliveryLog[i].attempt = attempt'[deliveryLog[i].call]
          BY <3>2, <4>3 DEF IInv, LogExact
        <5> QED
          BY <4>1, <4>3, <5>1
      <4> QED
        BY <4>4, <4>5, <4>6 DEF LogExact, Logged
    <3> QED
      BY <2>2, <3>3, <3>4
  <2> QED
    BY <2>5, <2>6, <2>7, <2>8 DEF IInv
<1> QED
  BY <1>1, <1>2, <1>3, EveryStepShape

-----------------------------------------------------------------------------

\* The inductive invariant holds in every reachable state.
THEOREM Invariance == Spec => []IInv
  BY InitIInv, InductiveStep, PTL DEF Spec

\* dispatch(): the state of the calls and the delivery log are well formed.
THEOREM TypeCorrect == Spec => []TypeOK
<1>1. IInv => TypeOK
  BY DEF IInv
<1> QED
  BY <1>1, Invariance, PTL

\* dispatch(): the delivery log accounts for every call that returned, and for
\* no other, however many calls interleave.
THEOREM LogAlwaysExact == Spec => []LogExact
<1>1. IInv => LogExact
  BY DEF IInv
<1> QED
  BY <1>1, Invariance, PTL

\* dispatch(): a verdict is never reported without its ground.
THEOREM VerdictsAlwaysHonest == Spec => []VerdictHonest
<1>1. IInv => VerdictHonest
  BY DEF IInv
<1> QED
  BY <1>1, Invariance, PTL

\* A step of Notify is a step of Delivery, or changes no outcome.
LEMMA PromiseStep == ASSUME IInv, [Next]_vars PROVE [Promise!Next]_OutcomeOf
<1> SUFFICES ASSUME Next PROVE Promise!Next \/ UNCHANGED OutcomeOf
  BY DEF vars, OutcomeOf
<1> SUFFICES ASSUME NEW c \in Calls, StepShape(c) PROVE Promise!Next \/ UNCHANGED OutcomeOf
  BY EveryStepShape DEF LateShape, OutcomeOf
<1>1. StepShape(c)
  OBVIOUS
<1>2. PICK p \in Phases : phase' = [phase EXCEPT ![c] = p] /\ p # "idle"
  BY <1>1 DEF StepShape, Goes, Returns, Verdicts
<1> DEFINE out == IF p \in {"calling", "backoff"} THEN "pending" ELSE p
<1>3. /\ phase[c] \in Phases /\ phase[c] \notin Verdicts
      /\ phase'[c] = p /\ \A d \in Calls \ {c} : phase'[d] = phase[d]
  BY <1>1, <1>2 DEF StepShape, IInv, TypeOK
<1>4. /\ OutcomeOf' = [OutcomeOf EXCEPT ![c] = out]
      /\ OutcomeOf[c] \in {"idle", "pending"}
      /\ out = "pending" \/ out \in Verdicts
  BY <1>2, <1>3 DEF OutcomeOf, Phases, Verdicts
<1>5. CASE OutcomeOf[c] = "idle" /\ out = "pending"
  BY <1>4, <1>5 DEF Promise!Next, Promise!Accept
<1>6. CASE out \in Verdicts
  <2>1. Promise!Settle(c)
    BY <1>4, <1>6 DEF Promise!Settle, Promise!Verdicts, Verdicts
  <2> QED
    BY <2>1 DEF Promise!Next
<1>7. CASE OutcomeOf[c] = "pending" /\ out = "pending"
  BY <1>4, <1>7 DEF OutcomeOf
<1> QED
  BY <1>4, <1>5, <1>6, <1>7

\* Notify begins where Delivery does.
LEMMA PromiseInit == Init => Promise!Init
  BY DEF Init, Promise!Init, OutcomeOf

\* The safety part of ImplementsDelivery: Notify begins where Delivery does, and
\* each of its steps is a step of Delivery or changes no outcome.
THEOREM DeliverySafety == Spec => Promise!Init /\ [][Promise!Next]_OutcomeOf
<1>1. IInv /\ [Next]_vars => [Promise!Next]_OutcomeOf
  BY PromiseStep
<1> QED
  BY <1>1, PromiseInit, Invariance, PTL DEF Spec

-----------------------------------------------------------------------------
(***************************************************************************)
(* notify-dispatcher: its steps are those of dispatch() and the arrival of *)
(* messages.  SubjectOrder follows from what a subscription's queue is:    *)
(* a message is nowhere twice, a call belongs to a message that has come,  *)
(* and what is behind a message that has not returned has not begun.       *)
(***************************************************************************)

MessagesDistinct ==
    \A s, t \in Subjects : \A i \in DOMAIN inbox[s], j \in DOMAIN inbox[t] :
       inbox[s][i] = inbox[t][j] => s = t /\ i = j

CallsReceived == \A c \in Calls : phase[c] # "idle" => c \in Received

OneByOne ==
    \A s \in Subjects : \A i, j \in DOMAIN inbox[s] :
       i < j /\ phase[inbox[s][j]] # "idle" => Settled(inbox[s][i])

LogInOrder ==
    \A s \in Subjects : \A i, j \in DOMAIN inbox[s] : \A m, n \in DOMAIN deliveryLog :
       i < j /\ deliveryLog[m].call = inbox[s][i] /\ deliveryLog[n].call = inbox[s][j] => m < n

QueueInv ==
    /\ IInv /\ inbox \in [Subjects -> Seq(Calls)]
    /\ MessagesDistinct /\ CallsReceived /\ OneByOne /\ LogInOrder

\* A step of the service is the arrival of a message or a step of one call, which
\* has come and, if it begins, is the first of its queue that has not begun.
LEMMA DispatcherSteps ==
    ASSUME QueueInv, [DispatcherNext]_dispatcherVars
    PROVE  \/ UNCHANGED dispatcherVars
           \/ \E c \in Calls, s \in Subjects : Publish(c, s)
           \/ \E c \in Calls : ReceivedLate(c)
           \/ /\ Next /\ UNCHANGED inbox
              /\ \E s \in Subjects : \E i \in DOMAIN inbox[s] :
                    \/ OnEvent(s) /\ ~Busy(s) /\ Dispatch(inbox[s][i])
                       /\ \A j \in 1 .. i - 1 : phase[inbox[s][j]] # "idle"
                    \/ Resume(inbox[s][i])
<1> USE DEF QueueInv
<1>1. \A s \in Subjects : \A i \in DOMAIN inbox[s] : inbox[s][i] \in Calls
  OBVIOUS
<1>2. ASSUME NEW s \in Subjects, OnEvent(s)
      PROVE  /\ Next /\ UNCHANGED inbox
             /\ \E i \in DOMAIN inbox[s] : OnEvent(s) /\ ~Busy(s) /\ Dispatch(inbox[s][i])
                   /\ \A j \in 1 .. i - 1 : phase[inbox[s][j]] # "idle"
  BY <1>1, <1>2 DEF OnEvent, Next
<1>3. ASSUME NEW c \in Calls, Resume(c)
      PROVE  /\ Next /\ UNCHANGED inbox
             /\ \E s \in Subjects : \E i \in DOMAIN inbox[s] : inbox[s][i] = c
  <2>1. phase[c] # "idle"
    BY <1>3 DEF Resume, Answered, RequestFails, Wake
  <2>2. c \in Received
    BY <2>1 DEF CallsReceived
  <2> QED
    BY <1>3, <2>2 DEF Resume, Next, Received, Messages
<1> QED
  BY <1>2, <1>3 DEF DispatcherNext

\* What a step of call c does to the other calls and to the log.
LEMMA CallStep ==
    ASSUME IInv, NEW c \in Calls, StepShape(c)
    PROVE  /\ phase[c] \notin Verdicts /\ phase'[c] # "idle"
           /\ \A d \in Calls \ {c} : phase'[d] = phase[d]
           /\ \A i \in DOMAIN deliveryLog :
                 i \in DOMAIN deliveryLog' /\ deliveryLog'[i] = deliveryLog[i]
           /\ \A i \in DOMAIN deliveryLog' \ DOMAIN deliveryLog :
                 deliveryLog'[i].call = c /\ \A j \in DOMAIN deliveryLog : j < i
<1> USE DEF IInv, TypeOK
<1>1. PICK k \in 1 .. MaxAttempts, p \in Phases, n \in Nat : Goes(c, k, p, n) \/ Returns(c, k, p, n)
  BY DEF StepShape
<1>2. phase' = [phase EXCEPT ![c] = p] /\ p # "idle"
  BY <1>1 DEF Goes, Returns
<1>3. CASE Goes(c, k, p, n)
  BY <1>2, <1>3 DEF Goes, StepShape
<1>4. CASE Returns(c, k, p, n)
  <2> DEFINE record == [call |-> c, status |-> p, attempt |-> k]
  <2>1. deliveryLog \in Seq(LogRecord) /\ record \in LogRecord
    BY <1>4 DEF Returns, LogRecord, Verdicts
  <2>2. /\ DOMAIN deliveryLog' = 1 .. Len(deliveryLog) + 1
        /\ deliveryLog'[Len(deliveryLog) + 1] = record
        /\ \A i \in DOMAIN deliveryLog : deliveryLog'[i] = deliveryLog[i]
    BY <1>4, <2>1 DEF Returns
  <2>3. DOMAIN deliveryLog = 1 .. Len(deliveryLog) /\ Len(deliveryLog) \in Nat
    BY <2>1
  <2> QED
    BY <1>2, <2>2, <2>3 DEF StepShape
<1> QED
  BY <1>1, <1>3, <1>4

-----------------------------------------------------------------------------

LEMMA QueueInit == DispatcherInit => QueueInv
<1> SUFFICES ASSUME DispatcherInit PROVE QueueInv
  OBVIOUS
<1>1. IInv
  BY InitIInv DEF DispatcherInit
<1>2. inbox = [s \in Subjects |-> <<>>] /\ inbox \in [Subjects -> Seq(Calls)]
  BY DEF DispatcherInit
<1>3. \A s \in Subjects : DOMAIN inbox[s] = {}
  BY <1>2
<1>4. \A c \in Calls : phase[c] = "idle"
  BY DEF DispatcherInit, Init
<1> QED
  BY <1>1, <1>2, <1>3, <1>4
     DEF QueueInv, MessagesDistinct, CallsReceived, OneByOne, LogInOrder

\* A message arrives: it is behind all others, and its call has not begun.
LEMMA QueuePublish ==
    ASSUME QueueInv, NEW c \in Calls, NEW s \in Subjects, Publish(c, s)
    PROVE  QueueInv'
<1> USE DEF QueueInv
<1>1. IInv' /\ UNCHANGED vars
  BY InductiveStep DEF Publish
<1>2. UNCHANGED phase /\ UNCHANGED deliveryLog
  BY <1>1 DEF vars
<1>3. inbox' \in [Subjects -> Seq(Calls)]
  BY DEF Publish
<1> DEFINE last == Len(inbox[s]) + 1
<1>4. /\ DOMAIN inbox'[s] = DOMAIN inbox[s] \cup {last} /\ last \notin DOMAIN inbox[s]
      /\ inbox'[s][last] = c
      /\ \A i \in DOMAIN inbox[s] : inbox'[s][i] = inbox[s][i] /\ i < last
      /\ \A t \in Subjects \ {s} : inbox'[t] = inbox[t]
  BY DEF Publish
<1>5. \A t \in Subjects : \A i \in DOMAIN inbox[t] : inbox[t][i] # c
  BY DEF Publish, Received, Messages
<1>6. phase[c] = "idle"
  BY DEF Publish, CallsReceived
<1>7. \A t \in Subjects : \A i \in DOMAIN inbox'[t] :
         \/ i \in DOMAIN inbox[t] /\ inbox'[t][i] = inbox[t][i]
         \/ t = s /\ i = last /\ inbox'[t][i] = c
  BY <1>4
<1>8. MessagesDistinct'
  BY <1>5, <1>7 DEF MessagesDistinct
<1>9. CallsReceived'
  <2>1. \A d \in Received : d \in Received'
    BY <1>4 DEF Received, Messages
  <2> QED
    BY <1>2, <2>1 DEF CallsReceived
<1>10. \A t \in Subjects : \A i, j \in DOMAIN inbox'[t] :
          i < j => i \in DOMAIN inbox[t] /\ inbox'[t][i] = inbox[t][i]
  BY <1>3, <1>4, <1>7
<1>11. OneByOne'
  BY <1>2, <1>6, <1>7, <1>10 DEF OneByOne, Settled
<1>12. \A m \in DOMAIN deliveryLog : deliveryLog[m].call # c
  BY <1>6 DEF IInv, LogExact, Logged, Settled, Verdicts
<1>13. LogInOrder'
  BY <1>2, <1>7, <1>10, <1>12 DEF LogInOrder
<1> QED
  BY <1>1, <1>3, <1>8, <1>9, <1>11, <1>13

\* Call c, message i of s, goes on: either it had begun, or all before it have
\* returned, as the queue is not busy.
LEMMA QueueCall ==
    ASSUME QueueInv, UNCHANGED inbox, NEW s \in Subjects, NEW i \in DOMAIN inbox[s],
           StepShape(inbox[s][i]), IInv',
           \A j \in DOMAIN inbox[s] : j < i => Settled(inbox[s][j])
    PROVE  QueueInv'
<1> USE DEF QueueInv
<1> DEFINE c == inbox[s][i]
<1>1. \A t \in Subjects : \A j \in DOMAIN inbox[t] : inbox[t][j] \in Calls /\ j \in Nat
  OBVIOUS
<1>2. c \in Calls
  BY <1>1
<1> HIDE DEF c
<1>3. /\ phase[c] \notin Verdicts /\ phase'[c] # "idle"
      /\ \A d \in Calls \ {c} : phase'[d] = phase[d]
      /\ \A m \in DOMAIN deliveryLog :
            m \in DOMAIN deliveryLog' /\ deliveryLog'[m] = deliveryLog[m]
      /\ \A m \in DOMAIN deliveryLog' \ DOMAIN deliveryLog :
            deliveryLog'[m].call = c /\ \A n \in DOMAIN deliveryLog : n < m
  BY <1>2, CallStep DEF c
<1>4. \A t \in Subjects : \A j \in DOMAIN inbox[t] :
         inbox[t][j] = c => t = s /\ j = i
  BY DEF c, MessagesDistinct
<1>5. MessagesDistinct'
  BY DEF MessagesDistinct
<1>6. CallsReceived'
  <2>1. c \in Received
    BY DEF c, Received, Messages
  <2> QED
    BY <1>3, <2>1 DEF CallsReceived, Received, Messages
<1>7. \A d \in Calls : Settled(d) => Settled(d)' /\ d # c
  BY <1>3 DEF Settled
<1>8. OneByOne'
  <2> SUFFICES ASSUME NEW t \in Subjects, NEW j \in DOMAIN inbox[t], NEW n \in DOMAIN inbox[t],
                      j < n, phase'[inbox[t][n]] # "idle"
               PROVE  Settled(inbox[t][j])'
    BY DEF OneByOne
  <2>1. CASE inbox[t][n] = c
    BY <1>1, <1>4, <1>7, <2>1
  <2>2. CASE inbox[t][n] # c
    BY <1>1, <1>3, <1>7, <2>2 DEF OneByOne
  <2> QED
    BY <2>1, <2>2
<1>9. LogInOrder'
  <2> SUFFICES ASSUME NEW t \in Subjects, NEW j \in DOMAIN inbox[t], NEW k \in DOMAIN inbox[t],
                      NEW m \in DOMAIN deliveryLog', NEW n \in DOMAIN deliveryLog', j < k,
                      deliveryLog'[m].call = inbox[t][j], deliveryLog'[n].call = inbox[t][k]
               PROVE  m < n
    BY DEF LogInOrder
  <2>1. CASE m \in DOMAIN deliveryLog /\ n \in DOMAIN deliveryLog
    BY <1>3, <2>1 DEF LogInOrder
  <2>2. CASE m \in DOMAIN deliveryLog /\ n \notin DOMAIN deliveryLog
    BY <1>3, <2>2
  <2>3. CASE m \notin DOMAIN deliveryLog
    <3>1. inbox[t][j] = c /\ inbox[t][k] # c
      BY <1>1, <1>3, <1>4, <2>3
    <3>2. n \in DOMAIN deliveryLog /\ deliveryLog[n].call = inbox[t][k]
      BY <1>3, <3>1
    <3>3. Settled(inbox[t][k])
      BY <1>1, <3>2 DEF IInv, LogExact, Logged
    <3>4. Settled(c)
      BY <3>1, <3>3 DEF OneByOne, Settled, Verdicts
    <3> QED
      BY <1>3, <3>4 DEF Settled
  <2> QED
    BY <2>1, <2>2, <2>3
<1> QED
  BY <1>5, <1>6, <1>8, <1>9

LEMMA QueueStep == QueueInv /\ [DispatcherNext]_dispatcherVars => QueueInv'
<1> SUFFICES ASSUME QueueInv, [DispatcherNext]_dispatcherVars PROVE QueueInv'
  OBVIOUS
<1> USE DEF QueueInv
<1>1. CASE UNCHANGED dispatcherVars
  <2>1. UNCHANGED inbox /\ UNCHANGED vars /\ UNCHANGED phase /\ UNCHANGED deliveryLog
    BY <1>1 DEF dispatcherVars, vars
  <2> QED
    BY <2>1, InductiveStep DEF MessagesDistinct, CallsReceived, OneByOne, LogInOrder,
       Received, Messages, Settled
<1>2. ASSUME NEW s \in Subjects, NEW i \in DOMAIN inbox[s], Next, UNCHANGED inbox,
             \/ Dispatch(inbox[s][i]) \/ Resume(inbox[s][i]),
             \A j \in DOMAIN inbox[s] : j < i => Settled(inbox[s][j])
      PROVE  QueueInv'
  <2>1. IInv'
    BY <1>2, InductiveStep
  <2>2. inbox[s][i] \in Calls
    OBVIOUS
  <2>3. StepShape(inbox[s][i])
    BY <1>2, <2>2, OneCallShape DEF Resume
  <2> QED
    BY <1>2, <2>1, <2>3, QueueCall
<1>3. ASSUME NEW s \in Subjects, NEW i \in DOMAIN inbox[s], ~Busy(s),
             \A j \in 1 .. i - 1 : phase[inbox[s][j]] # "idle"
      PROVE  \A j \in DOMAIN inbox[s] : j < i => Settled(inbox[s][j])
  <2> SUFFICES ASSUME NEW j \in DOMAIN inbox[s], j < i PROVE Settled(inbox[s][j])
    OBVIOUS
  <2>1. inbox[s][j] \in Calls /\ j \in 1 .. i - 1
    OBVIOUS
  <2>2. phase[inbox[s][j]] \in Phases /\ phase[inbox[s][j]] # "idle"
    BY <1>3, <2>1 DEF IInv, TypeOK
  <2>3. phase[inbox[s][j]] \notin {"calling", "backoff"}
    BY <1>3 DEF Busy, Messages
  <2> QED
    BY <2>2, <2>3 DEF Phases, Settled
<1>4. ASSUME NEW s \in Subjects, NEW i \in DOMAIN inbox[s], Resume(inbox[s][i])
      PROVE  \A j \in DOMAIN inbox[s] : j < i => Settled(inbox[s][j])
  <2>1. phase[inbox[s][i]] # "idle"
    BY <1>4 DEF Resume, Answered, RequestFails, Wake
  <2> QED
    BY <2>1 DEF OneByOne
<1>5. ASSUME NEW c \in Calls, ReceivedLate(c) PROVE QueueInv'
  <2>1. UNCHANGED phase /\ UNCHANGED deliveryLog /\ UNCHANGED inbox
    BY <1>5 DEF ReceivedLate, LateReceipt
  <2>2. IInv'
    BY <1>5, InductiveStep DEF ReceivedLate, Next
  <2> QED
    BY <2>1, <2>2 DEF MessagesDistinct, CallsReceived, OneByOne, LogInOrder, Received, Messages, Settled
<1> QED
  BY <1>1, <1>2, <1>3, <1>4, <1>5, DispatcherSteps, QueuePublish

-----------------------------------------------------------------------------

\* The invariant of the service, that of dispatch() included, holds in every
\* reachable state.
THEOREM DispatcherInvariance == DispatcherSpec => []QueueInv
  BY QueueInit, QueueStep, PTL DEF DispatcherSpec

\* notify-dispatcher: the messages of a subject reach the receiver and the log in
\* the order of their publication, for any number of subjects, messages and retries.
THEOREM OrderAlwaysKept == DispatcherSpec => []SubjectOrder
<1>1. QueueInv => SubjectOrder
  <2> SUFFICES ASSUME QueueInv, NEW s \in Subjects, NEW i \in DOMAIN inbox[s],
                      NEW j \in DOMAIN inbox[s], i < j
               PROVE  /\ received[inbox[s][j]] > 0 => Logged(inbox[s][i])
                      /\ \A m, n \in DOMAIN deliveryLog :
                            deliveryLog[m].call = inbox[s][i] /\ deliveryLog[n].call = inbox[s][j]
                               => m < n
    BY DEF SubjectOrder
  <2>1. inbox[s][i] \in Calls /\ inbox[s][j] \in Calls
    BY DEF QueueInv
  <2>2. received[inbox[s][j]] > 0 => phase[inbox[s][j]] # "idle"
    BY <2>1 DEF QueueInv, IInv, TypeOK, VerdictHonest, AttemptsCounted
  <2>3. phase[inbox[s][j]] # "idle" => Logged(inbox[s][i])
    BY <2>1 DEF QueueInv, OneByOne, IInv, LogExact
  <2> QED
    BY <2>2, <2>3 DEF QueueInv, LogInOrder
<1> QED
  BY <1>1, DispatcherInvariance, PTL

\* notify-dispatcher: it is a use of dispatch() as Notify specifies it, so that what
\* is proved of Spec's steps holds of the service, too.
THEOREM DispatcherUsesNotify == DispatcherSpec => Init /\ [][Next]_vars
<1>1. DispatcherInit => Init
  BY DEF DispatcherInit
<1>2. QueueInv /\ [DispatcherNext]_dispatcherVars => [Next]_vars
  BY DispatcherSteps DEF dispatcherVars, Publish, ReceivedLate, Next
<1> QED
  BY <1>1, <1>2, DispatcherInvariance, PTL DEF DispatcherSpec

\* notify-dispatcher keeps the promise of dispatch(): an exact log, honest verdicts
\* and the safety part of ImplementsDelivery, which is what wo-manager's messages
\* are left to.
THEOREM DispatcherKeepsPromise ==
    DispatcherSpec =>
       /\ [](LogExact /\ VerdictHonest)
       /\ Promise!Init /\ [][Promise!Next]_OutcomeOf
<1>1. QueueInv => IInv /\ LogExact /\ VerdictHonest
  BY DEF QueueInv, IInv
<1>2. IInv /\ [Next]_vars => [Promise!Next]_OutcomeOf
  BY PromiseStep
<1> QED
  BY <1>1, <1>2, PromiseInit, DispatcherInvariance, DispatcherUsesNotify, PTL

=============================================================================

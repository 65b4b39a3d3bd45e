----------------------------- MODULE Dispatcher -----------------------------
(***************************************************************************)
(* notify-dispatcher: dispatch() is that of Notify, and each invocation is *)
(* one message of NATS.  The service subscribes to three subjects.  A      *)
(* subscription has a queue and hands on_event one message at a time, and  *)
(* on_event awaits dispatch(): the messages of one subject wait for each   *)
(* other's attempts and back-offs, those of different subjects do not.     *)
(***************************************************************************)
EXTENDS Notify

CONSTANT Subjects       \* WO.ASSIGNED, WO.EMERGENCY_COMPLETED, OBS.REPORT_ESCALATION

VARIABLE inbox          \* inbox[s]: the messages received on s so far, in order

dispatcherVars == <<vars, inbox>>

Messages(s) == {inbox[s][i] : i \in DOMAIN inbox[s]}
Received == UNION {Messages(s) : s \in Subjects}

\* The service's variables keep their types, those of Notify included.
DispatcherTypeOK == TypeOK /\ inbox \in [Subjects -> Seq(Calls)]

DispatcherInit == Init /\ inbox = [s \in Subjects |-> <<>>]

\* One of the other services publishes a message.
Publish(c, s) ==
    /\ c \notin Received
    /\ inbox' = [inbox EXCEPT ![s] = Append(@, c)]
    /\ UNCHANGED vars

Busy(s) == \E c \in Messages(s) : phase[c] \in {"calling", "backoff"}

\* (mutant) on_event starts a task for each message instead of awaiting dispatch().
OnEventAtOnce(s) ==
    /\ \E i \in DOMAIN inbox[s] : Dispatch(inbox[s][i])
    /\ UNCHANGED inbox

\* (mutant) a message that has been overtaken in the queue is dropped.
OnEventLatest(s) ==
    /\ ~Busy(s)
    /\ inbox[s] # <<>> /\ Dispatch(inbox[s][Len(inbox[s])])
    /\ UNCHANGED inbox

\* The subscription's task hands on_event the next message of its queue.
OnEvent(s) ==
    /\ ~Busy(s)
    /\ \E i \in DOMAIN inbox[s] :
          /\ \A j \in 1 .. i - 1 : phase[inbox[s][j]] # "idle"
          /\ Dispatch(inbox[s][i])
    /\ UNCHANGED inbox

\* A dispatch() that has begun goes on.
Resume(c) == (Answered(c) \/ RequestFails(c) \/ Wake(c)) /\ UNCHANGED inbox

\* The receiver gets to a request that was given up.
ReceivedLate(c) == LateReceipt(c) /\ UNCHANGED inbox

DispatcherNext ==
    \/ \E s \in Subjects : OnEvent(s) \/ \E c \in Calls : Publish(c, s)
    \/ \E c \in Calls : Resume(c) \/ ReceivedLate(c)

\* As in Notify a call that has begun is resumed, and a subscription's task goes on
\* with its queue when on_event returns.
DispatcherFairness ==
    /\ \A c \in Calls : WF_dispatcherVars(Resume(c))
    /\ \A s \in Subjects : WF_dispatcherVars(OnEvent(s))

DispatcherSpec == DispatcherInit /\ [][DispatcherNext]_dispatcherVars /\ DispatcherFairness

-----------------------------------------------------------------------------

\* Retries do not reorder a subject: no later message of it reaches the receiver until
\* dispatch() has given its verdict on the earlier one, though a request of the earlier
\* that was given up may still arrive after it, and the log has the messages of a
\* subject in the order of their publication.
SubjectOrder ==
    \A s \in Subjects : \A i, j \in DOMAIN inbox[s] :
       LET earlier == inbox[s][i]  later == inbox[s][j] IN
       i < j =>
          /\ received[later] > 0 => Logged(earlier)
          /\ \A m, n \in DOMAIN deliveryLog :
                deliveryLog[m].call = earlier /\ deliveryLog[n].call = later => m < n

\* A receiver that is down holds its subject up, but not for ever: every message
\* that was received is settled one way or the other, and has its record.
EveryMessageLogged == \A c \in Calls : c \in Received ~> Logged(c)

=============================================================================

------------------------------- MODULE Notify -------------------------------
(***************************************************************************)
(* tasks/notify.py of the backend: dispatch() tries an adapter at most     *)
(* three times with a back-off between the attempts and appends one record *)
(* to the delivery log.  The calls run concurrently on one event loop; a   *)
(* call lets the others run while its HTTP request is outstanding and      *)
(* while it sleeps.                                                        *)
(***************************************************************************)
EXTENDS Naturals, Sequences

CONSTANTS
    Calls,          \* the invocations of dispatch()
    MaxAttempts     \* attempts per invocation, 3 in the code

ASSUME NotifyAssumption == MaxAttempts \in Nat \ {0}

VARIABLES
    adapter,        \* the process environment, see Adapters; never changes
    phase,          \* phase[c]: where the invocation is
    attempt,        \* attempt[c]: the attempt it is at, 0 before the first
    received,       \* received[c]: how often the receiver got the message
    deliveryLog     \* _delivery_log

vars == <<adapter, phase, attempt, received, deliveryLog>>

\* NOTIFY_ADAPTER, with slack and webhook told apart only by whether the
\* variable with their URL is set.
Adapters == {"email", "http", "http without URL"}

Verdicts == {"success", "error"}
Phases == {"idle", "calling", "backoff"} \cup Verdicts
LogRecord == [call : Calls, status : Verdicts, attempt : 1 .. MaxAttempts]

\* The environment and the log keep their types; no attempt is counted past the last.
TypeOK ==
    /\ adapter \in Adapters
    /\ phase \in [Calls -> Phases]
    /\ attempt \in [Calls -> 0 .. MaxAttempts]
    /\ received \in [Calls -> Nat]
    /\ deliveryLog \in Seq(LogRecord)

Init ==
    /\ adapter \in Adapters
    /\ phase = [c \in Calls |-> "idle"]
    /\ attempt = [c \in Calls |-> 0]
    /\ received = [c \in Calls |-> 0]
    /\ deliveryLog = <<>>

-----------------------------------------------------------------------------

\* (mutant) only successes are logged.
FinishSilently(c, status, k) ==
    /\ phase' = [phase EXCEPT ![c] = status]
    /\ IF status = "success"
       THEN deliveryLog' = Append(deliveryLog, [call |-> c, status |-> status, attempt |-> k])
       ELSE UNCHANGED deliveryLog

\* The loop is left: the outcome and the attempt that produced it are logged.
Finish(c, status, k) ==
    /\ phase' = [phase EXCEPT ![c] = status]
    /\ deliveryLog' = Append(deliveryLog, [call |-> c, status |-> status, attempt |-> k])

\* (mutant) off by one: the last attempt is never made.
AttemptFailsEarly(c, k) ==
    \/ /\ k + 1 < MaxAttempts
       /\ phase' = [phase EXCEPT ![c] = "backoff"]
       /\ UNCHANGED deliveryLog
    \/ /\ k + 1 >= MaxAttempts
       /\ Finish(c, "error", k)

\* Attempt k raised: sleep, unless it was the last one.
AttemptFails(c, k) ==
    \/ /\ k < MaxAttempts
       /\ phase' = [phase EXCEPT ![c] = "backoff"]
       /\ UNCHANGED deliveryLog
    \/ /\ k = MaxAttempts
       /\ Finish(c, "error", k)

\* Attempt k calls the adapter.  E-mail is a log line that cannot fail or
\* wait; an adapter without a URL raises at once; otherwise the call is
\* suspended in its HTTP request.
BeginAttempt(c, k) ==
    /\ attempt' = [attempt EXCEPT ![c] = k]
    /\ \/ /\ adapter = "email"
          /\ received' = [received EXCEPT ![c] = @ + 1]
          /\ Finish(c, "success", k)
       \/ /\ adapter = "http without URL"
          /\ AttemptFails(c, k)
          /\ UNCHANGED received
       \/ /\ adapter = "http"
          /\ phase' = [phase EXCEPT ![c] = "calling"]
          /\ UNCHANGED <<received, deliveryLog>>

-----------------------------------------------------------------------------

\* A handler calls dispatch().
Dispatch(c) ==
    /\ phase[c] = "idle"
    /\ BeginAttempt(c, 1)
    /\ UNCHANGED adapter

\* The receiver got the request and its 2xx answer came back.
Answered(c) ==
    /\ phase[c] = "calling"
    /\ received' = [received EXCEPT ![c] = @ + 1]
    /\ Finish(c, "success", attempt[c])
    /\ UNCHANGED <<adapter, attempt>>

\* The request raised: a refused connection, a timeout or a non-2xx answer.
\* Whether the receiver processes it all the same is left to LateReceipt.
RequestFails(c) ==
    /\ phase[c] = "calling"
    /\ AttemptFails(c, attempt[c])
    /\ UNCHANGED <<adapter, attempt, received>>

\* The attempts of c that are over: what the receiver may have got of c so far.
Ended(c) == IF phase[c] = "calling" THEN attempt[c] - 1 ELSE attempt[c]

\* The receiver processes a request the call has given up on: before or after
\* the next attempt, or when the verdict is in the log already.
LateReceipt(c) ==
    /\ adapter = "http" /\ received[c] < Ended(c)
    /\ received' = [received EXCEPT ![c] = @ + 1]
    /\ UNCHANGED <<adapter, phase, attempt, deliveryLog>>

\* (mutant) a failed HTTP call is never woken.
WakeWithoutUrl(c) ==
    /\ phase[c] = "backoff" /\ adapter = "http without URL"
    /\ BeginAttempt(c, attempt[c] + 1)
    /\ UNCHANGED adapter

\* The back-off is over.
Wake(c) ==
    /\ phase[c] = "backoff"
    /\ BeginAttempt(c, attempt[c] + 1)
    /\ UNCHANGED adapter

Next ==
    \E c \in Calls :
       Dispatch(c) \/ Answered(c) \/ RequestFails(c) \/ Wake(c) \/ LateReceipt(c)

\* httpx gives up on a request after its default timeout and a sleep ends:
\* a call that has begun is always resumed.  Nobody has to call dispatch(), and
\* a request that was given up need not arrive.
Fairness == \A c \in Calls : WF_vars(Answered(c) \/ RequestFails(c)) /\ WF_vars(Wake(c))

Spec == Init /\ [][Next]_vars /\ Fairness

-----------------------------------------------------------------------------

Settled(c) == phase[c] \in Verdicts
Logged(c) == \E i \in DOMAIN deliveryLog : deliveryLog[i].call = c

\* The log is the exact account of the calls that returned: each of them has
\* one record, with its verdict and the attempt that ended it, and no other
\* call has any, however the calls interleave.
LogExact ==
    /\ \A c \in Calls : Settled(c) <=> Logged(c)
    /\ \A i, j \in DOMAIN deliveryLog :
          deliveryLog[i].call = deliveryLog[j].call => i = j
    /\ \A i \in DOMAIN deliveryLog : LET r == deliveryLog[i] IN
          r.status = phase[r.call] /\ r.attempt = attempt[r.call]

\* "success" is never logged for a message nobody got, "error" only after the
\* last attempt, and the receiver sees a message at most once per attempt, however
\* late it processes the requests that were given up.
VerdictHonest ==
    \A c \in Calls :
       /\ phase[c] = "success" => received[c] >= 1
       /\ phase[c] = "error" => attempt[c] = MaxAttempts
       /\ received[c] <= attempt[c]
       /\ phase[c] = "calling" => received[c] < attempt[c]

\* Notify implements Delivery: a call that sleeps or waits for an answer is
\* "pending" there, and is eventually resumed.
OutcomeOf ==
    [c \in Calls |-> IF phase[c] \in {"calling", "backoff"} THEN "pending" ELSE phase[c]]

Promise == INSTANCE Delivery WITH outcome <- OutcomeOf

ImplementsDelivery == Promise!Spec

=============================================================================

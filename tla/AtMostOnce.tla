----------------------------- MODULE AtMostOnce -----------------------------
(***************************************************************************)
(* What a plain NATS subscription and the callback behind it promise to    *)
(* whoever publishes: a message is handled at most once, every message is  *)
(* settled in the end, and as long as nothing fails none is lost.  A       *)
(* failure may lose messages that are under way, and what the handling of  *)
(* earlier ones left in the memory of the process.                         *)
(*                                                                         *)
(* Assignments and Observations implement this specification.              *)
(***************************************************************************)
EXTENDS Naturals

CONSTANTS
    Topics,         \* what the messages are about
    Limit           \* bound on the messages about one of them

VARIABLES
    outstanding,    \* outstanding[t]: the messages about t under way
    handled,        \* handled[t]: those whose effect is there
    faulty          \* has anything failed?

vars == <<outstanding, handled, faulty>>

Init ==
    /\ outstanding = [t \in Topics |-> 0]
    /\ handled = [t \in Topics |-> 0]
    /\ faulty = FALSE

Publish(t) ==
    /\ outstanding' = [outstanding EXCEPT ![t] = @ + 1]
    /\ UNCHANGED <<handled, faulty>>

\* The handling may fail when its effect is already there.
Handle(t) ==
    /\ outstanding[t] > 0
    /\ outstanding' = [outstanding EXCEPT ![t] = @ - 1]
    /\ handled' = [handled EXCEPT ![t] = @ + 1]
    /\ faulty' \in {faulty, TRUE}

\* What may be left of f: no topic has more.
Remains(f) ==
    {g \in [Topics -> 0 .. Limit] : \A t \in Topics : g[t] <= f[t]}

Fail(left, kept) ==
    /\ outstanding' = left
    /\ handled' = kept
    /\ faulty' = TRUE

Next ==
    \/ \E t \in Topics : Publish(t) \/ Handle(t)
    \/ \E left \in Remains(outstanding), kept \in Remains(handled) : Fail(left, kept)

\* A message about t is settled, one way or the other.
Settle(t) ==
    \/ Handle(t)
    \/ \E left \in Remains(outstanding), kept \in Remains(handled) :
          left[t] < outstanding[t] /\ Fail(left, kept)

Spec == Init /\ [][Next]_vars /\ \A t \in Topics : WF_vars(Settle(t))

=============================================================================

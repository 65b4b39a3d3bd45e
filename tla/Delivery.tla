------------------------------ MODULE Delivery ------------------------------
(***************************************************************************)
(* What the notification dispatcher promises its callers, without saying   *)
(* how: a notification handed to dispatch() is settled exactly once, with  *)
(* the status "success" or "error", and that verdict is never revised.     *)
(*                                                                         *)
(* Notify implements this specification.  The modules whose handlers await *)
(* dispatch() are composed with it instead of with Notify.                 *)
(***************************************************************************)

CONSTANT Calls      \* the invocations of dispatch()

VARIABLE outcome    \* outcome[c]: "idle" before the call, then "pending",
                    \* then its verdict

vars == outcome

Verdicts == {"success", "error"}
Outcomes == {"idle", "pending"} \cup Verdicts

\* An invocation is always at one stage.
TypeOK == outcome \in [Calls -> Outcomes]

Init == outcome = [c \in Calls |-> "idle"]

\* A handler calls dispatch() and is suspended in it.
Accept(c) ==
    /\ outcome[c] = "idle"
    /\ outcome' = [outcome EXCEPT ![c] = "pending"]

\* dispatch() returns.  It may do so without ever having been suspended: the
\* e-mail adapter does not wait for anything.
Settle(c) ==
    /\ outcome[c] \notin Verdicts
    /\ \E v \in Verdicts : outcome' = [outcome EXCEPT ![c] = v]

\* The suspended call returns.
Return(c) == outcome[c] = "pending" /\ Settle(c)

Next == \E c \in Calls : Accept(c) \/ Settle(c)

Spec == Init /\ [][Next]_vars /\ \A c \in Calls : WF_vars(Return(c))

=============================================================================

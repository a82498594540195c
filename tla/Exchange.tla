------------------------------ MODULE Exchange ------------------------------
(***************************************************************************)
(* What send_with_retry promises its caller: the server's handler runs at  *)
(* most "budget" times, a response is only reported once it has run, and a *)
(* refusal by the rate limiter is only reported when it has not (unless    *)
(* something behind the handler may throttle, LateThrottle).               *)
(***************************************************************************)
EXTENDS Naturals

CONSTANT LateThrottle

VARIABLES budget,     \* how often this request may be executed
          executed,   \* how often the server has executed it
          result      \* what the caller has been told

vars == <<budget, executed, result>>

Init ==
    /\ budget \in Nat \ {0}
    /\ executed = 0
    /\ result = "pending"

\* Also once the caller has given up waiting: the request may still arrive.
Execute ==
    /\ executed < budget
    /\ result \in {"pending", "transport", "cancelled"}
    /\ executed' = executed + 1
    /\ UNCHANGED <<budget, result>>

Respond ==
    /\ result = "pending" /\ executed > 0
    /\ result' = "response"
    /\ UNCHANGED <<budget, executed>>

Refuse ==
    /\ result = "pending" /\ (executed = 0 \/ LateThrottle)
    /\ result' = "rateLimited"
    /\ UNCHANGED <<budget, executed>>

Abandon ==
    /\ result = "pending"
    /\ result' \in {"transport", "cancelled"}
    /\ UNCHANGED <<budget, executed>>

Next == Execute \/ Respond \/ Refuse \/ Abandon

Spec == Init /\ [][Next]_vars
=============================================================================

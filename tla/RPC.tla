-------------------------------- MODULE RPC --------------------------------
(***************************************************************************)
(* What Client.Call promises the code above it: a request is executed at   *)
(* most once; an answer means it was executed; "not sent" means it was not *)
(* and never will be; any other failure leaves it open, now and later.     *)
(* CallRead may therefore retry reads, and nobody retries a mutation.      *)
(***************************************************************************)
CONSTANT Callers   \* invocations of Call

VARIABLES
    phase,     \* "open" until the call returns, then "returned"
    out,       \* what it returned: "answered", "unsent" or "unknown"
    applied    \* how often the server executed the request

rpcVars == <<phase, out, applied>>

Init ==
    /\ phase = [p \in Callers |-> "open"]
    /\ out = [p \in Callers |-> "none"]
    /\ applied = [p \in Callers |-> 0]

\* The server executes the request: while the call is open, or after it
\* returned without knowing.
Apply(p) ==
    /\ applied[p] = 0
    /\ out[p] \in {"none", "unknown"}
    /\ applied' = [applied EXCEPT ![p] = 1]
    /\ UNCHANGED <<phase, out>>

Return(p, o) ==
    /\ phase[p] = "open"
    /\ o = "answered" => applied[p] = 1
    /\ o = "unsent" => applied[p] = 0
    /\ phase' = [phase EXCEPT ![p] = "returned"]
    /\ out' = [out EXCEPT ![p] = o]
    /\ UNCHANGED applied

Next == \E p \in Callers : Apply(p) \/ \E o \in {"answered", "unsent", "unknown"} : Return(p, o)

Spec == Init /\ [][Next]_rpcVars
=============================================================================

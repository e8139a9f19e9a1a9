----------------------------- MODULE RpcAbstract -----------------------------
(***************************************************************************)
(* What a call through the TryCP transport promises its caller (spec       *)
(* sections 4.2 and 8), with the wire left out.  A logical caller issues   *)
(* one call at a time.  The call either throws at once, or waits and then  *)
(* resolves with the answer to its own request, or rejects.  Nothing else  *)
(* ever changes a caller's state: the answer to one caller's request never *)
(* reaches another caller.                                                 *)
(***************************************************************************)
CONSTANTS Callers, Requests

VARIABLES callState, callReq, callResult

absVars == <<callState, callReq, callResult>>

Init ==
    /\ callState = [c \in Callers |-> "idle"]
    /\ callReq = [c \in Callers |-> CHOOSE r \in Requests : TRUE]
    /\ callResult = callReq

\* call(request) returns a promise that is still waiting.
Invoke(c, r) ==
    /\ callState[c] # "pending"
    /\ callState' = [callState EXCEPT ![c] = "pending"]
    /\ callReq' = [callReq EXCEPT ![c] = r]
    /\ UNCHANGED callResult

\* call(request) throws before it returns a promise.
Throw(c, r) ==
    /\ callState[c] # "pending"
    /\ callState' = [callState EXCEPT ![c] = "rejected"]
    /\ callReq' = [callReq EXCEPT ![c] = r]
    /\ UNCHANGED callResult

\* The promise resolves with the answer to the caller's own request.
Resolve(c) ==
    /\ callState[c] = "pending"
    /\ callState' = [callState EXCEPT ![c] = "resolved"]
    /\ callResult' = [callResult EXCEPT ![c] = callReq[c]]
    /\ UNCHANGED callReq

\* The promise rejects.
Reject(c) ==
    /\ callState[c] = "pending"
    /\ callState' = [callState EXCEPT ![c] = "rejected"]
    /\ UNCHANGED <<callReq, callResult>>

Next ==
    \E c \in Callers :
        \/ \E r \in Requests : Invoke(c, r) \/ Throw(c, r)
        \/ Resolve(c)
        \/ Reject(c)

Spec == Init /\ [][Next]_absVars

=============================================================================

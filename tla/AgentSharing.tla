----------------------------- MODULE AgentSharing -----------------------------
(***************************************************************************)
(* addAllAgentsToAllConductors (src/unnamed/part_007, lines 77-96).  For   *)
(* every conductor, concurrently: read its agent infos (agentInfo with no  *)
(* cell id: every agent its peer store holds), then send them to every     *)
(* other conductor with addAgentInfo.  The helper returns when the outer   *)
(* Promise.all resolves.  The addAgentInfo promises are not awaited: the   *)
(* inner callbacks return as soon as the request is sent, so the requests  *)
(* may still be in flight, and be applied later, when the helper returns.  *)
(*                                                                         *)
(* knows[c] is the set of conductors whose agents c's peer store holds.    *)
(***************************************************************************)
EXTENDS FiniteSets

CONSTANT Conductors

VARIABLES
    stage,     \* conductor -> step its outer callback is at
    info,      \* conductor -> the agent infos its agentInfo call returned
    knows,     \* conductor -> conductors whose agents its peer store holds
    inflight,  \* addAgentInfo requests sent and not yet applied: <<to, infos>>
    returned   \* the helper's promise has resolved

vars == <<stage, info, knows, inflight, returned>>

Stages == {"start", "reading", "read", "sent"}

Init ==
    /\ stage = [c \in Conductors |-> "start"]
    /\ info = [c \in Conductors |-> {}]
    /\ knows = [c \in Conductors |-> {c}]
    /\ inflight = {}
    /\ returned = FALSE

\* playerToShareAbout.adminWs().agentInfo({cell_id: null}) is sent.
RequestAgentInfo(c) ==
    /\ stage[c] = "start"
    /\ stage' = [stage EXCEPT ![c] = "reading"]
    /\ UNCHANGED <<info, knows, inflight, returned>>

\* The conductor answers with every agent info its peer store holds now.
AnswerAgentInfo(c) ==
    /\ stage[c] = "reading"
    /\ stage' = [stage EXCEPT ![c] = "read"]
    /\ info' = [info EXCEPT ![c] = knows[c]]
    /\ UNCHANGED <<knows, inflight, returned>>

\* Mutant: the index test inverted, so a conductor only shares with itself.
ShareSelfOnly(c) ==
    /\ stage[c] = "read"
    /\ stage' = [stage EXCEPT ![c] = "sent"]
    /\ inflight' = inflight \cup {<<c, info[c]>>}
    /\ UNCHANGED <<info, knows, returned>>

\* The inner Promise.all: for every other conductor, addAgentInfo is sent and
\* not awaited, so every inner callback resolves at once.
Share(c) ==
    /\ stage[c] = "read"
    /\ stage' = [stage EXCEPT ![c] = "sent"]
    /\ inflight' = inflight \cup {<<d, info[c]>> : d \in Conductors \ {c}}
    /\ UNCHANGED <<info, knows, returned>>

\* The outer Promise.all resolves once every outer callback has.
Return ==
    /\ ~returned
    /\ \A c \in Conductors : stage[c] = "sent"
    /\ returned' = TRUE
    /\ UNCHANGED <<stage, info, knows, inflight>>

\* A conductor applies an addAgentInfo request it received.
ApplyAgentInfo(m) ==
    /\ m \in inflight
    /\ knows' = [knows EXCEPT ![m[1]] = @ \cup m[2]]
    /\ inflight' = inflight \ {m}
    /\ UNCHANGED <<stage, info, returned>>

Next ==
    \/ \E c \in Conductors : RequestAgentInfo(c) \/ AnswerAgentInfo(c) \/ Share(c)
    \/ Return
    \/ \E m \in inflight : ApplyAgentInfo(m)

Spec == Init /\ [][Next]_vars

\* The event loop runs every callback whose promise is settled, and each
\* conductor answers and applies every admin request it receives.
Fairness ==
    /\ \A c \in Conductors : WF_vars(RequestAgentInfo(c)) /\ WF_vars(AnswerAgentInfo(c))
                             /\ WF_vars(Share(c))
    /\ WF_vars(Return)
    /\ \A c \in Conductors : \A s \in SUBSET Conductors : WF_vars(ApplyAgentInfo(<<c, s>>))

FairSpec == Spec /\ Fairness

-----------------------------------------------------------------------------
AllKnowAll == \A c, d \in Conductors : d \in knows[c]

(***************************************************************************)
(* The helper's promise: once addAllAgentsToAllConductors has returned,    *)
(* every conductor holds the agent infos of every other one, so the test   *)
(* that awaited it can rely on peers being known.                          *)
(***************************************************************************)
SharedWhenReturned == returned => AllKnowAll

(***************************************************************************)
(* Even though nothing awaits the addAgentInfo requests, every conductor   *)
(* eventually holds the agents of every other one, and keeps them.         *)
(***************************************************************************)
EventuallyAllShared == <>[]AllKnowAll

=============================================================================

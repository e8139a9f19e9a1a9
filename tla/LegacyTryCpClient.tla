-------------------------- MODULE LegacyTryCpClient --------------------------
(***************************************************************************)
(* The older TryCP client, the second class of                             *)
(* src/ts/src/trycp/trycp-client.ts (lines 292-433).  It has the same      *)
(* request table and module-global counter as TryCpClient, but its message *)
(* listener has no try/catch, no signal branch, and looks the entry up     *)
(* before it knows the id is registered: destructuring an absent entry     *)
(* throws a TypeError out of the ws listener, which Node reports as an     *)
(* uncaught exception and ends the process (crashed).                     *)
(*                                                                         *)
(* Values and the socket's life cycle are left out: TryCpClient covers     *)
(* them.  Frames are records with the response's id and its shape.         *)
(***************************************************************************)
EXTENDS Naturals, Sequences

CONSTANTS
    Callers,      \* logical callers sharing the client
    NoPromise,    \* an id with no entry in requestPromises
    MaxRequests,  \* bound on the request id counter
    MaxFrames,    \* bound on frames in flight from the server
    Behaviours    \* server behaviours a run allows: "malformed", "duplicate",
                  \* "signal", "encodeFail"

ASSUME LegacyAssumption ==
    /\ MaxRequests \in Nat \ {0}
    /\ MaxFrames \in Nat \ {0}
    /\ NoPromise \notin Callers
    /\ Behaviours \subseteq {"malformed", "duplicate", "signal", "encodeFail"}

VARIABLES
    requestId,        \* let requestId (module global)
    requestPromises,  \* id -> caller whose promise is registered, or NoPromise
    callState,        \* caller -> "idle" | "pending" | "resolved" | "rejected"
    callId,           \* caller -> id its latest call registered under
    serverInbox,      \* ids the server received and has not answered
    toClient,         \* frames from the server, in socket order
    responded,        \* response frames sent (for duplicates)
    crashed           \* the process died of an uncaught exception

vars == <<requestId, requestPromises, callState, callId, serverInbox, toClient,
          responded, crashed>>

Ids == 0 .. MaxRequests - 1
NoId == MaxRequests   \* stands for the missing id of a signal frame
Kinds == {"ok", "err", "malformed", "signal"}
Frames == [id : Ids \cup {NoId}, kind : Kinds]

Init ==
    /\ requestId = 0
    /\ requestPromises = [k \in Ids |-> NoPromise]
    /\ callState = [c \in Callers |-> "idle"]
    /\ callId = [c \in Callers |-> 0]
    /\ serverInbox = {}
    /\ toClient = <<>>
    /\ responded = {}
    /\ crashed = FALSE

\* Mutant: call() without requestId++.
CallNoIncrement(c) ==
    /\ ~crashed
    /\ callState[c] # "pending"
    /\ requestId < MaxRequests
    /\ requestPromises' = [requestPromises EXCEPT ![requestId] = c]
    /\ callState' = [callState EXCEPT ![c] = "pending"]
    /\ callId' = [callId EXCEPT ![c] = requestId]
    /\ serverInbox' = serverInbox \cup {requestId}
    /\ UNCHANGED <<requestId, toClient, responded, crashed>>

\* call(request): register the promise, encode, send, increment.
Call(c) ==
    /\ ~crashed
    /\ callState[c] # "pending"
    /\ requestId < MaxRequests
    /\ requestPromises' = [requestPromises EXCEPT ![requestId] = c]
    /\ callState' = [callState EXCEPT ![c] = "pending"]
    /\ callId' = [callId EXCEPT ![c] = requestId]
    /\ serverInbox' = serverInbox \cup {requestId}
    /\ requestId' = requestId + 1
    /\ UNCHANGED <<toClient, responded, crashed>>

\* msgpack.encode throws after the registration: call() throws, the entry
\* stays and requestId is not incremented.
CallEncodeFails(c) ==
    /\ "encodeFail" \in Behaviours
    /\ ~crashed
    /\ callState[c] # "pending"
    /\ requestId < MaxRequests
    /\ requestPromises' = [requestPromises EXCEPT ![requestId] = c]
    /\ callState' = [callState EXCEPT ![c] = "rejected"]
    /\ callId' = [callId EXCEPT ![c] = requestId]
    /\ UNCHANGED <<requestId, serverInbox, toClient, responded, crashed>>

\* Settling the promise registered at k for caller c: a no-op when c no
\* longer waits on k.
Settle(c, k, st) ==
    callState' = IF callState[c] = "pending" /\ callId[c] = k
                    THEN [callState EXCEPT ![c] = st] ELSE callState

(***************************************************************************)
(* The message listener: decode, destructure requestPromises[id] (throws   *)
(* when there is no entry, and a signal frame has no id), resolve on "0",  *)
(* reject on "1", log any other shape, then delete the entry in every case. *)
(***************************************************************************)
ReceiveResponse ==
    /\ ~crashed
    /\ toClient # <<>>
    /\ toClient' = Tail(toClient)
    /\ LET f == Head(toClient)
       IN  IF f.kind = "signal" \/ requestPromises[f.id] = NoPromise
              THEN /\ crashed' = TRUE
                   /\ UNCHANGED <<requestPromises, callState>>
              ELSE /\ requestPromises' = [requestPromises EXCEPT ![f.id] = NoPromise]
                   /\ CASE f.kind = "ok" -> Settle(requestPromises[f.id], f.id, "resolved")
                        [] f.kind = "err" -> Settle(requestPromises[f.id], f.id, "rejected")
                        [] OTHER -> UNCHANGED callState
                   /\ UNCHANGED crashed
    /\ UNCHANGED <<requestId, callId, serverInbox, responded>>

-----------------------------------------------------------------------------
(* The TryCP server.                                                       *)

Emit(f) ==
    /\ ~crashed
    /\ Len(toClient) < MaxFrames
    /\ toClient' = Append(toClient, f)

ServerRespond(k) ==
    /\ k \in serverInbox
    /\ \E kind \in {"ok", "err"} \cup (IF "malformed" \in Behaviours THEN {"malformed"} ELSE {}) :
          /\ Emit([id |-> k, kind |-> kind])
          /\ responded' = responded \cup {[id |-> k, kind |-> kind]}
    /\ serverInbox' = serverInbox \ {k}
    /\ UNCHANGED <<requestId, requestPromises, callState, callId, crashed>>

ServerDuplicate(f) ==
    /\ "duplicate" \in Behaviours
    /\ f \in responded
    /\ Emit(f)
    /\ UNCHANGED <<requestId, requestPromises, callState, callId, serverInbox, responded, crashed>>

\* A signal pushed on a connected app interface (spec 4.2).
ServerSignal ==
    /\ "signal" \in Behaviours
    /\ Emit([id |-> NoId, kind |-> "signal"])
    /\ UNCHANGED <<requestId, requestPromises, callState, callId, serverInbox, responded, crashed>>

Next ==
    \/ \E c \in Callers : Call(c) \/ CallEncodeFails(c)
    \/ ReceiveResponse
    \/ \E k \in Ids : ServerRespond(k)
    \/ \E f \in responded : ServerDuplicate(f)
    \/ ServerSignal

Spec == Init /\ [][Next]_vars

-----------------------------------------------------------------------------
(***************************************************************************)
(* A caller whose call is still pending is registered under its id until   *)
(* its response arrives: its entry is not taken by a later call, so the   *)
(* response reaches it (spec 8, per-request-id exactly-once settlement).   *)
(***************************************************************************)
PendingRegistered ==
    \A c \in Callers :
        callState[c] = "pending" /\ callId[c] \in serverInbox => requestPromises[callId[c]] = c

(***************************************************************************)
(* Spec 4.2 and 8: a response for an id with no pending entry, and a       *)
(* signal on a port with no handler, are dropped without harm; the process *)
(* and every other call go on.                                             *)
(***************************************************************************)
NoCrashOnUnexpectedFrame == ~crashed

=============================================================================

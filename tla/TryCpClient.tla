----------------------------- MODULE TryCpClient -----------------------------
(***************************************************************************)
(* The TryCP client (src/ts/src/trycp/trycp-client.ts, first class of the  *)
(* file): one web socket to a TryCP server, a module-global request id     *)
(* counter, a table requestPromises from request id to the promise of the  *)
(* call that sent it, and a table signalHandlers from app interface port   *)
(* to callback.  The server is modelled as the environment: it answers     *)
(* received requests in any order and pushes signals; in runs that allow   *)
(* it, it also garbles a response, duplicates one, or drops the socket.    *)
(*                                                                         *)
(* A logical caller awaits one call at a time.  A promise is identified by *)
(* its caller and the id it was registered under (callId): settling an     *)
(* entry whose caller is no longer waiting on that id settles a promise    *)
(* that is already settled or was never returned, which in JavaScript is a *)
(* no-op.                                                                  *)
(***************************************************************************)
EXTENDS Naturals, Sequences

CONSTANTS
    Callers,        \* logical callers sharing the client (test code, conductors)
    Requests,       \* abstract request payloads; the server's answer echoes one
    Ports,          \* app interface ports signals are addressed to
    Handlers,       \* signal callbacks
    NoPromise,      \* an id with no entry in requestPromises
    NoHandler,      \* signalHandlers[port] = undefined
    MaxRequests,    \* bound on the request id counter
    MaxFrames,      \* bound on frames in flight from the server
    Behaviours      \* environment behaviours a run allows, see below

ASSUME ConstAssumption ==
    /\ MaxRequests \in Nat \ {0}
    /\ MaxFrames \in Nat \ {0}
    /\ Requests # {}
    /\ NoPromise \notin Callers
    /\ NoHandler \notin Handlers
    /\ Behaviours \subseteq {"malformed", "duplicate", "encodeFail", "close", "drop"}

VARIABLES
    requestId,        \* let requestId (module global, line 23)
    requestPromises,  \* id -> caller whose promise is registered, or NoPromise
    signalHandlers,   \* port -> handler or NoHandler
    readyState,       \* this.ws.readyState
    callState,        \* caller -> "idle" | "pending" | "resolved" | "rejected"
    callId,           \* caller -> id its latest call registered under
    callReq,          \* caller -> request of its latest call
    callResult,       \* caller -> value its latest call resolved with
    serverInbox,      \* requests the server received and has not answered
    toClient,         \* frames from the server, in socket order
    responded,        \* response frames the server has sent (for duplicates)
    delivered         \* <<port, handler>> pairs a signal was delivered to

clientVars == <<requestId, requestPromises, signalHandlers, readyState>>
callerVars == <<callState, callId, callReq, callResult>>
serverVars == <<serverInbox, toClient, responded, delivered>>
vars == <<clientVars, callerVars, serverVars>>

Ids == 0 .. MaxRequests - 1
CallStates == {"idle", "pending", "resolved", "rejected"}
ResponseKinds == {"ok", "err", "malformed"}
ResponseFrames == [type : {"response"}, id : Ids, kind : ResponseKinds, val : Requests]
SignalFrames == [type : {"signal"}, port : Ports]
CloseFrames == [type : {"close"}]
Frames == ResponseFrames \cup SignalFrames \cup CloseFrames

\* The server has sent its close frame: it sends nothing after it.
CloseSent == \E i \in 1 .. Len(toClient) : toClient[i].type = "close"
ServerOpen == readyState # "CLOSED" /\ ~CloseSent

Init ==
    /\ requestId = 0
    /\ requestPromises = [k \in Ids |-> NoPromise]
    /\ signalHandlers = [p \in Ports |-> NoHandler]
    /\ readyState = "OPEN"
    /\ callState = [c \in Callers |-> "idle"]
    /\ callId = [c \in Callers |-> 0]
    /\ callReq = [c \in Callers |-> CHOOSE r \in Requests : TRUE]
    /\ callResult = callReq
    /\ serverInbox = {}
    /\ toClient = <<>>
    /\ responded = {}
    /\ delivered = {}

\* Mutant: call() that forgets requestId++.
CallNoIncrement(c, r) ==
    /\ callState[c] # "pending"
    /\ requestId < MaxRequests
    /\ requestPromises' = [requestPromises EXCEPT ![requestId] = c]
    /\ callState' = [callState EXCEPT ![c] = "pending"]
    /\ callId' = [callId EXCEPT ![c] = requestId]
    /\ callReq' = [callReq EXCEPT ![c] = r]
    /\ serverInbox' = IF readyState = "OPEN" /\ ~CloseSent
                         THEN serverInbox \cup {[id |-> requestId, req |-> r]}
                         ELSE serverInbox
    /\ UNCHANGED <<requestId, signalHandlers, readyState, callResult, toClient, responded, delivered>>

(***************************************************************************)
(* call(request): register the promise under requestId, encode, send, and  *)
(* increment.  ws.send on a socket that is not OPEN does not throw: the    *)
(* frame is silently not sent, and the promise stays registered.           *)
(***************************************************************************)
Call(c, r) ==
    /\ callState[c] # "pending"
    /\ requestId < MaxRequests
    /\ requestPromises' = [requestPromises EXCEPT ![requestId] = c]
    /\ callState' = [callState EXCEPT ![c] = "pending"]
    /\ callId' = [callId EXCEPT ![c] = requestId]
    /\ callReq' = [callReq EXCEPT ![c] = r]
    /\ serverInbox' = IF readyState = "OPEN" /\ ~CloseSent
                         THEN serverInbox \cup {[id |-> requestId, req |-> r]}
                         ELSE serverInbox
    /\ requestId' = requestId + 1
    /\ UNCHANGED <<signalHandlers, readyState, callResult, toClient, responded, delivered>>

\* msgpack.encode throws after the promise was registered: call() throws to
\* its caller, requestId is not incremented, the entry is left behind.
CallEncodeFails(c, r) ==
    /\ "encodeFail" \in Behaviours
    /\ callState[c] # "pending"
    /\ requestId < MaxRequests
    /\ requestPromises' = [requestPromises EXCEPT ![requestId] = c]
    /\ callState' = [callState EXCEPT ![c] = "rejected"]
    /\ callId' = [callId EXCEPT ![c] = requestId]
    /\ callReq' = [callReq EXCEPT ![c] = r]
    /\ UNCHANGED <<requestId, signalHandlers, readyState, callResult, serverVars>>

\* Settling the promise registered at id k for caller c, with promise
\* semantics.  Only a resolve hands the caller a value; a reject hands it the
\* error, which the model leaves out.
Settle(c, k, st, v) ==
    IF callState[c] = "pending" /\ callId[c] = k
       THEN /\ callState' = [callState EXCEPT ![c] = st]
            /\ callResult' = IF st = "resolved" THEN [callResult EXCEPT ![c] = v]
                                                ELSE callResult
       ELSE UNCHANGED <<callState, callResult>>

\* Mutant: the listener that settles but never deletes the entry.
ReceiveResponseNoDelete ==
    /\ readyState # "CLOSED"
    /\ toClient # <<>>
    /\ Head(toClient).type = "response"
    /\ LET f == Head(toClient)
           c == requestPromises[f.id]
       IN  IF c = NoPromise \/ f.kind = "malformed"
              THEN UNCHANGED <<callState, callResult>>
              ELSE Settle(c, f.id, IF f.kind = "ok" THEN "resolved" ELSE "rejected", f.val)
    /\ toClient' = Tail(toClient)
    /\ UNCHANGED <<requestId, requestPromises, signalHandlers, readyState, callId, callReq,
                   serverInbox, responded, delivered>>

\* Mutant: the listener without the "1" branch: an error response is treated
\* as an unknown response type.
ReceiveResponseNoErrBranch ==
    /\ readyState # "CLOSED"
    /\ toClient # <<>>
    /\ Head(toClient).type = "response"
    /\ LET f == Head(toClient)
           c == requestPromises[f.id]
       IN  IF c = NoPromise \/ f.kind # "ok"
              THEN UNCHANGED <<requestPromises, callState, callResult>>
              ELSE /\ Settle(c, f.id, "resolved", f.val)
                   /\ requestPromises' = [requestPromises EXCEPT ![f.id] = NoPromise]
    /\ toClient' = Tail(toClient)
    /\ UNCHANGED <<requestId, signalHandlers, readyState, callId, callReq,
                   serverInbox, responded, delivered>>

(***************************************************************************)
(* The "message" listener on a response frame.  An id with no entry makes  *)
(* the destructuring throw; the outer catch logs it.  "0" resolves (or     *)
(* rejects when processSuccessResponse throws on an Admin API error), "1"  *)
(* rejects; both then delete the entry.  Any other shape throws before the *)
(* delete: the entry stays and the promise is never settled.               *)
(***************************************************************************)
ReceiveResponse ==
    /\ readyState # "CLOSED"
    /\ toClient # <<>>
    /\ Head(toClient).type = "response"
    /\ LET f == Head(toClient)
           c == requestPromises[f.id]
       IN  IF c = NoPromise \/ f.kind = "malformed"
              THEN UNCHANGED <<requestPromises, callState, callResult>>
              ELSE /\ Settle(c, f.id, IF f.kind = "ok" THEN "resolved" ELSE "rejected", f.val)
                   /\ requestPromises' = [requestPromises EXCEPT ![f.id] = NoPromise]
    /\ toClient' = Tail(toClient)
    /\ UNCHANGED <<requestId, signalHandlers, readyState, callId, callReq,
                   serverInbox, responded, delivered>>

\* Mutant: the signal branch without the `if (signalHandler)` check.
ReceiveSignalNoGuard ==
    /\ readyState # "CLOSED"
    /\ toClient # <<>>
    /\ Head(toClient).type = "signal"
    /\ delivered' = delivered \cup {<<Head(toClient).port, signalHandlers[Head(toClient).port]>>}
    /\ toClient' = Tail(toClient)
    /\ UNCHANGED <<clientVars, callerVars, serverInbox, responded>>

\* The "message" listener on a signal frame: call the port's handler, if any.
ReceiveSignal ==
    /\ readyState # "CLOSED"
    /\ toClient # <<>>
    /\ Head(toClient).type = "signal"
    /\ LET p == Head(toClient).port
       IN  delivered' = IF signalHandlers[p] = NoHandler THEN delivered
                        ELSE delivered \cup {<<p, signalHandlers[p]>>}
    /\ toClient' = Tail(toClient)
    /\ UNCHANGED <<clientVars, callerVars, serverInbox, responded>>

\* The server's close frame ends the socket; pending promises are untouched.
ReceiveClose ==
    /\ readyState # "CLOSED"
    /\ toClient # <<>>
    /\ Head(toClient).type = "close"
    /\ readyState' = "CLOSED"
    /\ toClient' = Tail(toClient)
    /\ UNCHANGED <<requestId, requestPromises, signalHandlers, callerVars,
                   serverInbox, responded, delivered>>

\* setSignalHandler(port, handler): last write wins; undefined clears.
SetSignalHandler(p, h) ==
    /\ signalHandlers' = [signalHandlers EXCEPT ![p] = h]
    /\ UNCHANGED <<requestId, requestPromises, readyState, callerVars, serverVars>>

\* close(): ws.close(1000) starts the closing handshake.
Close ==
    /\ "close" \in Behaviours
    /\ readyState = "OPEN"
    /\ readyState' = "CLOSING"
    /\ UNCHANGED <<requestId, requestPromises, signalHandlers, callerVars, serverVars>>

-----------------------------------------------------------------------------
(* The TryCP server, as the environment. *)

ServerSend(f) ==
    /\ ServerOpen
    /\ Len(toClient) < MaxFrames
    /\ toClient' = Append(toClient, f)

ServerRespond(m, kind) ==
    /\ m \in serverInbox
    /\ kind \in {"ok", "err"} \cup ({"malformed"} \cap Behaviours)
    /\ LET f == [type |-> "response", id |-> m.id, kind |-> kind, val |-> m.req]
       IN  /\ ServerSend(f)
           /\ responded' = responded \cup {f}
    /\ serverInbox' = serverInbox \ {m}
    /\ UNCHANGED <<clientVars, callerVars, delivered>>

ServerSignal(p) ==
    /\ ServerSend([type |-> "signal", port |-> p])
    /\ UNCHANGED <<clientVars, callerVars, serverInbox, responded, delivered>>

ServerDuplicate(f) ==
    /\ "duplicate" \in Behaviours
    /\ f \in responded
    /\ ServerSend(f)
    /\ UNCHANGED <<clientVars, callerVars, serverInbox, responded, delivered>>

\* The server answers the client's close, or (drop) closes on its own.
ServerClose ==
    /\ readyState = "CLOSING" \/ "drop" \in Behaviours
    /\ ServerOpen
    /\ toClient' = Append(toClient, [type |-> "close"])
    /\ serverInbox' = {}
    /\ UNCHANGED <<clientVars, callerVars, responded, delivered>>

-----------------------------------------------------------------------------
Next ==
    \/ \E c \in Callers, r \in Requests : Call(c, r) \/ CallEncodeFails(c, r)
    \/ ReceiveResponse
    \/ ReceiveSignal
    \/ ReceiveClose
    \/ \E p \in Ports, h \in Handlers \cup {NoHandler} : SetSignalHandler(p, h)
    \/ Close
    \/ \E m \in serverInbox, kind \in ResponseKinds : ServerRespond(m, kind)
    \/ \E p \in Ports : ServerSignal(p)
    \/ \E f \in responded : ServerDuplicate(f)
    \/ ServerClose

Spec == Init /\ [][Next]_vars

\* The event loop delivers every frame and the server answers every request
\* it holds; callers, signals, close and the faults need not happen.  The
\* answer is strongly fair only because MaxFrames can keep it disabled while
\* the model's bounded socket is full of signals.
Fairness ==
    /\ WF_vars(ReceiveResponse \/ ReceiveSignal \/ ReceiveClose)
    /\ \A m \in [id : Ids, req : Requests] :
           SF_vars(\E kind \in ResponseKinds : ServerRespond(m, kind))

FairSpec == Spec /\ Fairness

-----------------------------------------------------------------------------
TypeOK ==
    /\ requestId \in 0 .. MaxRequests
    /\ requestPromises \in [Ids -> Callers \cup {NoPromise}]
    /\ signalHandlers \in [Ports -> Handlers \cup {NoHandler}]
    /\ readyState \in {"OPEN", "CLOSING", "CLOSED"}
    /\ callState \in [Callers -> CallStates]
    /\ callId \in [Callers -> Ids]
    /\ callReq \in [Callers -> Requests]
    /\ callResult \in [Callers -> Requests]
    /\ serverInbox \subseteq [id : Ids, req : Requests]
    /\ toClient \in Seq(Frames)
    /\ responded \subseteq ResponseFrames
    /\ delivered \subseteq Ports \X Handlers

(***************************************************************************)
(* Id-based correlation (spec section 8): whatever the order the server    *)
(* answers in, and whatever duplicates it sends, a call that resolved      *)
(* resolved with the answer to its own request, not to another caller's.   *)
(* It rests on call() registering and sending under the same requestId and *)
(* the counter never handing out an id twice.                              *)
(***************************************************************************)
Correlation ==
    \A c \in Callers : callState[c] = "resolved" => callResult[c] = callReq[c]

(***************************************************************************)
(* The promise table is exact (spec section 3 and the timeout scenario of  *)
(* section 8): every waiting caller's promise is registered under its id,  *)
(* and every entry is the promise of a caller still waiting on that id,    *)
(* except the one left by a call whose encoding threw, which sits at the   *)
(* id the next call will overwrite.  A missed delete leaks an entry; an id *)
(* handed out twice loses a waiting caller's promise.                      *)
(***************************************************************************)
PromiseTableExact ==
    /\ \A c \in Callers : callState[c] = "pending" => requestPromises[callId[c]] = c
    /\ \A k \in Ids : requestPromises[k] # NoPromise =>
           LET c == requestPromises[k]
           IN  /\ callId[c] = k
               /\ callState[c] = "pending" \/ (callState[c] = "rejected" /\ k = requestId)

(***************************************************************************)
(* Every call settles: with a server that answers well-formed responses    *)
(* and a socket nobody closes, each awaited call() eventually resolves or  *)
(* rejects.                                                                *)
(***************************************************************************)
EveryCallSettles ==
    \A c \in Callers : callState[c] = "pending" ~> callState[c] # "pending"

(***************************************************************************)
(* Spec section 4.2: when the connection closes, every outstanding call is *)
(* rejected with ConnectionClosed; no call is left waiting on a closed     *)
(* socket.  close() and the socket's close event leave requestPromises as  *)
(* they are.                                                               *)
(***************************************************************************)
ClosedLeavesNoCallPending ==
    readyState = "CLOSED" => \A c \in Callers : callState[c] # "pending"

-----------------------------------------------------------------------------
(***************************************************************************)
(* The client implements the abstract call of RpcAbstract.  The caller's   *)
(* view (callState, callReq, callResult) is the refinement mapping; the    *)
(* counter, the promise table, the socket and the server are hidden.       *)
(***************************************************************************)
Rpc == INSTANCE RpcAbstract
           WITH Callers <- Callers, Requests <- Requests,
                callState <- callState, callReq <- callReq, callResult <- callResult

(***************************************************************************)
(* Every step of call() and of the message listener is, for the callers, a *)
(* step of the abstract call or no change at all: an answer resolves only  *)
(* the caller that sent the request, with that request's answer, and only  *)
(* while it waits; a duplicate or stale answer changes no caller.           *)
(***************************************************************************)
ImplementsRpc == Rpc!Spec

=============================================================================

-------------------------- MODULE TryCpClientProofs --------------------------
(***************************************************************************)
(* Proofs about the TryCP client, for every number of callers, ports and   *)
(* every bound on the request ids.                                         *)
(***************************************************************************)
EXTENDS TryCpClient, TLAPS, SequenceTheorems

USE ConstAssumption

(***************************************************************************)
(* Type correctness: every state the client and its server reach is        *)
(* well typed; in particular a response frame always carries an id the     *)
(* counter handed out, so requestPromises[id] is always defined.           *)
(***************************************************************************)
LEMMA TypeCorrectInit == Init => TypeOK
BY DEF Init, TypeOK, Ids, CallStates

LEMMA TypeCorrectStep == TypeOK /\ [Next]_vars => TypeOK'
<1> SUFFICES ASSUME TypeOK, [Next]_vars PROVE TypeOK'
    OBVIOUS
<1>1. ASSUME NEW c \in Callers, NEW r \in Requests, Call(c, r) PROVE TypeOK'
    BY <1>1 DEF Call, TypeOK, Ids, CallStates, clientVars, callerVars, serverVars
<1>2. ASSUME NEW c \in Callers, NEW r \in Requests, CallEncodeFails(c, r) PROVE TypeOK'
    BY <1>2 DEF CallEncodeFails, TypeOK, Ids, CallStates, clientVars, callerVars, serverVars
<1>3. ASSUME ReceiveResponse PROVE TypeOK'
    <2>1. Head(toClient) \in ResponseFrames
        BY <1>3 DEF ReceiveResponse, TypeOK, Frames, ResponseFrames, SignalFrames, CloseFrames
    <2>2. Tail(toClient) \in Seq(Frames)
        BY <1>3 DEF ReceiveResponse, TypeOK
    <2> QED
        BY <1>3, <2>1, <2>2 DEF ReceiveResponse, Settle, TypeOK, ResponseFrames, CallStates, Ids
<1>4. ASSUME ReceiveSignal PROVE TypeOK'
    <2>1. Head(toClient) \in SignalFrames
        BY <1>4 DEF ReceiveSignal, TypeOK, Frames, ResponseFrames, SignalFrames, CloseFrames
    <2>2. Tail(toClient) \in Seq(Frames)
        BY <1>4 DEF ReceiveSignal, TypeOK
    <2> QED
        BY <1>4, <2>1, <2>2 DEF ReceiveSignal, TypeOK, SignalFrames, clientVars, callerVars
<1>5. ASSUME ReceiveClose PROVE TypeOK'
    BY <1>5 DEF ReceiveClose, TypeOK, clientVars, callerVars, serverVars
<1>6. ASSUME NEW p \in Ports, NEW h \in Handlers \cup {NoHandler}, SetSignalHandler(p, h)
      PROVE TypeOK'
    BY <1>6 DEF SetSignalHandler, TypeOK, clientVars, callerVars, serverVars
<1>7. ASSUME Close PROVE TypeOK'
    BY <1>7 DEF Close, TypeOK, clientVars, callerVars, serverVars
<1>8. ASSUME NEW m \in serverInbox, NEW kind \in ResponseKinds, ServerRespond(m, kind)
      PROVE TypeOK'
    BY <1>8 DEF ServerRespond, ServerSend, TypeOK, Frames, ResponseFrames, ResponseKinds, clientVars, callerVars, serverVars
<1>9. ASSUME NEW p \in Ports, ServerSignal(p) PROVE TypeOK'
    BY <1>9 DEF ServerSignal, ServerSend, TypeOK, Frames, SignalFrames, clientVars, callerVars, serverVars
<1>10. ASSUME NEW f \in responded, ServerDuplicate(f) PROVE TypeOK'
    BY <1>10 DEF ServerDuplicate, ServerSend, TypeOK, Frames, clientVars, callerVars, serverVars
<1>11. ASSUME ServerClose PROVE TypeOK'
    BY <1>11 DEF ServerClose, TypeOK, Frames, CloseFrames, clientVars, callerVars, serverVars
<1>12. CASE UNCHANGED vars
    BY <1>12 DEF vars, clientVars, callerVars, serverVars, TypeOK
<1> QED
    BY <1>1, <1>2, <1>3, <1>4, <1>5, <1>6, <1>7, <1>8, <1>9, <1>10, <1>11, <1>12
    DEF Next

THEOREM TypeCorrect == Spec => []TypeOK
BY TypeCorrectInit, TypeCorrectStep, PTL DEF Spec

-----------------------------------------------------------------------------
(***************************************************************************)
(* The promise table is exact.  PromiseTableExact alone is not inductive:  *)
(* call() overwrites requestPromises[requestId], which would lose a        *)
(* waiting caller's promise if that caller's id were not already below the *)
(* counter.  The strengthening says so: a waiting caller's id was handed   *)
(* out before the current value of requestId.                              *)
(***************************************************************************)
PendingBelow == \A c \in Callers : callState[c] = "pending" => callId[c] < requestId

IInv == TypeOK /\ PromiseTableExact /\ PendingBelow

LEMMA IInvInit == Init => IInv
BY TypeCorrectInit DEF Init, IInv, PromiseTableExact, PendingBelow

\* The steps that leave the counter, the table and the callers alone.
LEMMA IInvFrame ==
    ASSUME IInv, TypeOK',
           UNCHANGED <<requestId, requestPromises, callState, callId>>
    PROVE  IInv'
BY DEF IInv, PromiseTableExact, PendingBelow

LEMMA IInvCall ==
    ASSUME IInv, NEW c \in Callers, NEW r \in Requests, Call(c, r), TypeOK'
    PROVE  IInv'
<1> USE DEF IInv, TypeOK, Ids
<1>1. PendingBelow'
    BY DEF Call, PendingBelow
<1>2. \A d \in Callers : callState'[d] = "pending" => requestPromises'[callId'[d]] = d
    BY DEF Call, PendingBelow, PromiseTableExact
<1>3. \A k \in Ids : requestPromises'[k] # NoPromise =>
          LET d == requestPromises'[k]
          IN  /\ callId'[d] = k
              /\ callState'[d] = "pending" \/ (callState'[d] = "rejected" /\ k = requestId')
    <2> SUFFICES ASSUME NEW k \in Ids, requestPromises'[k] # NoPromise
                 PROVE  LET d == requestPromises'[k]
                        IN  /\ callId'[d] = k
                            /\ callState'[d] = "pending" \/ (callState'[d] = "rejected" /\ k = requestId')
        OBVIOUS
    <2>1. CASE k = requestId
        BY <2>1 DEF Call
    <2>2. CASE k # requestId
        <3>1. requestPromises'[k] = requestPromises[k] /\ requestPromises[k] # c
            \* c is not waiting, so no entry but the one at requestId is c's.
            BY <2>2 DEF Call, PromiseTableExact, PendingBelow
        <3>2. callState[requestPromises[k]] = "pending"
            BY <2>2, <3>1 DEF Call, PromiseTableExact
        <3> QED
            BY <2>2, <3>1, <3>2 DEF Call, PromiseTableExact
    <2> QED
        BY <2>1, <2>2
<1> QED
    BY <1>1, <1>2, <1>3 DEF PromiseTableExact

LEMMA IInvCallEncodeFails ==
    ASSUME IInv, NEW c \in Callers, NEW r \in Requests, CallEncodeFails(c, r), TypeOK'
    PROVE  IInv'
<1> USE DEF IInv, TypeOK, Ids
<1>1. PendingBelow'
    BY DEF CallEncodeFails, PendingBelow
<1>2. \A d \in Callers : callState'[d] = "pending" => requestPromises'[callId'[d]] = d
    BY DEF CallEncodeFails, PendingBelow, PromiseTableExact
<1>3. \A k \in Ids : requestPromises'[k] # NoPromise =>
          LET d == requestPromises'[k]
          IN  /\ callId'[d] = k
              /\ callState'[d] = "pending" \/ (callState'[d] = "rejected" /\ k = requestId')
    BY DEF CallEncodeFails, PromiseTableExact, PendingBelow
<1> QED
    BY <1>1, <1>2, <1>3 DEF PromiseTableExact

LEMMA IInvReceiveResponse ==
    ASSUME IInv, ReceiveResponse, TypeOK'
    PROVE  IInv'
<1> USE DEF IInv, TypeOK, Ids
<1> DEFINE f == Head(toClient)
           c == requestPromises[f.id]
<1>1. f \in ResponseFrames
    BY DEF ReceiveResponse, Frames, ResponseFrames, SignalFrames, CloseFrames
<1>2. CASE c = NoPromise \/ f.kind = "malformed"
    BY <1>2 DEF ReceiveResponse, PromiseTableExact, PendingBelow
<1>3. CASE c # NoPromise /\ f.kind # "malformed"
    <2>1. /\ requestPromises' = [requestPromises EXCEPT ![f.id] = NoPromise]
          /\ Settle(c, f.id, IF f.kind = "ok" THEN "resolved" ELSE "rejected", f.val)
          /\ UNCHANGED <<requestId, callId>>
        BY <1>3 DEF ReceiveResponse
    <2>2. c \in Callers /\ callId[c] = f.id
        BY <1>1, <1>3 DEF PromiseTableExact, ResponseFrames
    <2>3. CASE callState[c] = "pending"
        <3>1. callState' = [callState EXCEPT ![c] = IF f.kind = "ok" THEN "resolved" ELSE "rejected"]
            BY <2>1, <2>2, <2>3 DEF Settle
        <3> QED
            BY <1>1, <2>1, <2>2, <3>1 DEF PromiseTableExact, PendingBelow, ResponseFrames
    <2>4. CASE callState[c] # "pending"
        \* c is the entry a failed encoding left behind: no waiting caller
        \* holds f.id, so deleting it disturbs nobody.
        <3>1. UNCHANGED callState
            BY <2>1, <2>4 DEF Settle
        <3>2. f.id \in Ids
            BY <1>1 DEF ResponseFrames
        <3>3. PendingBelow'
            BY <2>1, <3>1 DEF PendingBelow
        <3>4. \A d \in Callers : callState'[d] = "pending" => requestPromises'[callId'[d]] = d
            <4> SUFFICES ASSUME NEW d \in Callers, callState'[d] = "pending"
                         PROVE  requestPromises'[callId'[d]] = d
                OBVIOUS
            <4>1. requestPromises[callId[d]] = d /\ d # c
                BY <2>4, <3>1 DEF PromiseTableExact
            <4>2. callId[d] # f.id
                BY <4>1
            <4> QED
                BY <2>1, <3>2, <4>1, <4>2
        <3>5. \A k \in Ids : requestPromises'[k] # NoPromise =>
                  LET d == requestPromises'[k]
                  IN  /\ callId'[d] = k
                      /\ callState'[d] = "pending" \/ (callState'[d] = "rejected" /\ k = requestId')
            <4> SUFFICES ASSUME NEW k \in Ids, requestPromises'[k] # NoPromise
                         PROVE  LET d == requestPromises'[k]
                                IN  /\ callId'[d] = k
                                    /\ callState'[d] = "pending" \/ (callState'[d] = "rejected" /\ k = requestId')
                OBVIOUS
            <4>1. k # f.id /\ requestPromises'[k] = requestPromises[k]
                BY <2>1, <3>2
            <4> QED
                BY <2>1, <3>1, <4>1 DEF PromiseTableExact
        <3> QED
            BY <3>3, <3>4, <3>5 DEF PromiseTableExact
    <2> QED
        BY <2>3, <2>4
<1> QED
    BY <1>2, <1>3

LEMMA IInvStep == IInv /\ [Next]_vars => IInv'
<1> SUFFICES ASSUME IInv, [Next]_vars PROVE IInv'
    OBVIOUS
<1>0. TypeOK'
    BY TypeCorrectStep DEF IInv
<1>1. CASE \E c \in Callers, r \in Requests : Call(c, r)
    BY <1>0, <1>1, IInvCall
<1>2. CASE \E c \in Callers, r \in Requests : CallEncodeFails(c, r)
    BY <1>0, <1>2, IInvCallEncodeFails
<1>3. CASE ReceiveResponse
    BY <1>0, <1>3, IInvReceiveResponse
<1>4. CASE \/ ReceiveSignal \/ ReceiveClose \/ Close \/ ServerClose
           \/ \E p \in Ports, h \in Handlers \cup {NoHandler} : SetSignalHandler(p, h)
           \/ \E m \in serverInbox, kind \in ResponseKinds : ServerRespond(m, kind)
           \/ \E p \in Ports : ServerSignal(p)
           \/ \E f \in responded : ServerDuplicate(f)
           \/ UNCHANGED vars
    <2>1. UNCHANGED <<requestId, requestPromises, callState, callId>>
        BY <1>4 DEF ReceiveSignal, ReceiveClose, Close, ServerClose, SetSignalHandler,
                    ServerRespond, ServerSignal, ServerDuplicate, vars,
                    clientVars, callerVars, serverVars
    <2> QED
        BY <1>0, <2>1, IInvFrame
<1> QED
    BY <1>1, <1>2, <1>3, <1>4 DEF Next

(***************************************************************************)
(* The promise table is exact in every reachable state, whatever the       *)
(* number of callers and the bound on ids: call() never overwrites the     *)
(* promise of a caller still waiting, and a settled call leaves no entry.  *)
(***************************************************************************)
THEOREM PromiseTableExactInvariant == Spec => []PromiseTableExact
<1>1. Spec => []IInv
    BY IInvInit, IInvStep, PTL DEF Spec
<1> QED
    BY <1>1, PTL DEF IInv

-----------------------------------------------------------------------------
(***************************************************************************)
(* Correlation.  An answer resolves its caller with the request that       *)
(* caller sent because every request, response and duplicate in flight     *)
(* under a waiting caller's id carries that caller's request; that holds   *)
(* because the ids in flight are all below the counter, so the id call()   *)
(* registers under is not yet used by any frame.                           *)
(***************************************************************************)
\* A response frame in flight under id f.id was answered to the request sent
\* under that id, and that id was handed out already.
GoodFrame(f) ==
    f.type = "response" =>
        /\ f.id < requestId
        /\ \A c \in Callers : callState[c] = "pending" /\ callId[c] = f.id => f.val = callReq[c]

\* The same for a request the server holds.
GoodMsg(m) ==
    /\ m.id < requestId
    /\ \A c \in Callers : callState[c] = "pending" /\ callId[c] = m.id => m.req = callReq[c]

InFlightGood ==
    /\ \A m \in serverInbox : GoodMsg(m)
    /\ \A f \in responded : GoodFrame(f)
    /\ \A i \in 1 .. Len(toClient) : GoodFrame(toClient[i])

CInv == IInv /\ InFlightGood /\ Correlation


LEMMA CInvInit == Init => CInv
BY IInvInit DEF Init, CInv, InFlightGood, Correlation

\* Steps that hand out no id and re-register no caller keep every frame good.
LEMMA GoodStable ==
    ASSUME NEW f, NEW m,
           requestId' = requestId, callId' = callId, callReq' = callReq,
           \A c \in Callers : callState'[c] = "pending" => callState[c] = "pending"
    PROVE  /\ GoodFrame(f) => GoodFrame(f)'
           /\ GoodMsg(m) => GoodMsg(m)'
BY DEF GoodFrame, GoodMsg

\* call() keeps every frame good: the id it registers under is above them all.
LEMMA GoodCall ==
    ASSUME TypeOK, PendingBelow, NEW c \in Callers, NEW r \in Requests, Call(c, r)
    PROVE  /\ \A f \in Frames : GoodFrame(f) => GoodFrame(f)'
           /\ \A m \in [id : Ids, req : Requests] : GoodMsg(m) => GoodMsg(m)'
<1>1. \A f \in ResponseFrames : GoodFrame(f) => GoodFrame(f)'
    BY DEF GoodFrame, Call, TypeOK, PendingBelow, Ids, ResponseFrames
<1>2. \A f \in SignalFrames \cup CloseFrames : GoodFrame(f)'
    BY DEF GoodFrame, SignalFrames, CloseFrames
<1>3. \A m \in [id : Ids, req : Requests] : GoodMsg(m) => GoodMsg(m)'
    BY DEF GoodMsg, Call, TypeOK, PendingBelow, Ids
<1> QED
    BY <1>1, <1>2, <1>3 DEF Frames

LEMMA CInvCall ==
    ASSUME CInv, NEW c \in Callers, NEW r \in Requests, Call(c, r)
    PROVE  InFlightGood' /\ Correlation'
<1> USE DEF CInv, IInv
<1>1. \A f \in Frames : GoodFrame(f) => GoodFrame(f)'
    BY GoodCall
<1>2. \A m \in [id : Ids, req : Requests] : GoodMsg(m) => GoodMsg(m)'
    BY GoodCall
<1>3. \A m \in serverInbox' \ serverInbox : GoodMsg(m)'
    BY DEF GoodMsg, Call, TypeOK, PendingBelow
<1>4. \A m \in serverInbox' : GoodMsg(m)'
    BY <1>2, <1>3 DEF Call, InFlightGood, TypeOK
<1>5. \A f \in responded' : GoodFrame(f)'
    BY <1>1 DEF Call, InFlightGood, TypeOK, Frames
<1>6. (\A i \in 1 .. Len(toClient) : GoodFrame(toClient[i]))'
    BY <1>1 DEF Call, InFlightGood, TypeOK
<1>7. Correlation'
    BY DEF Call, Correlation, TypeOK
<1> QED
    BY <1>4, <1>5, <1>6, <1>7 DEF InFlightGood

LEMMA CInvCallEncodeFails ==
    ASSUME CInv, NEW c \in Callers, NEW r \in Requests, CallEncodeFails(c, r)
    PROVE  InFlightGood' /\ Correlation'
<1> USE DEF CInv, IInv
<1>1. \A f, m : /\ GoodFrame(f) => GoodFrame(f)'
                /\ GoodMsg(m) => GoodMsg(m)'
    BY DEF GoodFrame, GoodMsg, CallEncodeFails, TypeOK
<1>2. InFlightGood'
    BY <1>1 DEF InFlightGood, CallEncodeFails, serverVars
<1>3. Correlation'
    BY DEF CallEncodeFails, Correlation, TypeOK
<1> QED
    BY <1>2, <1>3

\* The listener consumes the head frame; what is left was in flight before.
LEMMA TailGood ==
    ASSUME TypeOK, toClient # << >>, toClient' = Tail(toClient),
           \A i \in 1 .. Len(toClient) : GoodFrame(toClient[i]),
           \A f : GoodFrame(f) => GoodFrame(f)'
    PROVE  (\A i \in 1 .. Len(toClient) : GoodFrame(toClient[i]))'
<1>1. /\ Len(toClient') = Len(toClient) - 1
      /\ \A i \in 1 .. Len(toClient') : toClient'[i] = toClient[i + 1]
    BY HeadTailProperties DEF TypeOK
<1> QED
    BY <1>1 DEF TypeOK

\* The server appends a good frame to a sequence of good frames.
LEMMA AppendGood ==
    ASSUME TypeOK, NEW g \in Frames, toClient' = Append(toClient, g),
           \A i \in 1 .. Len(toClient) : GoodFrame(toClient[i]),
           \A f : GoodFrame(f) => GoodFrame(f)',
           GoodFrame(g)'
    PROVE  (\A i \in 1 .. Len(toClient) : GoodFrame(toClient[i]))'
<1>1. /\ Len(toClient') = Len(toClient) + 1
      /\ \A i \in 1 .. Len(toClient) : toClient'[i] = toClient[i]
      /\ toClient'[Len(toClient) + 1] = g
    BY AppendProperties DEF TypeOK
<1> QED
    BY <1>1 DEF TypeOK

LEMMA CInvReceiveResponse ==
    ASSUME CInv, ReceiveResponse
    PROVE  InFlightGood' /\ Correlation'
<1> USE DEF CInv, IInv
<1> DEFINE f == Head(toClient)
           c == requestPromises[f.id]
<1>1. f \in ResponseFrames /\ f = toClient[1] /\ Len(toClient) >= 1
    BY DEF ReceiveResponse, TypeOK, Frames, ResponseFrames, SignalFrames, CloseFrames
<1>2. GoodFrame(f)
    BY <1>1 DEF InFlightGood
<1>3. /\ UNCHANGED <<requestId, callId, callReq, serverInbox, responded>>
      /\ \A d \in Callers : callState'[d] = "pending" => callState[d] = "pending"
    BY DEF ReceiveResponse, Settle, TypeOK
<1>4. \A g, m : /\ GoodFrame(g) => GoodFrame(g)'
                /\ GoodMsg(m) => GoodMsg(m)'
    BY <1>3, GoodStable
<1>5. InFlightGood'
    BY <1>4, TailGood DEF InFlightGood, ReceiveResponse
<1>6. Correlation'
    <2>1. CASE c = NoPromise \/ f.kind = "malformed"
        BY <2>1 DEF ReceiveResponse, Correlation
    <2>2. CASE c # NoPromise /\ f.kind # "malformed"
        <3>1. c \in Callers
            BY <1>1, <2>2 DEF TypeOK, ResponseFrames, Ids
        <3>2. Settle(c, f.id, IF f.kind = "ok" THEN "resolved" ELSE "rejected", f.val)
            BY <2>2 DEF ReceiveResponse
        <3>3. CASE callState[c] = "pending" /\ callId[c] = f.id
            <4>1. f.val = callReq[c]
                BY <1>1, <1>2, <3>1, <3>3 DEF GoodFrame, ResponseFrames
            <4> QED
                BY <1>3, <3>1, <3>2, <3>3, <4>1 DEF Settle, Correlation, TypeOK
        <3>4. CASE ~(callState[c] = "pending" /\ callId[c] = f.id)
            BY <1>3, <3>2, <3>4 DEF Settle, Correlation
        <3> QED
            BY <3>3, <3>4
    <2> QED
        BY <2>1, <2>2
<1> QED
    BY <1>5, <1>6

\* The other frames the listener consumes: a signal or the close frame.
LEMMA CInvReceiveOther ==
    ASSUME CInv, ReceiveSignal \/ ReceiveClose
    PROVE  InFlightGood' /\ Correlation'
<1> USE DEF CInv, IInv
<1>1. /\ toClient # << >>
      /\ toClient' = Tail(toClient)
      /\ UNCHANGED <<requestId, callState, callId, callReq, callResult, serverInbox, responded>>
    BY DEF ReceiveSignal, ReceiveClose, clientVars, callerVars
<1>2. \A g, m : /\ GoodFrame(g) => GoodFrame(g)'
                /\ GoodMsg(m) => GoodMsg(m)'
    BY <1>1, GoodStable
<1> QED
    BY <1>1, <1>2, TailGood DEF InFlightGood, Correlation

\* The server's steps: each frame it appends is good.
LEMMA CInvServer ==
    ASSUME CInv,
           \/ \E m \in serverInbox, kind \in ResponseKinds : ServerRespond(m, kind)
           \/ \E p \in Ports : ServerSignal(p)
           \/ \E f \in responded : ServerDuplicate(f)
           \/ ServerClose
    PROVE  InFlightGood' /\ Correlation'
<1> USE DEF CInv, IInv
<1>1. UNCHANGED <<requestId, callState, callId, callReq, callResult>>
    BY DEF ServerRespond, ServerSignal, ServerDuplicate, ServerClose, clientVars, callerVars
<1>2. \A g, m : /\ GoodFrame(g) => GoodFrame(g)'
                /\ GoodMsg(m) => GoodMsg(m)'
    BY <1>1, GoodStable
<1>3. Correlation'
    BY <1>1 DEF Correlation
<1>4. CASE \E m \in serverInbox, kind \in ResponseKinds : ServerRespond(m, kind)
    <2>1. PICK m \in serverInbox, kind \in ResponseKinds : ServerRespond(m, kind)
        BY <1>4
    <2> DEFINE g == [type |-> "response", id |-> m.id, kind |-> kind, val |-> m.req]
    <2>2. /\ toClient' = Append(toClient, g)
          /\ responded' = responded \cup {g}
          /\ serverInbox' = serverInbox \ {m}
        BY <2>1 DEF ServerRespond, ServerSend
    <2>3. g \in Frames
        BY <2>1 DEF TypeOK, Frames, ResponseFrames, ResponseKinds
    <2>4. GoodFrame(g)'
        BY <1>1, <2>1 DEF InFlightGood, GoodMsg, GoodFrame
    <2> QED
        BY <1>2, <1>3, <2>2, <2>3, <2>4, AppendGood DEF InFlightGood
<1>5. CASE \E p \in Ports : ServerSignal(p)
    <2>1. PICK p \in Ports : ServerSignal(p)
        BY <1>5
    <2>2. /\ toClient' = Append(toClient, [type |-> "signal", port |-> p])
          /\ UNCHANGED <<serverInbox, responded>>
        BY <2>1 DEF ServerSignal, ServerSend
    <2>3. [type |-> "signal", port |-> p] \in Frames
        BY DEF Frames, SignalFrames
    <2>4. GoodFrame([type |-> "signal", port |-> p])'
        BY DEF GoodFrame
    <2> QED
        BY <1>2, <1>3, <2>2, <2>3, <2>4, AppendGood DEF InFlightGood
<1>6. CASE \E f \in responded : ServerDuplicate(f)
    <2>1. PICK f \in responded : ServerDuplicate(f)
        BY <1>6
    <2>2. /\ toClient' = Append(toClient, f)
          /\ UNCHANGED <<serverInbox, responded>>
        BY <2>1 DEF ServerDuplicate, ServerSend
    <2>3. f \in Frames
        BY DEF TypeOK, Frames
    <2>4. GoodFrame(f)'
        BY <1>2 DEF InFlightGood
    <2> QED
        BY <1>2, <1>3, <2>2, <2>3, <2>4, AppendGood DEF InFlightGood
<1>7. CASE ServerClose
    <2>1. /\ toClient' = Append(toClient, [type |-> "close"])
          /\ serverInbox' = {}
          /\ UNCHANGED responded
        BY <1>7 DEF ServerClose
    <2>2. [type |-> "close"] \in Frames
        BY DEF Frames, CloseFrames
    <2>3. GoodFrame([type |-> "close"])'
        BY DEF GoodFrame
    <2> QED
        BY <1>2, <1>3, <2>1, <2>2, <2>3, AppendGood DEF InFlightGood
<1> QED
    BY <1>4, <1>5, <1>6, <1>7

LEMMA CInvStep == CInv /\ [Next]_vars => CInv'
<1> SUFFICES ASSUME CInv, [Next]_vars PROVE CInv'
    OBVIOUS
<1>0. IInv'
    BY IInvStep DEF CInv
<1>1. CASE \E c \in Callers, r \in Requests : Call(c, r)
    BY <1>1, <1>0, CInvCall DEF CInv
<1>2. CASE \E c \in Callers, r \in Requests : CallEncodeFails(c, r)
    BY <1>2, <1>0, CInvCallEncodeFails DEF CInv
<1>3. CASE ReceiveResponse
    BY <1>3, <1>0, CInvReceiveResponse DEF CInv
<1>4. CASE ReceiveSignal \/ ReceiveClose
    BY <1>4, <1>0, CInvReceiveOther DEF CInv
<1>5. CASE \/ \E m \in serverInbox, kind \in ResponseKinds : ServerRespond(m, kind)
           \/ \E p \in Ports : ServerSignal(p)
           \/ \E f \in responded : ServerDuplicate(f)
           \/ ServerClose
    BY <1>5, <1>0, CInvServer DEF CInv
<1>6. CASE \/ \E p \in Ports, h \in Handlers \cup {NoHandler} : SetSignalHandler(p, h)
           \/ Close
           \/ UNCHANGED vars
    <2>1. UNCHANGED <<requestId, callState, callId, callReq, callResult,
                      serverInbox, toClient, responded>>
        BY <1>6 DEF SetSignalHandler, Close, vars, clientVars, callerVars, serverVars
    <2> QED
        BY <1>0, <2>1 DEF CInv, InFlightGood, GoodFrame, GoodMsg, Correlation
<1> QED
    BY <1>0, <1>1, <1>2, <1>3, <1>4, <1>5, <1>6 DEF Next, CInv

(***************************************************************************)
(* Id-based correlation holds in every reachable state, for every number   *)
(* of callers and every bound on ids: whatever the order of the answers    *)
(* and whatever duplicates the server sends, a resolved call() resolved    *)
(* with the answer to its own request.                                     *)
(***************************************************************************)
THEOREM CorrelationInvariant == Spec => []Correlation
<1>1. Spec => []CInv
    BY CInvInit, CInvStep, PTL DEF Spec
<1> QED
    BY <1>1, PTL DEF CInv

(***************************************************************************)
(* The client implements the abstract call (RpcAbstract): call() is an     *)
(* Invoke, a failed encoding a Throw, a settling answer a Resolve with the  *)
(* caller's own request or a Reject, and every other step leaves the       *)
(* callers alone.                                                          *)
(***************************************************************************)
LEMMA RefineStep == CInv /\ [Next]_vars => [Rpc!Next]_Rpc!absVars
<1> SUFFICES ASSUME CInv, [Next]_vars PROVE [Rpc!Next]_Rpc!absVars
    OBVIOUS
<1> USE DEF CInv, IInv
<1>1. CASE \E c \in Callers, r \in Requests : Call(c, r)
    BY <1>1 DEF Call, Rpc!Next, Rpc!Invoke, TypeOK
<1>2. CASE \E c \in Callers, r \in Requests : CallEncodeFails(c, r)
    BY <1>2 DEF CallEncodeFails, Rpc!Next, Rpc!Throw, TypeOK
<1>3. CASE ReceiveResponse
    <2> DEFINE f == Head(toClient)
               c == requestPromises[f.id]
    <2>1. f \in ResponseFrames /\ f = toClient[1] /\ Len(toClient) >= 1
        <3>1. toClient \in Seq(Frames) /\ toClient # <<>> /\ f.type = "response"
            BY <1>3 DEF ReceiveResponse, TypeOK
        <3>2. f \in Frames /\ f = toClient[1] /\ Len(toClient) >= 1
            BY <3>1, HeadTailProperties, EmptySeq, LenProperties
        <3> QED
            BY <3>1, <3>2 DEF Frames, ResponseFrames, SignalFrames, CloseFrames
    <2>2. UNCHANGED callReq
        BY <1>3 DEF ReceiveResponse
    <2>3. CASE c = NoPromise \/ f.kind = "malformed"
        BY <1>3, <2>3 DEF ReceiveResponse, Rpc!absVars
    <2>4. CASE c # NoPromise /\ f.kind # "malformed"
        <3>1. c \in Callers
            BY <2>1, <2>4 DEF TypeOK, ResponseFrames, Ids
        <3>2. Settle(c, f.id, IF f.kind = "ok" THEN "resolved" ELSE "rejected", f.val)
            BY <1>3, <2>4 DEF ReceiveResponse
        <3>3. CASE callState[c] = "pending" /\ callId[c] = f.id /\ f.kind = "ok"
            <4>1. f.val = callReq[c]
                BY <2>1, <3>1, <3>3 DEF InFlightGood, GoodFrame, ResponseFrames
            <4> QED
                BY <2>2, <3>1, <3>2, <3>3, <4>1 DEF Settle, Rpc!Next, Rpc!Resolve
        <3>4. CASE callState[c] = "pending" /\ callId[c] = f.id /\ f.kind # "ok"
            BY <2>2, <3>1, <3>2, <3>4 DEF Settle, Rpc!Next, Rpc!Reject
        <3>5. CASE ~(callState[c] = "pending" /\ callId[c] = f.id)
            BY <2>2, <3>2, <3>5 DEF Settle, Rpc!absVars
        <3> QED
            BY <3>3, <3>4, <3>5
    <2> QED
        BY <2>3, <2>4
<1>4. CASE ~(\E c \in Callers, r \in Requests : Call(c, r) \/ CallEncodeFails(c, r))
           /\ ~ReceiveResponse
    <2>1. UNCHANGED <<callState, callReq, callResult>>
        BY <1>4 DEF Next, ReceiveSignal, ReceiveClose, SetSignalHandler, Close,
                    ServerRespond, ServerSignal, ServerDuplicate, ServerClose,
                    vars, clientVars, callerVars, serverVars
    <2> QED
        BY <2>1 DEF Rpc!absVars
<1> QED
    BY <1>1, <1>2, <1>3, <1>4

THEOREM RefinesRpc == Spec => ImplementsRpc
<1>1. Spec => []CInv
    BY CInvInit, CInvStep, PTL DEF Spec
<1>2. Init => Rpc!Init
    BY DEF Init, Rpc!Init
<1> QED
    BY <1>1, <1>2, RefineStep, PTL DEF Spec, ImplementsRpc, Rpc!Spec

=============================================================================

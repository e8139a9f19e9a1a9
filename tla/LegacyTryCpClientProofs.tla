----------------------- MODULE LegacyTryCpClientProofs -----------------------
(***************************************************************************)
(* Proof that in the legacy client a pending call keeps its entry in       *)
(* requestPromises until the server answers it, for every number of        *)
(* callers and every bound.  PendingRegistered is not inductive: a call    *)
(* writes the entry at requestId, and the listener deletes the entry of    *)
(* the frame it reads, so the proof needs that every id the server still   *)
(* holds is below requestId, and that no frame in flight or kept for a     *)
(* duplicate carries an id the server still holds.  A signal frame's       *)
(* missing id (NoId) is no id at all.                                       *)
(***************************************************************************)
EXTENDS LegacyTryCpClient, SequenceTheorems, TLAPS

TypeOK ==
    /\ requestId \in 0 .. MaxRequests
    /\ requestPromises \in [Ids -> Callers \cup {NoPromise}]
    /\ callState \in [Callers -> {"idle", "pending", "resolved", "rejected"}]
    /\ callId \in [Callers -> Ids]
    /\ serverInbox \subseteq Ids
    /\ toClient \in Seq(Frames)
    /\ responded \subseteq Frames
    /\ crashed \in BOOLEAN

\* The server holds only ids already handed out, and a pending call's id is one.
InboxIssued ==
    /\ \A k \in serverInbox : k < requestId
    /\ \A c \in Callers : callState[c] = "pending" => callId[c] < requestId

\* A frame in flight is a response to an issued id the server no longer
\* holds, or a signal, which has no id.
FrameOk(f, inbox, rid) ==
    /\ f.id \notin inbox
    /\ f.id < rid \/ (f.id = NoId /\ f.kind = "signal")

\* A frame the server sent, or may send again, is not for an id it still holds.
FramesAnswered ==
    /\ \A f \in responded : f.id \notin serverInbox /\ f.id < requestId
    /\ \A i \in 1 .. Len(toClient) :
           FrameOk(toClient[i], serverInbox, requestId)

LInv == TypeOK /\ InboxIssued /\ FramesAnswered /\ PendingRegistered

USE LegacyAssumption DEF Ids, NoId, Frames, Kinds

LEMMA LInvInit == Init => LInv
BY DEF Init, LInv, TypeOK, InboxIssued, FramesAnswered, PendingRegistered

\* A call registers the caller at requestId, which no pending caller, id
\* the server holds, or frame uses.
LEMMA LInvCall ==
    ASSUME LInv, NEW c \in Callers, Call(c) PROVE LInv'
<1>1. requestId \in Ids /\ requestId' = requestId + 1 BY DEF Call, LInv, TypeOK
<1>2. TypeOK' BY <1>1 DEF Call, LInv, TypeOK
<1>3. InboxIssued' BY <1>1 DEF Call, LInv, TypeOK, InboxIssued
<1>4. FramesAnswered'
  <2>1. UNCHANGED <<toClient, responded>> /\ serverInbox' = serverInbox \cup {requestId}
        BY DEF Call
  <2>2. \A f \in responded : f.id \notin serverInbox' /\ f.id < requestId'
        BY <1>1, <2>1 DEF LInv, TypeOK, FramesAnswered
  <2>3. \A i \in 1 .. Len(toClient') : FrameOk(toClient'[i], serverInbox', requestId')
    <3> SUFFICES ASSUME NEW i \in 1 .. Len(toClient)
                 PROVE  FrameOk(toClient[i], serverInbox', requestId')
        BY <2>1
    <3>1. FrameOk(toClient[i], serverInbox, requestId) BY DEF LInv, FramesAnswered
    <3>2. toClient[i] \in Frames BY ElementOfSeq DEF LInv, TypeOK
    <3> QED BY <1>1, <2>1, <3>1, <3>2 DEF FrameOk
  <2> QED BY <2>1, <2>2, <2>3 DEF FramesAnswered
<1>5. PendingRegistered' BY <1>1 DEF Call, LInv, TypeOK, InboxIssued, PendingRegistered
<1> QED BY <1>2, <1>3, <1>4, <1>5 DEF LInv

\* A failed encode overwrites the entry at requestId, which no pending call holds.
LEMMA LInvCallEncodeFails ==
    ASSUME LInv, NEW c \in Callers, CallEncodeFails(c) PROVE LInv'
<1>1. requestId \in Ids BY DEF CallEncodeFails, LInv, TypeOK
<1>2. TypeOK' BY <1>1 DEF CallEncodeFails, LInv, TypeOK
<1>3. InboxIssued' BY DEF CallEncodeFails, LInv, InboxIssued
<1>4. FramesAnswered' BY DEF CallEncodeFails, LInv, FramesAnswered, FrameOk
<1>5. PendingRegistered' BY <1>1 DEF CallEncodeFails, LInv, TypeOK, InboxIssued, PendingRegistered
<1> QED BY <1>2, <1>3, <1>4, <1>5 DEF LInv

\* What the tail of the frame queue keeps.
LEMMA TailFrames ==
    ASSUME LInv, toClient # <<>>, toClient' = Tail(toClient),
           UNCHANGED <<requestId, serverInbox, responded>>
    PROVE  /\ toClient' \in Seq(Frames)
           /\ \A i \in 1 .. Len(toClient') : FrameOk(toClient'[i], serverInbox, requestId)
           /\ FrameOk(Head(toClient), serverInbox, requestId) /\ Head(toClient) \in Frames
<1>1. /\ toClient \in Seq(Frames)
      /\ \A i \in 1 .. Len(toClient) : FrameOk(toClient[i], serverInbox, requestId)
      BY DEF LInv, TypeOK, FramesAnswered
<1>2. /\ Head(toClient) \in Frames /\ Tail(toClient) \in Seq(Frames)
      /\ Len(Tail(toClient)) = Len(toClient) - 1
      /\ \A i \in 1 .. Len(Tail(toClient)) : Tail(toClient)[i] = toClient[i + 1]
      BY <1>1, HeadTailProperties
<1>3. Head(toClient) = toClient[1] /\ Len(toClient) \in Nat /\ Len(toClient) # 0
      BY <1>1, EmptySeq, LenProperties
<1> QED BY <1>1, <1>2, <1>3

\* The listener reads the head frame: it crashes, or deletes the entry of an
\* id the server no longer holds and settles at most that entry's caller.
LEMMA LInvReceive ==
    ASSUME LInv, ReceiveResponse PROVE LInv'
<1> DEFINE f == Head(toClient)
<1>1. UNCHANGED <<requestId, callId, serverInbox, responded>> /\ toClient # <<>>
      /\ toClient' = Tail(toClient)
      BY DEF ReceiveResponse
<1>2. /\ toClient' \in Seq(Frames)
      /\ \A i \in 1 .. Len(toClient') : FrameOk(toClient'[i], serverInbox, requestId)
      /\ FrameOk(f, serverInbox, requestId) /\ f \in Frames
      BY <1>1, TailFrames
<1>3. FramesAnswered' BY <1>1, <1>2 DEF LInv, FramesAnswered, FrameOk
<1>4. CASE f.kind = "signal" \/ requestPromises[f.id] = NoPromise
  <2>1. crashed' = TRUE /\ UNCHANGED <<requestPromises, callState>>
        BY <1>4 DEF ReceiveResponse
  <2> QED BY <1>1, <1>2, <1>3, <2>1 DEF LInv, TypeOK, InboxIssued, PendingRegistered
<1>5. CASE ~(f.kind = "signal" \/ requestPromises[f.id] = NoPromise)
  <2> DEFINE x == requestPromises[f.id]
  <2>1. f.id \in Ids /\ f.id \notin serverInbox BY <1>2, <1>5 DEF FrameOk, LInv, TypeOK
  <2>2. x \in Callers BY <1>5, <2>1 DEF LInv, TypeOK
  <2>3. /\ requestPromises' = [requestPromises EXCEPT ![f.id] = NoPromise]
        /\ UNCHANGED crashed
        /\ \/ \E st \in {"resolved", "rejected"} : Settle(x, f.id, st)
           \/ UNCHANGED callState
        BY <1>5 DEF ReceiveResponse
  <2>4. /\ callState' \in [Callers -> {"idle", "pending", "resolved", "rejected"}]
        /\ \A c \in Callers : callState'[c] = "pending" => callState[c] = "pending"
        BY <2>2, <2>3 DEF Settle, LInv, TypeOK
  <2>5. TypeOK' BY <1>1, <1>2, <2>1, <2>3, <2>4 DEF LInv, TypeOK
  <2>6. InboxIssued' BY <1>1, <2>4 DEF LInv, InboxIssued
  <2>7. PendingRegistered' BY <1>1, <2>1, <2>3, <2>4 DEF LInv, PendingRegistered
  <2> QED BY <1>3, <2>5, <2>6, <2>7 DEF LInv
<1> QED BY <1>4, <1>5

\* Appending a frame that is in order keeps every frame in order.
LEMMA AppendFrames ==
    ASSUME LInv, NEW g \in Frames, Len(toClient) < MaxFrames, toClient' = Append(toClient, g),
           FrameOk(g, serverInbox', requestId'), UNCHANGED requestId,
           serverInbox' \subseteq serverInbox
    PROVE  /\ toClient' \in Seq(Frames)
           /\ \A i \in 1 .. Len(toClient') : FrameOk(toClient'[i], serverInbox', requestId')
<1>1. /\ toClient \in Seq(Frames)
      /\ \A i \in 1 .. Len(toClient) : FrameOk(toClient[i], serverInbox, requestId)
      BY DEF LInv, TypeOK, FramesAnswered
<1>2. /\ Append(toClient, g) \in Seq(Frames)
      /\ Len(Append(toClient, g)) = Len(toClient) + 1
      /\ \A i \in 1 .. Len(toClient) : Append(toClient, g)[i] = toClient[i]
      /\ Append(toClient, g)[Len(toClient) + 1] = g
      BY <1>1, AppendProperties
<1>3. \A i \in 1 .. Len(toClient) : FrameOk(toClient[i], serverInbox', requestId')
      BY <1>1 DEF FrameOk
<1> QED BY <1>2, <1>3

LEMMA LInvServer ==
    ASSUME LInv,
           \/ \E k \in Ids : ServerRespond(k)
           \/ \E f \in responded : ServerDuplicate(f)
           \/ ServerSignal
    PROVE  LInv'
<1>1. CASE \E k \in Ids : ServerRespond(k)
  <2>1. PICK k \in Ids : ServerRespond(k) BY <1>1
  <2>2. PICK kind \in {"ok", "err", "malformed"} :
          /\ Emit([id |-> k, kind |-> kind])
          /\ responded' = responded \cup {[id |-> k, kind |-> kind]}
        BY <2>1 DEF ServerRespond
  <2>3. k \in serverInbox /\ serverInbox' = serverInbox \ {k} /\ k < requestId
        /\ UNCHANGED <<requestId, requestPromises, callState, callId, crashed>>
        BY <2>1 DEF ServerRespond, LInv, InboxIssued
  <2> DEFINE g == [id |-> k, kind |-> kind]
  <2>4. g \in Frames /\ FrameOk(g, serverInbox', requestId') BY <2>3 DEF FrameOk
  <2>5. /\ toClient' \in Seq(Frames)
        /\ \A i \in 1 .. Len(toClient') : FrameOk(toClient'[i], serverInbox', requestId')
        BY <2>2, <2>3, <2>4, AppendFrames DEF Emit
  <2>6. TypeOK' BY <2>2, <2>3, <2>4, <2>5 DEF LInv, TypeOK
  <2>7. InboxIssued' BY <2>3 DEF LInv, InboxIssued
  <2>8. FramesAnswered' BY <2>2, <2>3, <2>4, <2>5 DEF LInv, TypeOK, FramesAnswered, FrameOk
  <2>9. PendingRegistered' BY <2>3 DEF LInv, PendingRegistered
  <2> QED BY <2>6, <2>7, <2>8, <2>9 DEF LInv
<1>2. CASE \E f \in responded : ServerDuplicate(f)
  <2>1. PICK f \in responded : ServerDuplicate(f) BY <1>2
  <2>2. UNCHANGED <<requestId, requestPromises, callState, callId, serverInbox, responded, crashed>>
        BY <2>1 DEF ServerDuplicate
  <2>3. f \in Frames /\ FrameOk(f, serverInbox', requestId')
        BY <2>2 DEF LInv, TypeOK, FramesAnswered, FrameOk
  <2>4. /\ toClient' \in Seq(Frames)
        /\ \A i \in 1 .. Len(toClient') : FrameOk(toClient'[i], serverInbox', requestId')
        BY <2>1, <2>2, <2>3, AppendFrames DEF ServerDuplicate, Emit
  <2> QED BY <2>2, <2>4 DEF LInv, TypeOK, InboxIssued, FramesAnswered, PendingRegistered
<1>3. CASE ServerSignal
  <2>2. UNCHANGED <<requestId, requestPromises, callState, callId, serverInbox, responded, crashed>>
        BY <1>3 DEF ServerSignal
  <2>3. /\ [id |-> NoId, kind |-> "signal"] \in Frames
        /\ FrameOk([id |-> NoId, kind |-> "signal"], serverInbox', requestId')
        BY <2>2 DEF LInv, TypeOK, FrameOk
  <2>4. /\ toClient' \in Seq(Frames)
        /\ \A i \in 1 .. Len(toClient') : FrameOk(toClient'[i], serverInbox', requestId')
        BY <1>3, <2>2, <2>3, AppendFrames DEF ServerSignal, Emit
  <2> QED BY <2>2, <2>4 DEF LInv, TypeOK, InboxIssued, FramesAnswered, PendingRegistered
<1> QED BY <1>1, <1>2, <1>3

LEMMA LInvStep == LInv /\ [Next]_vars => LInv'
<1> SUFFICES ASSUME LInv, [Next]_vars PROVE LInv' OBVIOUS
<1>1. CASE UNCHANGED vars
      BY <1>1 DEF vars, LInv, TypeOK, InboxIssued, FramesAnswered, FrameOk, PendingRegistered
<1>2. CASE \E c \in Callers : Call(c) BY <1>2, LInvCall
<1>3. CASE \E c \in Callers : CallEncodeFails(c) BY <1>3, LInvCallEncodeFails
<1>4. CASE ReceiveResponse BY <1>4, LInvReceive
<1>5. CASE \/ \E k \in Ids : ServerRespond(k)
           \/ \E f \in responded : ServerDuplicate(f)
           \/ ServerSignal
      BY <1>5, LInvServer
<1> QED BY <1>1, <1>2, <1>3, <1>4, <1>5 DEF Next

(***************************************************************************)
(* For every number of callers and every bound: a pending call whose       *)
(* request the server still holds is registered under its id, so no later *)
(* call, failed encode or stray frame takes its entry (spec 8).            *)
(***************************************************************************)
THEOREM PendingRegisteredInvariant == Spec => []PendingRegistered
<1>1. Init => LInv BY LInvInit
<1>2. LInv /\ [Next]_vars => LInv' BY LInvStep
<1>3. LInv => PendingRegistered BY DEF LInv
<1> QED BY <1>1, <1>2, <1>3, PTL DEF Spec

=============================================================================

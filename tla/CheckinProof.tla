---------------------------- MODULE CheckinProof ----------------------------
(***************************************************************************)
(* What holds of the check-in protocol for any number of streams, updates, *)
(* configurations, restarts and reconnections: its types, that an          *)
(* application is served by one stream at a time, that an index stands for *)
(* one configuration as long as no forced reload takes it back, and that   *)
(* the protocol implements Instructions.                                   *)
(***************************************************************************)
EXTENDS Checkin, SequenceTheorems, TLAPS

LEMMA AppendTail ==
  ASSUME NEW S
  PROVE  /\ \A q \in Seq(S), m \in S : Append(q, m) \in Seq(S)
         /\ \A q \in Seq(S) : q # <<>> => Head(q) \in S /\ Tail(q) \in Seq(S)
BY AppendProperties, HeadTailProperties

-----------------------------------------------------------------------------
(* Types.                                                                  *)

LEMMA InitTypes == Init => TypeOK
<1> SUFFICES ASSUME Init PROVE TypeOK  OBVIOUS
<1> USE DEF Init, WireInit, ServerInit, ClientInit
<1>1. WireTypeOK  BY DEF WireTypeOK
<1>2. HandlerTypeOK /\ SenderTypeOK /\ ReceiverTypeOK
  BY DEF HandlerTypeOK, SenderTypeOK, ReceiverTypeOK, MaybeMsg
<1>3. UpdateTypeOK  BY DEF UpdateTypeOK
<1>4. StateTypeOK
  <2>1. registered \in BOOLEAN /\ checkinConn \in BOOLEAN /\ wasConn \in BOOLEAN
    OBVIOUS
  <2>2. QED  BY <2>1, 1 \in Nat \ {0} DEF StateTypeOK
<1>5. ClientTypeOK  BY DEF ClientTypeOK, AnyConfig
<1>6. QED  BY <1>1, <1>2, <1>3, <1>4, <1>5 DEF TypeOK, ServerTypeOK

\* The reply to an observed state is an expected state.
LEMMA ReplyTypes ==
  ASSUME StateTypeOK, NEW m \in Observed
  PROVE  Reply(m) = None \/ Reply(m) \in Expected
BY DEF StateTypeOK, Reply, ExpectedMsg, Observed, Expected, AnyConfig

LEMMA HandOverTypes ==
  ASSUME SenderTypeOK, NEW m \in Expected, HandOver(m) \/ Try(m)
  PROVE  SenderTypeOK'
BY DEF SenderTypeOK, HandOver, Try, Parked, senderVars, MaybeMsg

LEMMA HandlerTypes ==
  ASSUME TypeOK, NEW s \in Stream, HandlerStep(s)
  PROVE  WireTypeOK' /\ ServerTypeOK'
<1> USE DEF TypeOK, ServerTypeOK
<1>1. CASE HandlerFirst(s)
  <2>1. WireTypeOK' /\ HandlerTypeOK'
    <3>1. Head(up[s]) \in Observed /\ Tail(up[s]) \in Seq(Observed)
      BY <1>1, AppendTail DEF HandlerFirst, WireTypeOK
    <3>2. CASE registered
      BY <1>1, <3>1, <3>2 DEF HandlerFirst, WireTypeOK, HandlerTypeOK, MaybeMsg
    <3>3. CASE ~registered
      BY <1>1, <3>1, <3>3 DEF HandlerFirst, WireTypeOK, HandlerTypeOK, Close
    <3>4. QED  BY <3>2, <3>3
  <2>2. QED
    BY <1>1, <2>1 DEF HandlerFirst, SenderTypeOK, ReceiverTypeOK, UpdateTypeOK,
       StateTypeOK, stateVars, statusVars, connVars, senderVars, recvVars,
       updateVars, stopVars
<1>2. CASE HandlerGiveUp(s)
  <2>1. WireTypeOK' /\ HandlerTypeOK'
    BY <1>2, EmptySeq DEF HandlerGiveUp, Refuse, Close, WireTypeOK, HandlerTypeOK
  <2>2. StateTypeOK'
    BY <1>2 DEF HandlerGiveUp, StateTypeOK, stateVars, statusVars, connVars, stopVars
  <2>3. QED
    BY <1>2, <2>1, <2>2 DEF HandlerGiveUp, SenderTypeOK, ReceiverTypeOK, UpdateTypeOK,
       senderVars, recvVars, updateVars
<1>3. CASE HandlerConnect(s)
  <2>1. WireTypeOK' /\ HandlerTypeOK' /\ SenderTypeOK'
    <3>1. CASE MayConnect
      <4>1. WireTypeOK' /\ HandlerTypeOK'
        BY <1>3, <3>1 DEF HandlerConnect, WireTypeOK, HandlerTypeOK
      <4>2. SenderTypeOK'
        BY <1>3, <3>1 DEF HandlerConnect, SenderTypeOK
      <4>3. QED  BY <4>1, <4>2
    <3>2. CASE ~MayConnect
      <4>1. WireTypeOK' /\ HandlerTypeOK'
        <5>1. WireTypeOK'
          BY <1>3, <3>2, EmptySeq DEF HandlerConnect, Refuse, Close, WireTypeOK
        <5>2. HandlerTypeOK'
          BY <1>3, <3>2 DEF HandlerConnect, HandlerTypeOK, MaybeMsg
        <5>3. QED  BY <5>1, <5>2
      <4>2. SenderTypeOK'
        BY <1>3, <3>2 DEF HandlerConnect, SenderTypeOK
      <4>3. QED  BY <4>1, <4>2
    <3>3. QED  BY <3>1, <3>2
  <2>2. /\ expectedConfigIdx' \in Nat \ {0} /\ spent' \in Nat
        /\ wanted' \subseteq (Nat \ {0}) \X (Config \cup {InitConfig})
    <3>1. hmsg[s].idx \in Nat
      BY <1>3 DEF HandlerConnect, HandlerTypeOK, Observed
    <3>2. CASE UNCHANGED <<expectedConfigIdx, wanted, spent>>
      BY <3>2 DEF StateTypeOK
    <3>3. CASE ForceReload(hmsg[s].idx) /\ hmsg[s].idx > 0
      <4>1. <<hmsg[s].idx + 1, expectedConfig>> \in (Nat \ {0}) \X (Config \cup {InitConfig})
        BY <3>1 DEF StateTypeOK
      <4>2. wanted' = wanted \cup {<<hmsg[s].idx + 1, expectedConfig>>}
        BY <3>3 DEF ForceReload
      <4>3. wanted' \subseteq (Nat \ {0}) \X (Config \cup {InitConfig})
        BY <4>1, <4>2 DEF StateTypeOK
      <4>4. expectedConfigIdx' \in Nat \ {0} /\ spent' \in Nat
        BY <3>1, <3>3 DEF ForceReload, StateTypeOK
      <4>5. QED  BY <4>3, <4>4
    <3>4. QED  BY <1>3, <3>2, <3>3 DEF HandlerConnect, ForceReload
  <2>3. QED
    BY <1>3, <2>1, <2>2 DEF HandlerConnect, ReceiverTypeOK, UpdateTypeOK, StateTypeOK,
       statusVars, recvVars, updateVars, stopVars
<1>4. CASE HandlerUpdate(s)
  <2>1. hmsg[s] \in Observed
    BY <1>4 DEF HandlerUpdate, HandlerTypeOK
  <2>2. Reply(hmsg[s]) = None \/ Reply(hmsg[s]) \in Expected
    BY <2>1, ReplyTypes
  <2>3. HandlerTypeOK' /\ ReceiverTypeOK'
    BY <1>4, <2>2 DEF HandlerUpdate, Satisfied, HandlerTypeOK, ReceiverTypeOK,
       MaybeMsg, recvVars
  <2>4. QED
    BY <1>4, <2>1, <2>3 DEF HandlerUpdate, SetObserved, Observed, WireTypeOK, SenderTypeOK,
       UpdateTypeOK, StateTypeOK, wireVars, stateVars, connVars, senderVars,
       updateVars, stopVars
<1>5. CASE HandlerOffer(s)
  <2>1. SenderTypeOK'
    BY <1>5, HandOverTypes DEF HandlerOffer, HandlerTypeOK
  <2>2. HandlerTypeOK' /\ ReceiverTypeOK'
    BY <1>5 DEF HandlerOffer, HandlerTypeOK, ReceiverTypeOK, MaybeMsg
  <2>3. QED
    BY <1>5, <2>1, <2>2 DEF HandlerOffer, WireTypeOK, UpdateTypeOK, StateTypeOK,
       wireVars, stateVars, statusVars, connVars, updateVars, stopVars
<1>6. CASE HandlerReturn(s)
  <2>1. WireTypeOK' /\ HandlerTypeOK'
    BY <1>6 DEF HandlerReturn, Close, WireTypeOK, HandlerTypeOK
  <2>2. StateTypeOK'
    BY <1>6 DEF HandlerReturn, StateTypeOK, stateVars, statusVars, stopVars
  <2>3. QED
    BY <1>6, <2>1, <2>2 DEF HandlerReturn, SenderTypeOK, ReceiverTypeOK, UpdateTypeOK,
       senderVars, recvVars, updateVars
<1>7. QED  BY <1>1, <1>2, <1>3, <1>4, <1>5, <1>6 DEF HandlerStep

LEMMA SenderTypes ==
  ASSUME TypeOK, NEW s \in Stream, SenderStep(s)
  PROVE  WireTypeOK' /\ ServerTypeOK'
<1> USE DEF TypeOK, ServerTypeOK
<1>1. WireTypeOK' /\ SenderTypeOK'
  <2>1. CASE SenderPark(s) \/ SenderQuit(s)
    BY <2>1 DEF SenderPark, SenderQuit, WireTypeOK, SenderTypeOK, wireVars
  <2>2. CASE SenderSend(s)
    <3>1. Append(down[s], smsg[s]) \in Seq(Expected)
      BY <2>2, AppendTail DEF SenderSend, WireTypeOK, SenderTypeOK
    <3>2. WireTypeOK'
      BY <2>2, <3>1 DEF SenderSend, SendDown, WireTypeOK, wireVars
    <3>3. SenderTypeOK'
      BY <2>2 DEF SenderSend, SenderTypeOK, MaybeMsg
    <3>4. QED  BY <3>2, <3>3
  <2>3. QED  BY <2>1, <2>2 DEF SenderStep
<1>2. UNCHANGED <<stateVars, statusVars, connVars, handlerVars, recvVars,
                  updateVars, stopVars, destroy>>
  BY DEF SenderStep, SenderPark, SenderQuit, SenderSend
<1>3. QED
  BY <1>1, <1>2 DEF HandlerTypeOK, ReceiverTypeOK, UpdateTypeOK, StateTypeOK, stateVars,
     statusVars, connVars, handlerVars, recvVars, updateVars, stopVars

LEMMA ReceiverTypes ==
  ASSUME TypeOK, NEW s \in Stream, ReceiverStep(s)
  PROVE  WireTypeOK' /\ ServerTypeOK'
<1> USE DEF TypeOK, ServerTypeOK
<1>1. CASE ReceiverRecv(s)
  <2>1. Head(up[s]) \in Observed /\ Tail(up[s]) \in Seq(Observed)
    BY <1>1, AppendTail DEF ReceiverRecv, WireTypeOK
  <2>2. Reply(Head(up[s])) = None \/ Reply(Head(up[s])) \in Expected
    BY <2>1, ReplyTypes
  <2>3. ReceiverTypeOK'
    BY <1>1, <2>2 DEF ReceiverRecv, Satisfied, ReceiverTypeOK, MaybeMsg
  <2>4. QED
    BY <1>1, <2>1, <2>3 DEF ReceiverRecv, SetObserved, Observed, WireTypeOK,
       HandlerTypeOK, SenderTypeOK, UpdateTypeOK, StateTypeOK, stateVars, connVars,
       handlerVars, senderVars, updateVars, stopVars
<1>2. CASE ReceiverTry(s)
  <2>1. SenderTypeOK'
    BY <1>2, HandOverTypes DEF ReceiverTry, ReceiverTypeOK
  <2>2. ReceiverTypeOK'
    BY <1>2 DEF ReceiverTry, ReceiverTypeOK, MaybeMsg
  <2>3. QED
    BY <1>2, <2>1, <2>2 DEF ReceiverTry, WireTypeOK, HandlerTypeOK, UpdateTypeOK,
       StateTypeOK, wireVars, stateVars, statusVars, connVars, handlerVars,
       updateVars, stopVars
<1>3. CASE ReceiverFail(s)
  BY <1>3, EmptySeq DEF ReceiverFail, WireTypeOK, HandlerTypeOK, SenderTypeOK,
     ReceiverTypeOK, UpdateTypeOK, StateTypeOK, stateVars, statusVars, connVars,
     handlerVars, senderVars, updateVars, stopVars
<1>4. QED  BY <1>1, <1>2, <1>3 DEF ReceiverStep

LEMMA UpdateTypes ==
  ASSUME TypeOK, NEW u \in Updater, UpdateStep(u)
  PROVE  WireTypeOK' /\ ServerTypeOK'
<1> USE DEF TypeOK, ServerTypeOK
<1>1. CASE UpdateRead(u)
  <2>1. UpdateTypeOK'
    <3>1. PICK cfg0 \in Config :
            IF expected = "stopping" \/ cfg0 = expectedConfig
              THEN update' = [update EXCEPT ![u] = "done"] /\ UNCHANGED umsg
              ELSE /\ update' = [update EXCEPT ![u] = "commit"]
                   /\ umsg' = [umsg EXCEPT ![u] = [state |-> expected, cfg |-> cfg0]]
      BY <1>1 DEF UpdateRead
    <3>2. [state |-> expected, cfg |-> cfg0] \in Draft
      BY DEF Draft, StateTypeOK
    <3>3. QED  BY <3>1, <3>2 DEF UpdateTypeOK
  <2>2. QED
    BY <1>1, <2>1 DEF UpdateRead, WireTypeOK, HandlerTypeOK, SenderTypeOK, ReceiverTypeOK,
       StateTypeOK, wireVars, stateVars, statusVars, connVars, handlerVars,
       senderVars, recvVars, stopVars
<1>2. CASE UpdateCommit(u)
  <2>1. umsg[u] \in Draft
    BY <1>2 DEF UpdateCommit, UpdateTypeOK
  <2>2. ExpectedMsg(umsg[u].state, NextIdx, umsg[u].cfg) \in Expected
    BY <2>1 DEF Draft, Expected, ExpectedMsg, AnyConfig, NextIdx, StateTypeOK
  <2>3. UpdateTypeOK'
    BY <1>2, <2>2 DEF UpdateCommit, UpdateTypeOK
  <2>4. wanted' \subseteq (Nat \ {0}) \X (Config \cup {InitConfig})
    <3>1. <<NextIdx, umsg[u].cfg>> \in (Nat \ {0}) \X (Config \cup {InitConfig})
      BY <2>1 DEF NextIdx, Draft, StateTypeOK
    <3>2. QED  BY <1>2, <3>1 DEF UpdateCommit, StateTypeOK
  <2>5. QED
    BY <1>2, <2>1, <2>3, <2>4 DEF UpdateCommit, NextIdx, Draft, WireTypeOK, HandlerTypeOK,
       SenderTypeOK, ReceiverTypeOK, StateTypeOK, wireVars, statusVars, connVars,
       handlerVars, senderVars, recvVars, stopVars
<1>3. CASE UpdateTry(u)
  <2>1. SenderTypeOK'
    BY <1>3, HandOverTypes DEF UpdateTry, UpdateTypeOK
  <2>2. UpdateTypeOK'
    BY <1>3 DEF UpdateTry, UpdateTypeOK
  <2>3. QED
    BY <1>3, <2>1, <2>2 DEF UpdateTry, WireTypeOK, HandlerTypeOK, ReceiverTypeOK,
       StateTypeOK, wireVars, stateVars, statusVars, connVars, handlerVars,
       recvVars, stopVars
<1>4. QED  BY <1>1, <1>2, <1>3 DEF UpdateStep

LEMMA StopTypes ==
  ASSUME TypeOK, Stop \/ Destroy
  PROVE  WireTypeOK' /\ ServerTypeOK'
<1> USE DEF TypeOK, ServerTypeOK
<1>1. SenderTypeOK'
  <2>1. CASE StopTry
    BY <2>1, HandOverTypes DEF StopTry, StateTypeOK
  <2>2. CASE UNCHANGED senderVars
    BY <2>2 DEF SenderTypeOK, senderVars
  <2>3. QED
    BY <2>1, <2>2 DEF Stop, Destroy, StopBegin, StopPoll, StopTimeOut, DestroyCall,
       DestroyStream, DestroyDelete
<1>2. StateTypeOK'
  <2>1. CASE StopBegin
    <3>1. stopMsg' \in Expected
      BY <2>1 DEF StopBegin, ExpectedMsg, Expected, AnyConfig, StateTypeOK
    <3>2. QED  BY <2>1, <3>1 DEF StopBegin, StateTypeOK, statusVars, connVars
  <2>2. CASE StopTry
    BY <2>2 DEF StopTry, StateTypeOK, stateVars, statusVars, connVars
  <2>3. CASE StopPoll \/ StopTimeOut
    BY <2>3 DEF StopPoll, StopTimeOut, CallDestroy, StateTypeOK, stateVars, statusVars, connVars
  <2>4. CASE Destroy
    BY <2>4 DEF Destroy, DestroyCall, DestroyStream, DestroyDelete, StateTypeOK, stateVars,
       statusVars, connVars, stopVars
  <2>5. QED  BY <2>1, <2>2, <2>3, <2>4 DEF Stop
<1>3. UNCHANGED <<wireVars, handlerVars, recvVars, updateVars>>
  BY DEF Stop, Destroy, StopBegin, StopTry, StopPoll, StopTimeOut, DestroyCall,
     DestroyStream, DestroyDelete
<1>4. QED
  BY <1>1, <1>2, <1>3 DEF WireTypeOK, HandlerTypeOK, ReceiverTypeOK, UpdateTypeOK, wireVars,
     handlerVars, recvVars, updateVars

LEMMA ClientTypes ==
  ASSUME TypeOK, ClientNext
  PROVE  WireTypeOK' /\ ClientTypeOK'
<1> USE DEF TypeOK, WireTypeOK, ClientTypeOK
<1>1. ASSUME NEW s \in Stream, Dial(s) PROVE WireTypeOK' /\ ClientTypeOK'
  BY <1>1, ConfigAssumption DEF Dial
<1>2. CASE LoopEnd
  BY <1>2 DEF LoopEnd, wireVars
<1>3. CASE ReceivingStep
  <2>1. CASE ClientRecv
    <3>1. Head(down[cstream]) \in Expected /\ Tail(down[cstream]) \in Seq(Expected)
      BY <2>1, AppendTail DEF ClientRecv
    <3>2. down' \in [Stream -> Seq(Expected)]
      BY <2>1, <3>1 DEF ClientRecv
    <3>3. cfgIdx' \in Nat /\ newCfg' \in AnyConfig /\ told' \in BOOLEAN
          /\ crecv' \in {"recv", "config"}
      BY <2>1, <3>1 DEF ClientRecv, Accept, Expected
    <3>4. QED  BY <2>1, <3>2, <3>3 DEF ClientRecv
  <2>2. CASE ConfigDone
    BY <2>2 DEF ConfigDone, wireVars
  <2>3. CASE ClientRecvFail
    BY <2>3, EmptySeq DEF ClientRecvFail
  <2>4. QED  BY <1>3, <2>1, <2>2, <2>3 DEF ReceivingStep
<1>4. CASE SendingStep
  <2>1. Current \in Observed
    BY DEF Current, Observed
  <2>2. CASE ClientSend
    <3>1. up' \in [Stream -> Seq(Observed)]
      BY <2>1, <2>2, AppendTail DEF ClientSend, SendUp
    <3>2. QED  BY <2>1, <2>2, <3>1 DEF ClientSend, SendUp
  <2>3. CASE ClientSendFails \/ ClientSendQuit
    BY <2>3 DEF ClientSendFails, ClientSendQuit, wireVars
  <2>4. QED  BY <1>4, <2>2, <2>3 DEF SendingStep
<1>5. CASE ClientStatus
  BY <1>5 DEF ClientStatus, wireVars
<1>6. CASE ClientExit
  BY <1>6, EmptySeq DEF ClientExit, Fresh, AnyConfig
<1>7. QED  BY <1>1, <1>2, <1>3, <1>4, <1>5, <1>6 DEF ClientNext, ClientRun

LEMMA NextTypes == TypeOK /\ [Next]_vars => TypeOK'
<1> SUFFICES ASSUME TypeOK, [Next]_vars PROVE TypeOK'
  OBVIOUS
<1>1. CASE ServerNext /\ UNCHANGED clientVars
  <2>1. WireTypeOK' /\ ServerTypeOK'
    BY <1>1, HandlerTypes, SenderTypes, ReceiverTypes, UpdateTypes, StopTypes DEF ServerNext
  <2>2. QED  BY <1>1, <2>1 DEF TypeOK, ClientTypeOK, clientVars
<1>2. CASE \/ ClientNext /\ UNCHANGED serverVars
           \/ Break
           \/ UNCHANGED vars
  <2>1. ServerTypeOK'
    BY <1>2 DEF Break, TypeOK, ServerTypeOK, HandlerTypeOK, SenderTypeOK, ReceiverTypeOK,
       UpdateTypeOK, StateTypeOK, serverVars, stateVars, statusVars, connVars, handlerVars,
       senderVars, recvVars, updateVars, stopVars, vars
  <2>2. CASE ClientNext
    BY <2>1, <2>2, ClientTypes DEF TypeOK
  <2>3. CASE \E s \in Stream : NetBreak(s) /\ UNCHANGED clientVars
    BY <2>1, <2>3 DEF TypeOK, NetBreak, Close, WireTypeOK, ClientTypeOK, clientVars
  <2>4. CASE UNCHANGED <<wireVars, clientVars>>
    BY <2>1, <2>4 DEF TypeOK, WireTypeOK, ClientTypeOK, wireVars, clientVars
  <2>5. QED  BY <1>2, <2>2, <2>3, <2>4 DEF vars, Break
<1>3. QED
  BY <1>1, <1>2 DEF Next

\* Every variable of the server, the client and the wire keeps its type.
THEOREM CheckinTypeCorrect == Spec => []TypeOK
BY InitTypes, NextTypes, PTL DEF Spec

-----------------------------------------------------------------------------
(* One stream.  A handler that serves holds checkinDone until Destroy      *)
(* takes it away, and Destroy lets no other handler connect.               *)

Live   == {"first", "offer", "serving"}
Active == {"loop", "select", "sending"}

ServingInv ==
  /\ \A s \in Stream : handler[s] \in Live => checkinDone = s \/ ~checkinConn
  /\ \A s \in Stream : sender[s] \in Active => handler[s] \in Live
  /\ \A s, t \in Stream : handler[s] \in Live /\ handler[t] \in Live => s = t
  /\ checkinDone # None => handler[checkinDone] \in Live

LEMMA ServingOneStream == TypeOK /\ ServingInv => OneStream
BY DEF ServingInv, OneStream, Live, Active

LEMMA HandOverServing ==
  ASSUME TypeOK, ServingInv, NEW m, HandOver(m) \/ Try(m)
  PROVE  \A s \in Stream : sender'[s] \in Active => sender[s] \in Active
BY DEF TypeOK, ServerTypeOK, SenderTypeOK, HandOver, Try, Parked, senderVars, Active

\* A handler that is as live as before, and senders that do not start.
LEMMA MovesOn ==
  ASSUME TypeOK, ServingInv, NEW s \in Stream, NEW h,
         handler' = [handler EXCEPT ![s] = h], h \in Live <=> handler[s] \in Live,
         UNCHANGED <<checkinConn, checkinDone>>,
         \A t \in Stream : sender'[t] \in Active => sender[t] \in Active
  PROVE  ServingInv'
<1>1. handler \in [Stream -> {"idle", "found", "first", "offer", "serving", "closed"}]
      /\ checkinDone \in Stream \cup {None}
  BY DEF TypeOK, ServerTypeOK, HandlerTypeOK, StateTypeOK
<1>2. \A t \in Stream : handler'[t] \in Live <=> handler[t] \in Live
  BY <1>1
<1>3. QED  BY <1>1, <1>2 DEF ServingInv

LEMMA NextServing ==
  ASSUME TypeOK, ServingInv, [Next]_vars
  PROVE  ServingInv'
<1> USE DEF TypeOK, ServerTypeOK, ServingInv
<1>1. ASSUME NEW s \in Stream, HandlerStep(s) PROVE ServingInv'
  <2> USE DEF HandlerTypeOK, SenderTypeOK, Live, Active
  <2>1. CASE HandlerFirst(s) \/ HandlerGiveUp(s)
    <3>1. UNCHANGED <<connVars, senderVars>>
      BY <2>1 DEF HandlerFirst, HandlerGiveUp
    <3>2. handler' = [handler EXCEPT ![s] = handler'[s]] /\ handler[s] = "idle"
          /\ handler'[s] \in {"found", "closed"}
      BY <2>1 DEF HandlerFirst, HandlerGiveUp
    <3>3. QED  BY <3>1, <3>2, MovesOn DEF connVars, senderVars
  <2>2. CASE HandlerConnect(s)
    <3>1. CASE MayConnect
      <4>1. \A t \in Stream : handler[t] \notin Live
        BY <3>1, ConfigAssumption DEF MayConnect
      <4>2. /\ handler' = [handler EXCEPT ![s] = "first"]
            /\ sender' = [sender EXCEPT ![s] = "loop"]
            /\ checkinDone' = s /\ UNCHANGED checkinConn
        BY <2>2, <3>1 DEF HandlerConnect
      <4>3. QED  BY <4>1, <4>2
    <3>2. CASE ~MayConnect
      <4>1. /\ handler[s] = "found" /\ handler' = [handler EXCEPT ![s] = "closed"]
            /\ UNCHANGED <<sender, checkinDone, checkinConn>>
        BY <2>2, <3>2 DEF HandlerConnect
      <4>2. QED  BY <4>1
    <3>3. QED  BY <3>1, <3>2
  <2>3. CASE HandlerUpdate(s)
    <3>1. UNCHANGED <<connVars, senderVars>>
      BY <2>3 DEF HandlerUpdate
    <3>2. handler' = [handler EXCEPT ![s] = handler'[s]] /\ handler[s] = "first"
          /\ handler'[s] \in {"offer", "serving"}
      BY <2>3 DEF HandlerUpdate
    <3>3. QED  BY <3>1, <3>2, MovesOn DEF connVars, senderVars
  <2>4. CASE HandlerOffer(s)
    <3>1. \A t \in Stream : sender'[t] \in Active => sender[t] \in Active
      BY <2>4, HandOverServing DEF HandlerOffer
    <3>2. QED  BY <2>4, <3>1 DEF HandlerOffer, connVars
  <2>5. CASE HandlerReturn(s)
    BY <2>5 DEF HandlerReturn, senderVars
  <2>6. QED  BY <1>1, <2>1, <2>2, <2>3, <2>4, <2>5 DEF HandlerStep
<1>2. ASSUME NEW s \in Stream, SenderStep(s) PROVE ServingInv'
  BY <1>2 DEF SenderStep, SenderPark, SenderQuit, SenderSend, SenderTypeOK, connVars,
     handlerVars, Active
<1>3. ASSUME NEW s \in Stream, ReceiverStep(s) PROVE ServingInv'
  <2>1. \A t \in Stream : sender'[t] \in Active => sender[t] \in Active
    BY <1>3, HandOverServing DEF ReceiverStep, ReceiverRecv, ReceiverTry, ReceiverFail, senderVars
  <2>2. UNCHANGED <<connVars, handlerVars>>
    BY <1>3 DEF ReceiverStep, ReceiverRecv, ReceiverTry, ReceiverFail
  <2>3. QED  BY <2>1, <2>2 DEF connVars, handlerVars
<1>4. ASSUME NEW u \in Updater, UpdateStep(u) PROVE ServingInv'
  <2>1. \A t \in Stream : sender'[t] \in Active => sender[t] \in Active
    BY <1>4, HandOverServing DEF UpdateStep, UpdateRead, UpdateCommit, UpdateTry, senderVars
  <2>2. UNCHANGED <<connVars, handlerVars>>
    BY <1>4 DEF UpdateStep, UpdateRead, UpdateCommit, UpdateTry
  <2>3. QED  BY <2>1, <2>2 DEF connVars, handlerVars
<1>5. CASE Stop
  <2>1. \A t \in Stream : sender'[t] \in Active => sender[t] \in Active
    BY <1>5, HandOverServing DEF Stop, StopBegin, StopTry, StopPoll, StopTimeOut, senderVars
  <2>2. UNCHANGED <<connVars, handlerVars>>
    BY <1>5 DEF Stop, StopBegin, StopTry, StopPoll, StopTimeOut
  <2>3. QED  BY <2>1, <2>2 DEF connVars, handlerVars
<1>6. CASE Destroy
  BY <1>6 DEF Destroy, DestroyCall, DestroyStream, DestroyDelete, connVars, handlerVars,
     senderVars
<1>7. CASE UNCHANGED serverVars
  BY <1>7 DEF serverVars, connVars, handlerVars, senderVars
<1>8. QED
  BY <1>1, <1>2, <1>3, <1>4, <1>5, <1>6, <1>7 DEF Next, Break, ServerNext, vars

\* An application has one check-in stream, however many its clients open and
\* whoever calls Stop, Destroy and UpdateConfig.
THEOREM CheckinOneStream == Spec => []OneStream
<1>1. Init => ServingInv
  BY DEF Init, ServerInit, ServingInv, Live, Active
<1>2. QED
  BY <1>1, InitTypes, NextTypes, NextServing, ServingOneStream, PTL DEF Spec

-----------------------------------------------------------------------------
(* Agreement.  Whatever is on its way to the client, in a channel, in a    *)
(* goroutine's hands or on the wire, carries a configuration that was      *)
(* expected under its index, or the word to stop.  An index above those    *)
(* that a reload took back was given one configuration.                    *)

Fits(m, configs, exp) ==
  \/ m.state = "running" /\ <<m.idx, m.cfg>> \in configs
  \/ m.state = "stopping" /\ exp = "stopping"

Fit(m) == Fits(m, wanted, expected)

HandlerFits  == \A s \in Stream : handler[s] = "offer" => Fit(hmsg[s])
SenderFits   == \A s \in Stream : sender[s] = "sending" => Fit(smsg[s])
ReceiverFits == \A s \in Stream : receiver[s] = "try" => Fit(rmsg[s])
UpdateFits   == \A u \in Updater : /\ update[u] = "commit" => umsg[u].state = "running"
                                   /\ update[u] = "try" => Fit(umsg[u])
StopFits     == stop = "try" => Fit(stopMsg)

HandsFit == HandlerFits /\ SenderFits /\ ReceiverFits /\ UpdateFits /\ StopFits

WireFits == \A s \in Stream : \A i \in DOMAIN down[s] : Fit(down[s][i])

Pairs == (Nat \ {0}) \X (Config \cup {InitConfig})

WantedInv ==
  /\ <<expectedConfigIdx, expectedConfig>> \in wanted
  /\ \A w \in wanted : w[1] <= expectedConfigIdx \/ w[1] <= spent
  /\ \A w, x \in wanted : w[1] = x[1] /\ w[1] > spent => w[2] = x[2]
  /\ stop = "no" => expected = "running"

ClientFits ==
  /\ \/ cfgIdx = 0 /\ newCfg = None
     \/ cfgIdx # 0 /\ <<cfgIdx, newCfg>> \in wanted
  /\ crecv = "config" => cfgIdx # 0
  /\ crecv # "config" => cfg = newCfg

AgreementInv == WantedInv /\ HandsFit /\ WireFits /\ ClientFits

LEMMA AgreementFollows ==
  ASSUME TypeOK, AgreementInv
  PROVE  Agreement
<1> SUFFICES ASSUME InStep, expectedConfigIdx > spent PROVE cfg = expectedConfig
  BY DEF Agreement
<1>1. expectedConfigIdx # 0
  BY DEF TypeOK, ServerTypeOK, StateTypeOK
<1>2. <<expectedConfigIdx, cfg>> \in wanted /\ <<expectedConfigIdx, expectedConfig>> \in wanted
  BY <1>1 DEF AgreementInv, WantedInv, ClientFits, InStep
<1>3. QED  BY <1>2 DEF AgreementInv, WantedInv

LEMMA InitAgreement == Init => AgreementInv
<1> SUFFICES ASSUME Init PROVE AgreementInv  OBVIOUS
<1>1. HandsFit
  BY DEF Init, ServerInit, HandsFit, HandlerFits, SenderFits, ReceiverFits, UpdateFits, StopFits
<1>2. WireFits
  BY DEF Init, WireInit, WireFits
<1>3. ClientFits
  BY DEF Init, ServerInit, ClientInit, ClientFits
<1>4. WantedInv
  BY DEF Init, ServerInit, WantedInv
<1>5. QED  BY <1>1, <1>2, <1>3, <1>4 DEF AgreementInv

\* The elements of a queue after a push and after a pop.
LEMMA QueueElements ==
  ASSUME NEW S
  PROVE  /\ \A q \in Seq(S), m \in S : \A i \in DOMAIN Append(q, m) :
              Append(q, m)[i] = m \/ (i \in DOMAIN q /\ Append(q, m)[i] = q[i])
         /\ \A q \in Seq(S) : q # <<>> =>
              /\ 1 \in DOMAIN q /\ Head(q) = q[1]
              /\ \A i \in DOMAIN Tail(q) : i + 1 \in DOMAIN q /\ Tail(q)[i] = q[i + 1]
<1>1. ASSUME NEW q \in Seq(S), NEW m \in S, NEW i \in DOMAIN Append(q, m)
      PROVE  Append(q, m)[i] = m \/ (i \in DOMAIN q /\ Append(q, m)[i] = q[i])
  BY AppendProperties, LenProperties
<1>2. ASSUME NEW q \in Seq(S), q # <<>>
      PROVE  /\ 1 \in DOMAIN q /\ Head(q) = q[1]
             /\ \A i \in DOMAIN Tail(q) : i + 1 \in DOMAIN q /\ Tail(q)[i] = q[i + 1]
  BY <1>2, HeadTailProperties, LenProperties, EmptySeq
<1>3. QED  BY <1>1, <1>2

LEMMA ReplyFits ==
  ASSUME StateTypeOK, WantedInv, NEW m \in Observed
  PROVE  Reply(m) # None => Fit(Reply(m))
<1>1. <<expectedConfigIdx, expectedConfig>> \in wanted
  BY DEF WantedInv
<1>2. expected = "running" \/ expected = "stopping"
  BY DEF StateTypeOK
<1>3. QED  BY <1>1, <1>2 DEF Reply, ExpectedMsg, Fit, Fits

-----------------------------------------------------------------------------
\* What was wanted is not forgotten, and nobody takes the word to stop back.
Later ==
  /\ wanted \subseteq wanted'
  /\ expected = "stopping" => expected' = "stopping"

LEMMA StillFits ==
  ASSUME Later
  PROVE  \A m : Fit(m) => Fits(m, wanted', expected')
BY DEF Later, Fit, Fits

\* One more configuration under an index that is new, or that a reload takes back.
LEMMA MoreWanted ==
  ASSUME TypeOK, WantedInv, NEW idx \in Nat \ {0}, NEW c \in Config \cup {InitConfig},
         wanted' = wanted \cup {<<idx, c>>}, expectedConfigIdx' = idx, expectedConfig' = c,
         UNCHANGED <<stop, expected>>, spent' \in Nat,
         \/ idx > expectedConfigIdx /\ spent' = spent
         \/ idx = expectedConfigIdx /\ c = expectedConfig /\ spent' = spent
         \/ spent' >= expectedConfigIdx /\ spent' >= spent /\ spent' >= idx
  PROVE  Later /\ WantedInv'
<1> USE DEF WantedInv
<1>1. Later /\ <<expectedConfigIdx', expectedConfig'>> \in wanted'
  BY DEF Later
<1>2. expectedConfigIdx \in Nat /\ spent \in Nat /\ \A w \in wanted : w[1] \in Nat
  BY DEF TypeOK, ServerTypeOK, StateTypeOK
<1>3. \A w \in wanted' : w \in wanted \/ (w[1] = idx /\ w[2] = c)
  OBVIOUS
<1>4. \A w \in wanted' : w[1] <= expectedConfigIdx' \/ w[1] <= spent'
  BY <1>2, <1>3
<1>5. \A w, x \in wanted' : w[1] = x[1] /\ w[1] > spent' => w[2] = x[2]
  BY <1>2, <1>3
<1>6. QED  BY <1>1, <1>4, <1>5

\* The index a client is made to reload under.
LEMMA ReloadLater ==
  ASSUME TypeOK, WantedInv, NEW s \in Stream, HandlerConnect(s)
  PROVE  Later /\ WantedInv'
<1> USE DEF TypeOK, ServerTypeOK
<1> DEFINE i == hmsg[s].idx
<1>0. UNCHANGED <<expected, expectedConfig, stop>>
  BY DEF HandlerConnect, stopVars
<1>1. /\ i \in Nat /\ expectedConfigIdx \in Nat /\ spent \in Nat
      /\ expectedConfig \in Config \cup {InitConfig}
  BY DEF HandlerConnect, HandlerTypeOK, StateTypeOK, Observed
<1>2. CASE UNCHANGED <<expectedConfigIdx, wanted, spent>>
  BY <1>0, <1>2 DEF Later, WantedInv
<1>3. CASE i > 0 /\ ForceReload(i)
  <2>1. /\ i + 1 \in Nat \ {0} /\ expectedConfigIdx' = i + 1
        /\ wanted' = wanted \cup {<<i + 1, expectedConfig>>}
        /\ spent' = IF i + 1 < expectedConfigIdx /\ spent < expectedConfigIdx
                      THEN expectedConfigIdx ELSE spent
    BY <1>1, <1>3 DEF ForceReload
  <2>2. /\ spent' \in Nat
        /\ \/ i + 1 > expectedConfigIdx /\ spent' = spent
           \/ i + 1 = expectedConfigIdx /\ spent' = spent
           \/ spent' >= expectedConfigIdx /\ spent' >= spent /\ spent' >= i + 1
    BY <1>1, <2>1
  <2>3. QED  BY <1>0, <1>1, <2>1, <2>2, MoreWanted
<1>4. QED  BY <1>2, <1>3, <1>1 DEF HandlerConnect, ForceReload

LEMMA StepLater ==
  ASSUME TypeOK, WantedInv, [Next]_vars
  PROVE  Later /\ WantedInv'
<1>1. CASE UNCHANGED <<stateVars, stopVars>>
  BY <1>1 DEF Later, WantedInv, stateVars, stopVars
<1>2. ASSUME NEW s \in Stream, HandlerStep(s) PROVE Later /\ WantedInv'
  BY <1>1, <1>2, ReloadLater DEF HandlerStep, HandlerFirst, HandlerGiveUp, HandlerUpdate,
     HandlerOffer, HandlerReturn
<1>3. ASSUME NEW s \in Stream, SenderStep(s) \/ ReceiverStep(s) PROVE Later /\ WantedInv'
  BY <1>1, <1>3 DEF SenderStep, SenderPark, SenderQuit, SenderSend, ReceiverStep,
     ReceiverRecv, ReceiverTry, ReceiverFail
<1>4. ASSUME NEW u \in Updater, UpdateStep(u) PROVE Later /\ WantedInv'
  <2>1. CASE UpdateCommit(u)
    <3>1. /\ wanted' = wanted \cup {<<NextIdx, umsg[u].cfg>>}
          /\ expectedConfigIdx' = NextIdx /\ expectedConfig' = umsg[u].cfg
          /\ UNCHANGED <<expected, spent, stop>>
      BY <2>1 DEF UpdateCommit, stopVars
    <3>2. umsg[u].cfg \in Config \cup {InitConfig}
      BY <2>1 DEF UpdateCommit, TypeOK, ServerTypeOK, UpdateTypeOK, Draft
    <3>3. /\ NextIdx \in Nat \ {0} /\ NextIdx > expectedConfigIdx /\ spent \in Nat
      BY DEF NextIdx, TypeOK, ServerTypeOK, StateTypeOK
    <3>4. QED  BY <3>1, <3>2, <3>3, MoreWanted
  <2>2. CASE ~UpdateCommit(u)
    BY <1>1, <1>4, <2>2 DEF UpdateStep, UpdateRead, UpdateTry
  <2>3. QED  BY <2>1, <2>2
<1>5. CASE Stop \/ Destroy
  BY <1>5 DEF Stop, Destroy, StopBegin, StopTry, StopPoll, StopTimeOut, DestroyCall,
     DestroyStream, DestroyDelete, Later, WantedInv, stateVars, stopVars
<1>6. CASE UNCHANGED serverVars
  BY <1>1, <1>6 DEF serverVars
<1>7. QED
  BY <1>2, <1>3, <1>4, <1>5, <1>6 DEF Next, Break, ServerNext, vars

\* A step disturbs only those whose hands it changes.
LEMMA OthersFit ==
  ASSUME TypeOK, AgreementInv, Later
  PROVE  /\ UNCHANGED handlerVars => HandlerFits'
         /\ UNCHANGED senderVars => SenderFits'
         /\ UNCHANGED recvVars => ReceiverFits'
         /\ UNCHANGED updateVars => UpdateFits'
         /\ UNCHANGED stopVars => StopFits'
         /\ UNCHANGED down => WireFits'
         /\ UNCHANGED clientVars => ClientFits'
<1> USE StillFits DEF AgreementInv, HandsFit, Fit
<1>1. UNCHANGED handlerVars => HandlerFits'  BY DEF HandlerFits, handlerVars
<1>2. UNCHANGED senderVars => SenderFits'    BY DEF SenderFits, senderVars
<1>3. UNCHANGED recvVars => ReceiverFits'    BY DEF ReceiverFits, recvVars
<1>4. UNCHANGED updateVars => UpdateFits'    BY DEF UpdateFits, updateVars
<1>5. UNCHANGED stopVars => StopFits'        BY DEF StopFits, stopVars
<1>6. UNCHANGED down => WireFits'            BY DEF WireFits
<1>7. UNCHANGED clientVars => ClientFits'    BY DEF Later, ClientFits, clientVars
<1>8. QED  BY <1>1, <1>2, <1>3, <1>4, <1>5, <1>6, <1>7

\* The sender that takes a message that fits has one that fits.
LEMMA HandOverFits ==
  ASSUME TypeOK, AgreementInv, Later, NEW m, Fit(m), HandOver(m) \/ Try(m)
  PROVE  SenderFits'
<1>1. \A s \in Stream : sender'[s] = "sending" => Fit(smsg'[s])
  <2>1. CASE HandOver(m)
    <3>1. PICK t \in Stream : /\ sender' = [sender EXCEPT ![t] = "sending"]
                             /\ smsg' = [smsg EXCEPT ![t] = m]
      BY <2>1 DEF HandOver, Parked
    <3>2. QED
      BY <3>1 DEF TypeOK, ServerTypeOK, SenderTypeOK, AgreementInv, HandsFit, SenderFits
  <2>2. CASE UNCHANGED senderVars
    BY <2>2 DEF AgreementInv, HandsFit, SenderFits, senderVars
  <2>3. QED  BY <2>1, <2>2 DEF Try
<1>2. QED  BY <1>1, StillFits DEF SenderFits, Fit

LEMMA HandlerAgreement ==
  ASSUME TypeOK, AgreementInv, Later, NEW s \in Stream, HandlerStep(s)
  PROVE  HandsFit' /\ UNCHANGED down
<1> USE DEF TypeOK, ServerTypeOK
<1>1. UNCHANGED <<down, updateVars, stopVars>>
  BY DEF HandlerStep, HandlerFirst, HandlerGiveUp, HandlerConnect, HandlerUpdate,
     HandlerOffer, HandlerReturn, wireVars
<1>2. HandlerFits'
  <2>1. CASE HandlerUpdate(s)
    <3>1. hmsg[s] \in Observed
      BY <2>1 DEF HandlerUpdate, HandlerTypeOK
    <3>2. handler'[s] = "offer" => Fit(hmsg'[s])
      BY <2>1, <3>1, ReplyFits DEF HandlerUpdate, Satisfied, HandlerTypeOK, AgreementInv
    <3>3. \A t \in Stream \ {s} : handler'[t] = handler[t] /\ hmsg'[t] = hmsg[t]
      BY <2>1 DEF HandlerUpdate, HandlerTypeOK
    <3>4. \A t \in Stream : handler'[t] = "offer" => Fit(hmsg'[t])
      BY <3>2, <3>3 DEF AgreementInv, HandsFit, HandlerFits
    <3>5. QED  BY <3>4, StillFits DEF HandlerFits, Fit
  <2>2. CASE ~HandlerUpdate(s)
    <3>1. \A t \in Stream : handler'[t] = "offer" => handler[t] = "offer" /\ hmsg'[t] = hmsg[t]
      BY <2>2 DEF HandlerStep, HandlerFirst, HandlerGiveUp, HandlerConnect, HandlerOffer,
         HandlerReturn, HandlerTypeOK
    <3>2. QED  BY <3>1, StillFits DEF AgreementInv, HandsFit, HandlerFits, Fit
  <2>3. QED  BY <2>1, <2>2
<1>3. SenderFits'
  <2>1. CASE HandlerOffer(s)
    BY <2>1, HandOverFits DEF HandlerOffer, AgreementInv, HandsFit, HandlerFits
  <2>2. CASE ~HandlerOffer(s)
    <3>1. \A t \in Stream : sender'[t] = "sending" => sender[t] = "sending" /\ smsg'[t] = smsg[t]
      BY <2>2 DEF HandlerStep, HandlerFirst, HandlerGiveUp, HandlerConnect, HandlerUpdate,
         HandlerReturn, SenderTypeOK, senderVars
    <3>2. QED  BY <3>1, StillFits DEF AgreementInv, HandsFit, SenderFits, Fit
  <2>3. QED  BY <2>1, <2>2
<1>4. ReceiverFits'
  <2>1. \A t \in Stream : receiver'[t] = "try" => receiver[t] = "try" /\ rmsg'[t] = rmsg[t]
    BY DEF HandlerStep, HandlerFirst, HandlerGiveUp, HandlerConnect, HandlerUpdate,
       HandlerOffer, HandlerReturn, ReceiverTypeOK, recvVars
  <2>2. QED  BY <2>1, StillFits DEF AgreementInv, HandsFit, ReceiverFits, Fit
<1>5. QED  BY <1>1, <1>2, <1>3, <1>4, OthersFit DEF HandsFit

LEMMA SenderAgreement ==
  ASSUME TypeOK, AgreementInv, Later, NEW s \in Stream, SenderStep(s)
  PROVE  HandsFit' /\ WireFits'
<1> USE DEF TypeOK, ServerTypeOK
<1>1. UNCHANGED <<handlerVars, recvVars, updateVars, stopVars>>
  BY DEF SenderStep, SenderPark, SenderQuit, SenderSend
<1>2. SenderFits'
  <2>1. \A t \in Stream : sender'[t] = "sending" => sender[t] = "sending" /\ smsg'[t] = smsg[t]
    BY DEF SenderStep, SenderPark, SenderQuit, SenderSend, SenderTypeOK
  <2>2. QED  BY <2>1, StillFits DEF AgreementInv, HandsFit, SenderFits, Fit
<1>3. WireFits'
  <2>1. CASE UNCHANGED down
    BY <2>1, OthersFit
  <2>2. CASE SenderSend(s) /\ down' = [down EXCEPT ![s] = Append(@, smsg[s])]
    <3>1. smsg[s] \in Expected /\ Fit(smsg[s]) /\ down[s] \in Seq(Expected)
      BY <2>2 DEF SenderSend, SenderTypeOK, AgreementInv, HandsFit, SenderFits, WireTypeOK
    <3>2. \A i \in DOMAIN Append(down[s], smsg[s]) : Fit(Append(down[s], smsg[s])[i])
      BY <3>1, QueueElements DEF AgreementInv, WireFits
    <3>3. \A t \in Stream : \A i \in DOMAIN down'[t] : Fit(down'[t][i])
      BY <2>2, <3>2 DEF AgreementInv, WireFits, WireTypeOK
    <3>4. QED  BY <3>3, StillFits DEF WireFits, Fit
  <2>3. QED
    BY <2>1, <2>2 DEF SenderStep, SenderPark, SenderQuit, SenderSend, SendDown, wireVars
<1>4. QED  BY <1>1, <1>2, <1>3, OthersFit DEF HandsFit

LEMMA ReceiverAgreement ==
  ASSUME TypeOK, AgreementInv, Later, NEW s \in Stream, ReceiverStep(s)
  PROVE  HandsFit' /\ UNCHANGED down
<1> USE DEF TypeOK, ServerTypeOK
<1>1. UNCHANGED <<down, handlerVars, updateVars, stopVars>>
  BY DEF ReceiverStep, ReceiverRecv, ReceiverTry, ReceiverFail, wireVars
<1>2. SenderFits'
  <2>1. CASE ReceiverTry(s)
    BY <2>1, HandOverFits DEF ReceiverTry, AgreementInv, HandsFit, ReceiverFits
  <2>2. CASE UNCHANGED senderVars
    BY <2>2, OthersFit
  <2>3. QED  BY <2>1, <2>2 DEF ReceiverStep, ReceiverRecv, ReceiverFail
<1>3. ReceiverFits'
  <2>1. CASE ReceiverRecv(s)
    <3>1. Head(up[s]) \in Observed
      BY <2>1, AppendTail DEF ReceiverRecv, WireTypeOK
    <3>2. receiver'[s] = "try" => Fit(rmsg'[s])
      BY <2>1, <3>1, ReplyFits DEF ReceiverRecv, Satisfied, ReceiverTypeOK, AgreementInv
    <3>3. \A t \in Stream \ {s} : receiver'[t] = receiver[t] /\ rmsg'[t] = rmsg[t]
      BY <2>1 DEF ReceiverRecv, ReceiverTypeOK
    <3>4. \A t \in Stream : receiver'[t] = "try" => Fit(rmsg'[t])
      BY <3>2, <3>3 DEF AgreementInv, HandsFit, ReceiverFits
    <3>5. QED  BY <3>4, StillFits DEF ReceiverFits, Fit
  <2>2. CASE ~ReceiverRecv(s)
    <3>1. \A t \in Stream : receiver'[t] = "try" => receiver[t] = "try" /\ rmsg'[t] = rmsg[t]
      BY <2>2 DEF ReceiverStep, ReceiverTry, ReceiverFail, ReceiverTypeOK
    <3>2. QED  BY <3>1, StillFits DEF AgreementInv, HandsFit, ReceiverFits, Fit
  <2>3. QED  BY <2>1, <2>2
<1>4. QED  BY <1>1, <1>2, <1>3, OthersFit DEF HandsFit

LEMMA UpdateAgreement ==
  ASSUME TypeOK, AgreementInv, Later, WantedInv', NEW u \in Updater, UpdateStep(u)
  PROVE  HandsFit' /\ UNCHANGED down
<1> USE DEF TypeOK, ServerTypeOK
<1>1. UNCHANGED <<down, handlerVars, recvVars, stopVars>>
  BY DEF UpdateStep, UpdateRead, UpdateCommit, UpdateTry, wireVars
<1>2. SenderFits'
  <2>1. CASE UpdateTry(u)
    BY <2>1, HandOverFits DEF UpdateTry, AgreementInv, HandsFit, UpdateFits
  <2>2. CASE UNCHANGED senderVars
    BY <2>2, OthersFit
  <2>3. QED  BY <2>1, <2>2 DEF UpdateStep, UpdateRead, UpdateCommit
<1>3. UpdateFits'
  <2>1. \A v \in Updater \ {u} : update'[v] = update[v] /\ umsg'[v] = umsg[v]
    BY DEF UpdateStep, UpdateRead, UpdateCommit, UpdateTry, UpdateTypeOK
  <2>2. \A v \in Updater \ {u} : /\ update'[v] = "commit" => umsg'[v].state = "running"
                                 /\ update'[v] = "try" => Fits(umsg'[v], wanted', expected')
    BY <2>1, StillFits DEF AgreementInv, HandsFit, UpdateFits
  <2>3. /\ update'[u] = "commit" => umsg'[u].state = "running"
        /\ update'[u] = "try" => Fits(umsg'[u], wanted', expected')
    <3>1. CASE UpdateRead(u)
      BY <3>1 DEF UpdateRead, UpdateTypeOK, StateTypeOK
    <3>2. CASE UpdateCommit(u)
      <4>1. /\ umsg'[u] = ExpectedMsg("running", NextIdx, umsg[u].cfg)
            /\ expectedConfigIdx' = NextIdx /\ expectedConfig' = umsg[u].cfg
            /\ update'[u] = "try"
        BY <3>2 DEF UpdateCommit, UpdateTypeOK, AgreementInv, HandsFit, UpdateFits
      <4>2. <<NextIdx, umsg[u].cfg>> \in wanted'
        BY <4>1 DEF WantedInv
      <4>3. QED  BY <4>1, <4>2 DEF ExpectedMsg, Fits
    <3>3. CASE UpdateTry(u)
      BY <3>3 DEF UpdateTry, UpdateTypeOK
    <3>4. QED  BY <3>1, <3>2, <3>3 DEF UpdateStep
  <2>4. QED  BY <2>2, <2>3 DEF UpdateFits, Fit
<1>4. QED  BY <1>1, <1>2, <1>3, OthersFit DEF HandsFit

LEMMA StopAgreement ==
  ASSUME TypeOK, AgreementInv, Later, Stop \/ Destroy
  PROVE  HandsFit' /\ UNCHANGED down
<1>1. UNCHANGED <<down, handlerVars, recvVars, updateVars>>
  BY DEF Stop, Destroy, StopBegin, StopTry, StopPoll, StopTimeOut, DestroyCall,
     DestroyStream, DestroyDelete, wireVars
<1>2. SenderFits'
  <2>1. CASE StopTry
    BY <2>1, HandOverFits DEF StopTry, AgreementInv, HandsFit, StopFits
  <2>2. CASE UNCHANGED senderVars
    BY <2>2, OthersFit
  <2>3. QED
    BY <2>1, <2>2 DEF Stop, Destroy, StopBegin, StopPoll, StopTimeOut, DestroyCall,
       DestroyStream, DestroyDelete
<1>3. StopFits'
  <2>1. CASE StopBegin
    BY <2>1 DEF StopBegin, StopFits, Fit, Fits, ExpectedMsg
  <2>2. CASE ~StopBegin
    <3>1. stop' = "try" => stop = "try" /\ stopMsg' = stopMsg
      BY <2>2 DEF Stop, Destroy, StopTry, StopPoll, StopTimeOut, DestroyCall,
         DestroyStream, DestroyDelete, stopVars
    <3>2. QED  BY <3>1, StillFits DEF AgreementInv, HandsFit, StopFits, Fit
  <2>3. QED  BY <2>1, <2>2
<1>4. QED  BY <1>1, <1>2, <1>3, OthersFit DEF HandsFit

-----------------------------------------------------------------------------
(* The client.                                                             *)

\* What the client reads fits; what it does with it is one of three things.
LEMMA ClientReads ==
  ASSUME TypeOK, AgreementInv, ClientRecv
  PROVE  LET m == Head(down[cstream])
         IN  /\ Fit(m) /\ m \in Expected
             /\ \A t \in Stream : \A i \in DOMAIN down'[t] : Fit(down'[t][i])
             /\ \/ /\ ~told /\ told' = told /\ m.state = "running" /\ m.idx # cfgIdx
                   /\ cfgIdx' = m.idx /\ newCfg' = m.cfg /\ crecv' = "config"
                \/ /\ told' = told \/ (m.state = "stopping" /\ told')
                   /\ UNCHANGED <<cfgIdx, newCfg, crecv>>
<1> USE DEF TypeOK, WireTypeOK, ClientTypeOK
<1> DEFINE m == Head(down[cstream])
<1>1. /\ cstream \in Stream /\ down[cstream] \in Seq(Expected)
      /\ down[cstream] # <<>> /\ m \in Expected
  BY AppendTail DEF ClientRecv
<1>2. Fit(m)
  BY <1>1, QueueElements DEF AgreementInv, WireFits
<1>3. \A t \in Stream : \A i \in DOMAIN down'[t] : Fit(down'[t][i])
  <2>1. \A i \in DOMAIN Tail(down[cstream]) : Fit(Tail(down[cstream])[i])
    BY <1>1, QueueElements DEF AgreementInv, WireFits
  <2>2. QED  BY <1>1, <2>1 DEF ClientRecv, AgreementInv, WireFits
<1>4. told' = (told \/ m.state = "stopping") /\ m.state \in {"running", "stopping"}
  BY <1>1 DEF ClientRecv, Expected
<1>5. CASE News(m)
  <2>1. cfgIdx' = m.idx /\ newCfg' = m.cfg /\ crecv' = "config"
    BY <1>5 DEF ClientRecv, Accept
  <2>2. ~told' /\ m.idx # cfgIdx
    BY <1>5 DEF News
  <2>3. ~told /\ told' = told /\ m.state = "running"
    BY <1>4, <2>2
  <2>4. QED  BY <1>1, <1>2, <1>3, <2>1, <2>2, <2>3
<1>6. CASE ~News(m)
  <2>1. UNCHANGED <<cfgIdx, newCfg, crecv>>
    BY <1>6 DEF ClientRecv
  <2>2. QED  BY <1>1, <1>2, <1>3, <1>4, <2>1
<1>7. QED  BY <1>5, <1>6

LEMMA ClientAgreement ==
  ASSUME TypeOK, AgreementInv, Later, ClientNext, UNCHANGED <<wanted, expected>>
  PROVE  WireFits' /\ ClientFits'
<1> USE DEF TypeOK, WireTypeOK, ClientTypeOK
<1>1. CASE ClientRecv
  <2> DEFINE m == Head(down[cstream])
  <2>1. Fit(m) /\ m \in Expected
    BY <1>1, ClientReads
  <2>2. WireFits'
    BY <1>1, ClientReads DEF WireFits, Fit
  <2>3. ClientFits'
    <3>1. CASE /\ m.state = "running" /\ cfgIdx' = m.idx /\ newCfg' = m.cfg
               /\ crecv' = "config"
      <4>1. <<m.idx, m.cfg>> \in wanted
        BY <2>1, <3>1 DEF Fit, Fits
      <4>2. m.idx # 0
        BY <4>1 DEF ServerTypeOK, StateTypeOK
      <4>3. QED  BY <3>1, <4>1, <4>2 DEF ClientFits
    <3>2. CASE UNCHANGED <<cfgIdx, newCfg, crecv>>
      <4>1. UNCHANGED cfg
        BY <1>1 DEF ClientRecv
      <4>2. QED  BY <3>2, <4>1 DEF AgreementInv, ClientFits
    <3>3. QED  BY <1>1, <3>1, <3>2, ClientReads
  <2>4. QED  BY <2>2, <2>3
<1>2. CASE ~ClientRecv
  <2>1. WireFits'
    <3>1. \A t \in Stream : down'[t] = down[t] \/ down'[t] = <<>>
      BY <1>2 DEF ClientNext, ClientRun, Dial, LoopEnd, ReceivingStep, ConfigDone,
         ClientRecvFail, SendingStep, ClientSend, SendUp, ClientSendFails,
         ClientSendQuit, ClientStatus, ClientExit, wireVars
    <3>2. DOMAIN <<>> = {}
      BY EmptySeq
    <3>3. \A t \in Stream : \A i \in DOMAIN down'[t] : Fit(down'[t][i])
      BY <3>1, <3>2 DEF AgreementInv, WireFits
    <3>4. QED  BY <3>3 DEF WireFits, Fit
  <2>2. CASE ClientExit
    BY <2>1, <2>2 DEF ClientExit, Fresh, ClientFits
  <2>3. CASE ~ClientExit
    <3>1. ClientFits'
      BY <1>2, <2>3 DEF ClientNext, ClientRun, Dial, LoopEnd, ReceivingStep, ConfigDone,
         ClientRecvFail, SendingStep, ClientSend, ClientSendFails, ClientSendQuit,
         ClientStatus, AgreementInv, ClientFits
    <3>2. QED  BY <2>1, <3>1
  <2>4. QED  BY <2>2, <2>3
<1>3. QED  BY <1>1, <1>2

LEMMA NextAgreement ==
  ASSUME TypeOK, AgreementInv, [Next]_vars
  PROVE  AgreementInv'
<1>0. Later /\ WantedInv'
  BY StepLater DEF AgreementInv
<1>1. CASE ServerNext /\ UNCHANGED clientVars
  <2>1. ASSUME NEW s \in Stream, HandlerStep(s) \/ ReceiverStep(s) PROVE AgreementInv'
    BY <1>0, <1>1, <2>1, HandlerAgreement, ReceiverAgreement, OthersFit DEF AgreementInv
  <2>2. ASSUME NEW s \in Stream, SenderStep(s) PROVE AgreementInv'
    BY <1>0, <1>1, <2>2, SenderAgreement, OthersFit DEF AgreementInv
  <2>3. ASSUME NEW u \in Updater, UpdateStep(u) PROVE AgreementInv'
    BY <1>0, <1>1, <2>3, UpdateAgreement, OthersFit DEF AgreementInv
  <2>4. CASE Stop \/ Destroy
    BY <1>0, <1>1, <2>4, StopAgreement, OthersFit DEF AgreementInv
  <2>5. QED  BY <1>1, <2>1, <2>2, <2>3, <2>4 DEF ServerNext
<1>2. CASE UNCHANGED serverVars
  <2>1. UNCHANGED <<wanted, expected, handlerVars, senderVars, recvVars, updateVars, stopVars>>
    BY <1>2 DEF serverVars, stateVars
  <2>2. HandsFit'
    BY <1>0, <2>1, OthersFit DEF HandsFit
  <2>3. CASE ClientNext
    BY <1>0, <2>1, <2>2, <2>3, ClientAgreement DEF AgreementInv
  <2>4. CASE UNCHANGED <<down, clientVars>>
    BY <1>0, <2>1, <2>2, <2>4, OthersFit DEF AgreementInv
  <2>5. CASE Break
    BY <2>4, <2>5 DEF Break, NetBreak
  <2>6. CASE UNCHANGED vars
    BY <2>4, <2>6 DEF vars, wireVars
  <2>7. CASE ServerNext /\ UNCHANGED clientVars
    BY <1>1, <2>7
  <2>8. QED  BY <2>3, <2>5, <2>6, <2>7 DEF Next
<1>3. QED  BY <1>1, <1>2 DEF Next, Break, vars

\* A client that has the expected index has the expected configuration, whatever
\* is dropped, delayed or lost, however updates interleave, whoever reconnects
\* and whoever calls Stop and Destroy, as long as the index is above those that a
\* forced reload took back (server.go 306-310, 598-611).
THEOREM CheckinAgrees == Spec => []Agreement
BY InitTypes, NextTypes, InitAgreement, NextAgreement, AgreementFollows, PTL DEF Spec

-----------------------------------------------------------------------------
(* Every step is one of Instructions, or nothing an application sees.      *)

\* The server wants a configuration or the application to stop.
LEMMA ServerInstructs ==
  ASSUME TypeOK, ServerNext, UNCHANGED clientVars
  PROVE  [Told!Next]_(Told!vars)
<1> USE DEF clientVars, Told!vars
<1>1. CASE UNCHANGED stateVars
  BY <1>1 DEF stateVars
<1>2. ASSUME NEW s \in Stream, HandlerStep(s) PROVE [Told!Next]_(Told!vars)
  <2>1. CASE HandlerConnect(s)
    <3>1. wanted \subseteq wanted' /\ UNCHANGED expected
      BY <2>1 DEF HandlerConnect, ForceReload
    <3>2. wanted' \ wanted \subseteq Pairs
      BY <1>2, HandlerTypes DEF ServerTypeOK, StateTypeOK, Pairs
    <3>3. Told!Want
      BY <3>1, <3>2 DEF Told!Want, Pairs
    <3>4. QED  BY <3>3 DEF Told!Next
  <2>2. CASE ~HandlerConnect(s)
    BY <1>1, <1>2, <2>2 DEF HandlerStep, HandlerFirst, HandlerGiveUp, HandlerUpdate,
       HandlerOffer, HandlerReturn
  <2>3. QED  BY <2>1, <2>2
<1>3. ASSUME NEW s \in Stream, SenderStep(s) \/ ReceiverStep(s) PROVE [Told!Next]_(Told!vars)
  BY <1>1, <1>3 DEF SenderStep, SenderPark, SenderQuit, SenderSend, ReceiverStep,
     ReceiverRecv, ReceiverTry, ReceiverFail
<1>4. ASSUME NEW u \in Updater, UpdateStep(u) PROVE [Told!Next]_(Told!vars)
  <2>1. CASE UpdateCommit(u)
    <3>1. wanted \subseteq wanted' /\ UNCHANGED expected
      BY <2>1 DEF UpdateCommit
    <3>2. wanted' \ wanted \subseteq Pairs
      BY <2>1, UpdateTypes DEF TypeOK, ServerTypeOK, StateTypeOK, UpdateStep, Pairs
    <3>3. Told!Want
      BY <3>1, <3>2 DEF Told!Want, Pairs
    <3>4. QED  BY <3>3 DEF Told!Next
  <2>2. CASE ~UpdateCommit(u)
    BY <1>1, <1>4, <2>2 DEF UpdateStep, UpdateRead, UpdateTry
  <2>3. QED  BY <2>1, <2>2
<1>5. CASE StopBegin
  <2>1. Told!Stop
    BY <1>5 DEF StopBegin, Told!Stop
  <2>2. QED  BY <2>1 DEF Told!Next
<1>6. CASE (Stop /\ ~StopBegin) \/ Destroy
  BY <1>1, <1>6 DEF Stop, Destroy, StopTry, StopPoll, StopTimeOut, DestroyCall,
     DestroyStream, DestroyDelete
<1>7. QED  BY <1>2, <1>3, <1>4, <1>5, <1>6 DEF ServerNext

\* The client takes what fits, applies what it took, or begins again.
LEMMA ClientObeys ==
  ASSUME TypeOK, AgreementInv, ClientNext, UNCHANGED <<wanted, expected>>
  PROVE  [Told!Next]_(Told!vars)
<1> USE DEF Told!vars
<1>1. CASE ClientRecv
  <2> DEFINE m == Head(down[cstream])
  <2>1. Fit(m) /\ m \in Expected /\ UNCHANGED cfg
    BY <1>1, ClientReads DEF ClientRecv
  <2>2. CASE /\ ~told /\ told' = told /\ m.state = "running" /\ m.idx # cfgIdx
             /\ cfgIdx' = m.idx /\ newCfg' = m.cfg
    <3>1. <<m.idx, m.cfg>> \in wanted
      BY <2>1, <2>2 DEF Fit, Fits
    <3>2. Told!Take
      BY <2>1, <2>2, <3>1 DEF Told!Take
    <3>3. QED  BY <3>2 DEF Told!Next
  <2>3. CASE told' = told /\ UNCHANGED <<cfgIdx, newCfg>>
    BY <2>1, <2>3
  <2>4. CASE m.state = "stopping" /\ told' /\ UNCHANGED <<cfgIdx, newCfg>>
    <3>1. expected = "stopping"
      BY <2>1, <2>4 DEF Fit, Fits
    <3>2. told' = TRUE
      BY <2>4, <1>1 DEF ClientRecv, TypeOK, ClientTypeOK
    <3>3. Told!Learn
      BY <2>1, <2>4, <3>1, <3>2 DEF Told!Learn
    <3>4. QED  BY <3>3 DEF Told!Next
  <2>5. QED  BY <1>1, <2>2, <2>3, <2>4, ClientReads
<1>2. CASE ConfigDone
  <2>1. cfgIdx > 0
    BY <1>2 DEF ConfigDone, AgreementInv, ClientFits, TypeOK, ClientTypeOK
  <2>2. Told!Apply
    BY <1>2, <2>1 DEF ConfigDone, Told!Apply
  <2>3. QED  BY <2>2 DEF Told!Next
<1>3. CASE ClientExit
  <2>1. Told!Again
    BY <1>3 DEF ClientExit, Fresh, Told!Again
  <2>2. QED  BY <2>1 DEF Told!Next
<1>4. CASE ClientNext /\ ~ClientRecv /\ ~ConfigDone /\ ~ClientExit
  BY <1>4 DEF ClientNext, ClientRun, Dial, LoopEnd, ReceivingStep, ClientRecvFail,
     SendingStep, ClientSend, ClientSendFails, ClientSendQuit, ClientStatus
<1>5. QED  BY <1>1, <1>2, <1>3, <1>4

\* The protocol implements Instructions: for any number of streams, updates,
\* restarts and reconnections, and with Stop and Destroy, an application runs
\* with what was expected of it under the index it was given, and takes nothing
\* once told to stop (server.go 306-310, 598-611, 722-738; client.go 222-249).
THEOREM CheckinObeys == Spec => Obeys
<1>1. Init => Told!Init
  BY DEF Init, ServerInit, ClientInit, Told!Init
<1>2. TypeOK /\ AgreementInv /\ [Next]_vars => [Told!Next]_(Told!vars)
  <2> SUFFICES ASSUME TypeOK, AgreementInv, [Next]_vars
               PROVE  [Told!Next]_(Told!vars)
    OBVIOUS
  <2>1. CASE ServerNext /\ UNCHANGED clientVars
    BY <2>1, ServerInstructs
  <2>2. CASE ClientNext /\ UNCHANGED serverVars
    BY <2>2, ClientObeys DEF serverVars, stateVars
  <2>3. CASE Break \/ UNCHANGED vars
    BY <2>3 DEF Break, vars, serverVars, stateVars, clientVars, Told!vars
  <2>4. QED  BY <2>1, <2>2, <2>3 DEF Next
<1>3. QED
  BY <1>1, <1>2, InitTypes, NextTypes, InitAgreement, NextAgreement, PTL
     DEF Spec, Obeys, Told!Spec
=============================================================================

--------------------------- MODULE CheckinServer ----------------------------
(***************************************************************************)
(* The agent's side of the check-in streams of one application             *)
(* (elastic-agent/server/server.go): the handler of every stream with its  *)
(* sending and its receiving goroutine, UpdateConfig, Stop and Destroy.    *)
(* They meet at checkinLock and at pendingExpected, an unbuffered channel: *)
(* only a sender that is parked in its select takes from it.               *)
(*                                                                         *)
(* The goroutine that reads a first message is folded into HandlerFirst;   *)
(* ActionServer models it.  A definition whose name starts with Bad is     *)
(* what the next one would be with a plausible fault in it.                *)
(***************************************************************************)
EXTENDS CheckinWire

CONSTANT Updater        \* the threads that call UpdateConfig, once each

VARIABLES
  \* ApplicationState
  registered,                           \* it is in Server.apps
  expected, expectedConfigIdx, expectedConfig,
  wanted, spent,                        \* for the properties: the configurations
                                        \* that were expected, each with its index,
                                        \* and the last index before a reload took
                                        \* it back
  status, statusConfigIdx,              \* what the application last reported
  checkinConn,                          \* FALSE once it is being destroyed
  checkinDone,                          \* the stream whose channel is set, or None
  doneClosed,                           \* the streams whose channel is closed
  \* one Checkin handler per stream
  handler,     \* "idle" (until the first message is read), "found",
               \* "first", "offer", "serving", "closed"
  hmsg,        \* the first message, then the message being offered
  sender,      \* "off", "loop", "select" (parked), "sending", "done"
  smsg,        \* the message the sender took
  receiver,    \* "off", "recv", "try", "done"
  rmsg,        \* the message the receiver tries to send
  \* callers
  update, umsg,         \* per Updater: "idle", "commit", "try", "done"
  stop, stopMsg, wasConn,
  destroy               \* "no", "called", "delete", "done"

stateVars   == <<expected, expectedConfigIdx, expectedConfig, wanted, spent>>
statusVars  == <<status, statusConfigIdx>>
connVars    == <<registered, checkinConn, checkinDone, doneClosed>>
handlerVars == <<handler, hmsg>>
senderVars  == <<sender, smsg>>
recvVars    == <<receiver, rmsg>>
updateVars  == <<update, umsg>>
stopVars    == <<stop, stopMsg, wasConn>>
serverVars  == <<stateVars, statusVars, connVars, handlerVars, senderVars,
                 recvVars, updateVars, stopVars, destroy>>

MaybeMsg == Observed \cup Expected \cup {None}

\* What UpdateConfig holds between its two critical sections.
Draft == [state : {"running", "stopping"}, cfg : Config]

HandlerTypeOK ==
  /\ handler \in [Stream -> {"idle", "found", "first", "offer",
                             "serving", "closed"}]
  /\ hmsg \in [Stream -> MaybeMsg]
  /\ \A s \in Stream : /\ handler[s] \in {"found", "first"} => hmsg[s] \in Observed
                       /\ handler[s] = "offer" => hmsg[s] \in Expected

SenderTypeOK ==
  /\ sender \in [Stream -> {"off", "loop", "select", "sending", "done"}]
  /\ smsg \in [Stream -> MaybeMsg]
  /\ \A s \in Stream : sender[s] = "sending" => smsg[s] \in Expected

ReceiverTypeOK ==
  /\ receiver \in [Stream -> {"off", "recv", "try", "done"}]
  /\ rmsg \in [Stream -> MaybeMsg]
  /\ \A s \in Stream : receiver[s] = "try" => rmsg[s] \in Expected

UpdateTypeOK ==
  /\ update \in [Updater -> {"idle", "commit", "try", "done"}]
  /\ umsg \in [Updater -> Draft \cup Expected \cup {None}]
  /\ \A u \in Updater : /\ update[u] = "commit" => umsg[u] \in Draft
                        /\ update[u] = "try" => umsg[u] \in Expected

StateTypeOK ==
  /\ registered \in BOOLEAN /\ checkinConn \in BOOLEAN
  /\ expected \in {"running", "stopping"} /\ status \in {"running", "stopping"}
  /\ expectedConfigIdx \in Nat \ {0} /\ statusConfigIdx \in Nat
  /\ expectedConfig \in Config \cup {InitConfig}
  /\ wanted \subseteq (Nat \ {0}) \X (Config \cup {InitConfig}) /\ spent \in Nat
  /\ checkinDone \in Stream \cup {None} /\ doneClosed \in SUBSET Stream
  /\ stop \in {"no", "try", "poll", "ok", "timedout"} /\ wasConn \in BOOLEAN
  /\ stop = "try" => stopMsg \in Expected
  /\ destroy \in {"no", "called", "delete", "done"}

ServerTypeOK == /\ HandlerTypeOK /\ SenderTypeOK /\ ReceiverTypeOK
                /\ UpdateTypeOK /\ StateTypeOK

ServerInit ==
  /\ registered = TRUE
  /\ expected = "running" /\ expectedConfigIdx = 1 /\ expectedConfig = InitConfig
  /\ wanted = {<<1, InitConfig>>} /\ spent = 0
  /\ status = "running" /\ statusConfigIdx = 0
  /\ checkinConn = TRUE /\ checkinDone = None /\ doneClosed = {}
  /\ handler = [s \in Stream |-> "idle"] /\ hmsg = [s \in Stream |-> None]
  /\ sender = [s \in Stream |-> "off"] /\ smsg = [s \in Stream |-> None]
  /\ receiver = [s \in Stream |-> "off"] /\ rmsg = [s \in Stream |-> None]
  /\ update = [u \in Updater |-> "idle"] /\ umsg = [u \in Updater |-> None]
  /\ stop = "no" /\ stopMsg = None /\ wasConn = FALSE
  /\ destroy = "no"

ExpectedMsg(st, idx, cfg) == [state |-> st, idx |-> idx, cfg |-> cfg]

-----------------------------------------------------------------------------
(* sendExpectedState.  A parked sender takes the message; nobody else does,*)
(* and one that tries without waiting drops it when no sender is parked.   *)

Parked == {s \in Stream : sender[s] = "select"}

HandOver(m) ==
  \E s \in Parked : /\ sender' = [sender EXCEPT ![s] = "sending"]
                    /\ smsg' = [smsg EXCEPT ![s] = m]

Try(m) ==
  \/ HandOver(m)
  \/ Parked = {} /\ UNCHANGED senderVars

-----------------------------------------------------------------------------
(* updateStatus up to its sendExpectedState, under checkinLock: the reply  *)
(* to an observed state, or None.                                          *)

BadReply(m) ==
  IF m.idx # expectedConfigIdx
    THEN ExpectedMsg(expected, expectedConfigIdx, expectedConfig)
    ELSE None

Reply(m) ==
  IF expected = "stopping" /\ m.status # "stopping"
    THEN ExpectedMsg("stopping", m.idx, None)
    ELSE IF m.idx # expectedConfigIdx
           THEN ExpectedMsg(expected, expectedConfigIdx, expectedConfig)
           ELSE None

\* There is nothing to tell a client that reports m.
Satisfied(m) == Reply(m) = None

SetObserved(m) == status' = m.status /\ statusConfigIdx' = m.idx

-----------------------------------------------------------------------------
(* Checkin.                                                                *)

\* Nobody reads what is left.
Refuse(s) == Close(s) /\ up' = [up EXCEPT ![s] = <<>>]

HandlerFirst(s) ==
  /\ handler[s] = "idle" /\ up[s] # <<>>
  /\ up' = [up EXCEPT ![s] = Tail(@)]
  /\ IF registered
       THEN /\ handler' = [handler EXCEPT ![s] = "found"]
            /\ hmsg' = [hmsg EXCEPT ![s] = Head(up[s])]
            /\ UNCHANGED link
       ELSE /\ handler' = [handler EXCEPT ![s] = "closed"]
            /\ Close(s)
            /\ UNCHANGED hmsg
  /\ UNCHANGED <<down, stateVars, statusVars, connVars, senderVars, recvVars,
                 updateVars, stopVars, destroy>>

\* The first Recv fails or InitialCheckinTimeout passes.
HandlerGiveUp(s) ==
  /\ handler[s] = "idle" /\ link[s] # "none"
  /\ handler' = [handler EXCEPT ![s] = "closed"]
  /\ Refuse(s)
  /\ UNCHANGED <<down, stateVars, statusVars, connVars, hmsg, senderVars,
                 recvVars, updateVars, stopVars, destroy>>

BadMayConnect == checkinConn

MayConnect == checkinDone = None /\ checkinConn

\* An application that has a configuration already is made to load the
\* expected one again: the expected index becomes the one after its own, which
\* may be one that was given away before.
ForceReload(idx) ==
  IF idx > 0
    THEN /\ expectedConfigIdx' = idx + 1
         /\ wanted' = wanted \cup {<<idx + 1, expectedConfig>>}
         /\ spent' = IF idx + 1 < expectedConfigIdx /\ spent < expectedConfigIdx
                       THEN expectedConfigIdx ELSE spent
    ELSE UNCHANGED <<expectedConfigIdx, wanted, spent>>

HandlerConnect(s) ==
  /\ handler[s] = "found"
  /\ IF MayConnect
       THEN /\ ForceReload(hmsg[s].idx)
            /\ checkinDone' = s
            /\ handler' = [handler EXCEPT ![s] = "first"]
            /\ sender' = [sender EXCEPT ![s] = "loop"]
            /\ UNCHANGED <<link, up, hmsg>>
       ELSE /\ handler' = [handler EXCEPT ![s] = "closed"]
            /\ hmsg' = [hmsg EXCEPT ![s] = None]
            /\ Refuse(s)
            /\ UNCHANGED <<expectedConfigIdx, wanted, spent, checkinDone, sender>>
  /\ UNCHANGED <<down, expected, expectedConfig, statusVars, registered,
                 checkinConn, doneClosed, smsg, recvVars, updateVars, stopVars,
                 destroy>>

\* updateStatus(firstCheckin, true): the receiver starts once it returns.
HandlerUpdate(s) ==
  /\ handler[s] = "first"
  /\ SetObserved(hmsg[s])
  /\ hmsg' = [hmsg EXCEPT ![s] = Reply(@)]
  /\ IF Satisfied(hmsg[s])
       THEN /\ handler' = [handler EXCEPT ![s] = "serving"]
            /\ receiver' = [receiver EXCEPT ![s] = "recv"]
       ELSE /\ handler' = [handler EXCEPT ![s] = "offer"]
            /\ UNCHANGED receiver
  /\ UNCHANGED <<wireVars, stateVars, connVars, senderVars, rmsg, updateVars,
                 stopVars, destroy>>

\* waitForReader: the handler blocks until a sender takes the message.
HandlerOffer(s) ==
  /\ handler[s] = "offer"
  /\ HandOver(hmsg[s])
  /\ handler' = [handler EXCEPT ![s] = "serving"]
  /\ hmsg' = [hmsg EXCEPT ![s] = None]
  /\ receiver' = [receiver EXCEPT ![s] = "recv"]
  /\ UNCHANGED <<wireVars, stateVars, statusVars, connVars, rmsg, updateVars,
                 stopVars, destroy>>

HandlerReturn(s) ==
  /\ handler[s] = "serving" /\ sender[s] = "done"
  /\ checkinDone' = None
  /\ handler' = [handler EXCEPT ![s] = "closed"]
  /\ Close(s)
  /\ UNCHANGED <<up, down, stateVars, statusVars, registered, checkinConn,
                 doneClosed, hmsg, senderVars, recvVars, updateVars, stopVars,
                 destroy>>

-----------------------------------------------------------------------------
(* The sender of a stream.                                                 *)

SenderPark(s) ==
  /\ sender[s] = "loop"
  /\ sender' = [sender EXCEPT ![s] = "select"]
  /\ UNCHANGED <<wireVars, stateVars, statusVars, connVars, handlerVars, smsg,
                 recvVars, updateVars, stopVars, destroy>>

\* checkinDone or recvDone is closed.
StreamOver(s) == s \in doneClosed \/ receiver[s] = "done"

SenderQuit(s) ==
  /\ sender[s] = "select" /\ StreamOver(s)
  /\ sender' = [sender EXCEPT ![s] = "done"]
  /\ UNCHANGED <<wireVars, stateVars, statusVars, connVars, handlerVars, smsg,
                 recvVars, updateVars, stopVars, destroy>>

SenderSend(s) ==
  /\ sender[s] = "sending"
  /\ \/ /\ SendDown(s, smsg[s])
        /\ sender' = [sender EXCEPT ![s] = "loop"]
     \/ /\ Fails(s)
        /\ sender' = [sender EXCEPT ![s] = "done"]
        /\ UNCHANGED wireVars
  /\ smsg' = [smsg EXCEPT ![s] = None]
  /\ UNCHANGED <<stateVars, statusVars, connVars, handlerVars, recvVars,
                 updateVars, stopVars, destroy>>

-----------------------------------------------------------------------------
(* The receiver of a stream: updateStatus(checkin, false).  It may still   *)
(* be at it when its handler has returned and another stream is served.    *)

ReceiverRecv(s) ==
  /\ receiver[s] = "recv" /\ up[s] # <<>>
  /\ up' = [up EXCEPT ![s] = Tail(@)]
  /\ SetObserved(Head(up[s]))
  /\ rmsg' = [rmsg EXCEPT ![s] = Reply(Head(up[s]))]
  /\ receiver' = [receiver EXCEPT ![s] = IF Satisfied(Head(up[s]))
                                           THEN "recv" ELSE "try"]
  /\ UNCHANGED <<link, down, stateVars, connVars, handlerVars, senderVars,
                 updateVars, stopVars, destroy>>

ReceiverTry(s) ==
  /\ receiver[s] = "try"
  /\ Try(rmsg[s])
  /\ rmsg' = [rmsg EXCEPT ![s] = None]
  /\ receiver' = [receiver EXCEPT ![s] = "recv"]
  /\ UNCHANGED <<wireVars, stateVars, statusVars, connVars, handlerVars,
                 updateVars, stopVars, destroy>>

\* Recv fails: recvDone is closed.  What was not read is gone.
ReceiverFail(s) ==
  /\ receiver[s] = "recv" /\ Fails(s)
  /\ up' = [up EXCEPT ![s] = <<>>]
  /\ receiver' = [receiver EXCEPT ![s] = "done"]
  /\ UNCHANGED <<link, down, stateVars, statusVars, connVars, handlerVars,
                 senderVars, rmsg, updateVars, stopVars, destroy>>

-----------------------------------------------------------------------------
(* UpdateConfig: what it reads under one lock it uses under the next.      *)

UpdateRead(u) ==
  /\ update[u] = "idle" /\ destroy = "no"
  /\ \E cfg \in Config :
       IF expected = "stopping" \/ cfg = expectedConfig
         THEN update' = [update EXCEPT ![u] = "done"] /\ UNCHANGED umsg
         ELSE /\ update' = [update EXCEPT ![u] = "commit"]
              /\ umsg' = [umsg EXCEPT ![u] = [state |-> expected, cfg |-> cfg]]
  /\ UNCHANGED <<wireVars, stateVars, statusVars, connVars, handlerVars,
                 senderVars, recvVars, stopVars, destroy>>

BadNextIdx == expectedConfigIdx

NextIdx == expectedConfigIdx + 1

UpdateCommit(u) ==
  /\ update[u] = "commit"
  /\ expectedConfigIdx' = NextIdx
  /\ expectedConfig' = umsg[u].cfg
  /\ wanted' = wanted \cup {<<NextIdx, umsg[u].cfg>>}
  /\ umsg' = [umsg EXCEPT ![u] = ExpectedMsg(@.state, NextIdx, @.cfg)]
  /\ update' = [update EXCEPT ![u] = "try"]
  /\ UNCHANGED <<wireVars, expected, spent, statusVars, connVars, handlerVars,
                 senderVars, recvVars, stopVars, destroy>>

UpdateTry(u) ==
  /\ update[u] = "try"
  /\ Try(umsg[u])
  /\ umsg' = [umsg EXCEPT ![u] = None]
  /\ update' = [update EXCEPT ![u] = "done"]
  /\ UNCHANGED <<wireVars, stateVars, statusVars, connVars, handlerVars,
                 recvVars, stopVars, destroy>>

-----------------------------------------------------------------------------
(* Stop, and the part of Destroy that ends the check-in stream.            *)

StopBegin ==
  /\ stop = "no" /\ destroy = "no"
  /\ wasConn' = (checkinDone # None)
  /\ stopMsg' = ExpectedMsg("stopping", statusConfigIdx, None)
  /\ expected' = "stopping"
  /\ stop' = "try"
  /\ UNCHANGED <<wireVars, expectedConfigIdx, expectedConfig, wanted, spent,
                 statusVars, connVars, handlerVars, senderVars, recvVars, updateVars,
                 destroy>>

StopTry ==
  /\ stop = "try"
  /\ Try(stopMsg)
  /\ stopMsg' = None
  /\ stop' = "poll"
  /\ UNCHANGED <<wireVars, stateVars, statusVars, connVars, handlerVars,
                 recvVars, updateVars, wasConn, destroy>>

\* Disconnected after it was connected, or after it reported "stopping".
HasStopped == checkinDone = None /\ (wasConn \/ status = "stopping")

CallDestroy == destroy' = IF destroy = "no" THEN "called" ELSE destroy

StopPoll ==
  /\ stop = "poll" /\ HasStopped
  /\ stop' = "ok"
  /\ CallDestroy
  /\ UNCHANGED <<wireVars, stateVars, statusVars, connVars, handlerVars,
                 senderVars, recvVars, updateVars, stopMsg, wasConn>>

StopTimeOut ==
  /\ stop = "poll"
  /\ stop' = "timedout"
  /\ CallDestroy
  /\ UNCHANGED <<wireVars, stateVars, statusVars, connVars, handlerVars,
                 senderVars, recvVars, updateVars, stopMsg, wasConn>>

\* Somebody else calls Destroy.
DestroyCall ==
  /\ destroy = "no"
  /\ destroy' = "called"
  /\ UNCHANGED <<wireVars, stateVars, statusVars, connVars, handlerVars,
                 senderVars, recvVars, updateVars, stopVars>>

\* destroyCheckinStream
DestroyStream ==
  /\ destroy = "called"
  /\ checkinConn' = FALSE
  /\ checkinDone' = None
  /\ doneClosed' = doneClosed \cup ({checkinDone} \ {None})
  /\ destroy' = "delete"
  /\ UNCHANGED <<wireVars, stateVars, statusVars, registered, handlerVars,
                 senderVars, recvVars, updateVars, stopVars>>

DestroyDelete ==
  /\ destroy = "delete"
  /\ registered' = FALSE
  /\ destroy' = "done"
  /\ UNCHANGED <<wireVars, stateVars, statusVars, checkinConn, checkinDone,
                 doneClosed, handlerVars, senderVars, recvVars, updateVars, stopVars>>

-----------------------------------------------------------------------------
HandlerStep(s)  == \/ HandlerFirst(s) \/ HandlerGiveUp(s)
                   \/ HandlerConnect(s) \/ HandlerUpdate(s) \/ HandlerOffer(s)
                   \/ HandlerReturn(s)
SenderStep(s)   == SenderPark(s) \/ SenderQuit(s) \/ SenderSend(s)
ReceiverStep(s) == ReceiverRecv(s) \/ ReceiverTry(s) \/ ReceiverFail(s)
UpdateStep(u)   == UpdateRead(u) \/ UpdateCommit(u) \/ UpdateTry(u)
Stop            == StopBegin \/ StopTry \/ StopPoll \/ StopTimeOut
Destroy         == DestroyCall \/ DestroyStream \/ DestroyDelete

ServerNext ==
  \/ \E s \in Stream : HandlerStep(s) \/ SenderStep(s) \/ ReceiverStep(s)
  \/ \E u \in Updater : UpdateStep(u)
  \/ Stop
  \/ Destroy
=============================================================================

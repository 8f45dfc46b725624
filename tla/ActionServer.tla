---------------------------- MODULE ActionServer ----------------------------
(***************************************************************************)
(* The agent's side of PerformAction for one registered application        *)
(* (elastic-agent/server/server.go): the callers of PerformAction, the     *)
(* handler of every Actions stream with its three goroutines, the part of  *)
(* the watchdog that expires actions, and the part of Destroy that cancels *)
(* them.  Goroutines interleave at every channel operation, at every       *)
(* acquisition of actionsLock and at every Send and Recv.                  *)
(*                                                                         *)
(* A definition whose name starts with Bad is what the next one would be   *)
(* with a plausible fault in it.  No specification uses it.                *)
(***************************************************************************)
EXTENDS ActionWire

CONSTANT PendingCap       \* capacity of the pendingActions channel (100)

ASSUME PendingCapAssumption == PendingCap \in Nat \ {0}

VARIABLES
  \* ApplicationState
  registered,      \* the application is in Server.apps
  actionsConn,     \* FALSE once the application is being destroyed
  actionsDone,     \* the stream whose actionsDone channel is set, or None
  doneClosed,      \* the streams whose actionsDone channel is closed
  actionsLock,     \* the stream whose sender holds the lock across Send, or None
  pendingActions,  \* the buffered channel
  sentActions,     \* the ids of the map
  \* callers of PerformAction
  call,            \* "idle", "pushing", "waiting" on resChan, "done"
  result,          \* what PerformAction returned
  answers,         \* how often the callback of the action was called
  expired,         \* the calls whose expiresOn has passed
  \* one Actions handler per stream
  handler,         \* "idle", "await", "found", "serving", "closed"
  first,           \* the goroutine that reads the first message
  sender, hand,    \* the sending goroutine and the action it holds
  receiver,        \* the receiving goroutine
  \* the watchdog and the one caller of Destroy
  watchdog, wdHand, wdNow,
  destroy

appVars     == <<registered, actionsConn, actionsDone, doneClosed, actionsLock>>
callVars    == <<call, result, answers>>
handlerVars == <<handler, first, sender, hand, receiver>>
wdVars      == <<watchdog, wdHand, wdNow>>
serverVars  == <<appVars, pendingActions, sentActions, callVars, expired,
                 handlerVars, wdVars, destroy>>

Result == {"none", "success", "failed", "timedout", "cancelled"}

ServerTypeOK ==
  /\ registered \in BOOLEAN /\ actionsConn \in BOOLEAN
  /\ actionsDone \in Stream \cup {None} /\ actionsLock \in Stream \cup {None}
  /\ doneClosed \in SUBSET Stream
  /\ pendingActions \in Seq(Call) /\ sentActions \in SUBSET Call
  /\ call \in [Call -> {"idle", "pushing", "waiting", "done"}]
  /\ result \in [Call -> Result] /\ answers \in [Call -> Nat]
  /\ expired \in SUBSET Call
  /\ handler \in [Stream -> {"idle", "await", "found", "serving", "closed"}]
  /\ first \in [Stream -> {"off", "recv", "offer", "done"}]
  /\ sender \in [Stream -> {"off", "select", "holding", "sent", "requeue", "done"}]
  /\ hand \in [Stream -> Call \cup {None}]
  /\ receiver \in [Stream -> {"off", "recv", "done"}]
  /\ watchdog \in {"idle", "drain", "putback"}
  /\ wdHand \in Seq(Call) /\ wdNow \in SUBSET Call
  /\ destroy \in {"no", "drain", "sent", "delete", "done"}

ServerInit ==
  /\ registered = TRUE /\ actionsConn = TRUE
  /\ actionsDone = None /\ doneClosed = {} /\ actionsLock = None
  /\ pendingActions = <<>> /\ sentActions = {}
  /\ call = [c \in Call |-> "idle"]
  /\ result = [c \in Call |-> "none"] /\ answers = [c \in Call |-> 0]
  /\ expired = {}
  /\ handler = [s \in Stream |-> "idle"] /\ first = [s \in Stream |-> "off"]
  /\ sender = [s \in Stream |-> "off"] /\ hand = [s \in Stream |-> None]
  /\ receiver = [s \in Stream |-> "off"]
  /\ watchdog = "idle" /\ wdHand = <<>> /\ wdNow = {}
  /\ destroy = "no"

LockFree == actionsLock = None

\* The callbacks of the calls C: resChan is unbuffered, so a call can be
\* answered once; a second answer would block whoever gives it for ever.
Callback(C, r) ==
  /\ call'    = [c \in Call |-> IF c \in C THEN "done" ELSE call[c]]
  /\ result'  = [c \in Call |-> IF c \in C THEN r ELSE result[c]]
  /\ answers' = [c \in Call |-> IF c \in C THEN answers[c] + 1 ELSE answers[c]]

BadForget(C) == UNCHANGED sentActions

\* delete(sentActions, id)
Forget(C) == sentActions' = sentActions \ C

Pushed(q, c) == Len(q) < PendingCap /\ pendingActions' = Append(q, c)

-----------------------------------------------------------------------------
(* PerformAction.  actionsConn is read without the lock, and the push that *)
(* follows is a separate step that blocks while the channel is full.       *)

PerformActionBegin(c) ==
  /\ call[c] = "idle"
  /\ IF actionsConn
       THEN /\ call' = [call EXCEPT ![c] = "pushing"]
            /\ UNCHANGED result
       ELSE /\ call' = [call EXCEPT ![c] = "done"]
            /\ result' = [result EXCEPT ![c] = "cancelled"]
  /\ UNCHANGED <<wireVars, appVars, pendingActions, sentActions, answers,
                 expired, handlerVars, wdVars, destroy>>

PerformActionPush(c) ==
  /\ call[c] = "pushing"
  /\ Pushed(pendingActions, c)
  /\ call' = [call EXCEPT ![c] = "waiting"]
  /\ UNCHANGED <<wireVars, appVars, sentActions, result, answers, expired,
                 handlerVars, wdVars, destroy>>

\* Time passes expiresOn, which is computed when the action is pushed.
Expire(c) ==
  /\ call[c] \in {"pushing", "waiting"} /\ c \notin expired
  /\ expired' = expired \cup {c}
  /\ UNCHANGED <<wireVars, appVars, pendingActions, sentActions, callVars,
                 handlerVars, wdVars, destroy>>

-----------------------------------------------------------------------------
(* Actions: the handler waits at most InitialCheckinTimeout for the first  *)
(* message, which a goroutine of its own reads and offers.                 *)

HandlerStart(s) ==
  /\ handler[s] = "idle" /\ link[s] # "none"
  /\ handler' = [handler EXCEPT ![s] = "await"]
  /\ first'   = [first EXCEPT ![s] = "recv"]
  /\ UNCHANGED <<wireVars, appVars, pendingActions, sentActions, callVars,
                 expired, sender, hand, receiver, wdVars, destroy>>

FirstRecv(s) ==
  /\ first[s] = "recv"
  /\ \/ /\ up[s] # <<>>
        /\ up' = [up EXCEPT ![s] = Tail(@)]
        /\ first' = [first EXCEPT ![s] = "offer"]
     \/ /\ Fails(s)
        /\ first' = [first EXCEPT ![s] = "done"]
        /\ UNCHANGED up
  /\ UNCHANGED <<link, down, appVars, pendingActions, sentActions, callVars,
                 expired, handler, sender, hand, receiver, wdVars, destroy>>

\* The offered message is taken and its token looked up.
HandlerFirst(s) ==
  /\ handler[s] = "await" /\ first[s] = "offer"
  /\ first' = [first EXCEPT ![s] = "done"]
  /\ IF registered
       THEN handler' = [handler EXCEPT ![s] = "found"] /\ UNCHANGED link
       ELSE handler' = [handler EXCEPT ![s] = "closed"] /\ Close(s)
  /\ UNCHANGED <<up, down, appVars, pendingActions, sentActions, callVars,
                 expired, sender, hand, receiver, wdVars, destroy>>

\* The five seconds are over, or the first Recv failed: the handler returns,
\* whatever the goroutine of FirstRecv is doing.
HandlerGiveUp(s) ==
  /\ handler[s] = "await"
  /\ handler' = [handler EXCEPT ![s] = "closed"]
  /\ Close(s)
  /\ UNCHANGED <<up, down, appVars, pendingActions, sentActions, callVars,
                 expired, first, sender, hand, receiver, wdVars, destroy>>

BadMayConnect == actionsConn

MayConnect == actionsDone = None /\ actionsConn

\* Under actionsLock, the token having been looked up without it.
HandlerConnect(s) ==
  /\ handler[s] = "found" /\ LockFree
  /\ IF MayConnect
       THEN /\ actionsDone' = s
            /\ handler'  = [handler EXCEPT ![s] = "serving"]
            /\ sender'   = [sender EXCEPT ![s] = "select"]
            /\ receiver' = [receiver EXCEPT ![s] = "recv"]
            /\ UNCHANGED link
       ELSE /\ handler' = [handler EXCEPT ![s] = "closed"]
            /\ Close(s)
            /\ UNCHANGED <<actionsDone, sender, receiver>>
  /\ UNCHANGED <<up, down, registered, actionsConn, doneClosed, actionsLock,
                 pendingActions, sentActions, callVars, expired, first, hand,
                 wdVars, destroy>>

\* The handler returns once its sender has: the deferred function clears
\* actionsDone under the lock.
HandlerReturn(s) ==
  /\ handler[s] = "serving" /\ sender[s] = "done" /\ LockFree
  /\ actionsDone' = None
  /\ handler' = [handler EXCEPT ![s] = "closed"]
  /\ Close(s)
  /\ UNCHANGED <<up, down, registered, actionsConn, doneClosed, actionsLock,
                 pendingActions, sentActions, callVars, expired, first, sender,
                 hand, receiver, wdVars, destroy>>

-----------------------------------------------------------------------------
(* The sender.  The lock is held from Send until the id is in sentActions. *)

BadStreamOver(s) == s \in doneClosed

\* actionsDone or recvDone is closed.
StreamOver(s) == s \in doneClosed \/ receiver[s] = "done"

SenderQuit(s) ==
  /\ sender[s] = "select" /\ StreamOver(s)
  /\ sender' = [sender EXCEPT ![s] = "done"]
  /\ UNCHANGED <<wireVars, appVars, pendingActions, sentActions, callVars,
                 expired, handler, first, hand, receiver, wdVars, destroy>>

\* select picks any ready case, so a pending action may be taken although
\* the stream is over.
SenderTake(s) ==
  /\ sender[s] = "select" /\ pendingActions # <<>>
  /\ pendingActions' = Tail(pendingActions)
  /\ IF Head(pendingActions) \in expired
       THEN /\ Callback({Head(pendingActions)}, "timedout")
            /\ UNCHANGED <<sender, hand>>
       ELSE /\ hand' = [hand EXCEPT ![s] = Head(pendingActions)]
            /\ sender' = [sender EXCEPT ![s] = "holding"]
            /\ UNCHANGED callVars
  /\ UNCHANGED <<wireVars, appVars, sentActions, expired, handler, first,
                 receiver, wdVars, destroy>>

BadTakeLock(s) == UNCHANGED actionsLock

TakeLock(s) == actionsLock' = s

BadSenderSend(s) ==
  /\ sender[s] = "holding" /\ LockFree
  /\ SendDown(s, hand[s])
  /\ sender' = [sender EXCEPT ![s] = "requeue"]
  /\ UNCHANGED <<appVars, pendingActions, sentActions, callVars, expired,
                 handler, first, hand, receiver, wdVars, destroy>>

SenderSend(s) ==
  /\ sender[s] = "holding" /\ LockFree
  /\ SendDown(s, hand[s])
  /\ TakeLock(s)
  /\ sender' = [sender EXCEPT ![s] = "sent"]
  /\ UNCHANGED <<registered, actionsConn, actionsDone, doneClosed,
                 pendingActions, sentActions, callVars, expired, handler,
                 first, hand, receiver, wdVars, destroy>>

BadSenderSendFails(s) ==
  /\ sender[s] = "holding" /\ LockFree
  /\ Fails(s)
  /\ sentActions' = sentActions \cup {hand[s]}
  /\ sender' = [sender EXCEPT ![s] = "requeue"]
  /\ UNCHANGED <<wireVars, appVars, pendingActions, callVars, expired, handler,
                 first, hand, receiver, wdVars, destroy>>

SenderSendFails(s) ==
  /\ sender[s] = "holding" /\ LockFree
  /\ Fails(s)
  /\ sender' = [sender EXCEPT ![s] = "requeue"]
  /\ UNCHANGED <<wireVars, appVars, pendingActions, sentActions, callVars,
                 expired, handler, first, hand, receiver, wdVars, destroy>>

SenderRecord(s) ==
  /\ sender[s] = "sent"
  /\ sentActions' = sentActions \cup {hand[s]}
  /\ actionsLock' = None
  /\ hand' = [hand EXCEPT ![s] = None]
  /\ sender' = [sender EXCEPT ![s] = "select"]
  /\ UNCHANGED <<wireVars, registered, actionsConn, actionsDone, doneClosed,
                 pendingActions, callVars, expired, handler, first, receiver,
                 wdVars, destroy>>

BadSenderRequeue(s) ==
  /\ sender[s] = "requeue"
  /\ hand' = [hand EXCEPT ![s] = None]
  /\ sender' = [sender EXCEPT ![s] = "done"]
  /\ UNCHANGED <<wireVars, appVars, pendingActions, sentActions, callVars, expired,
                 handler, first, receiver, wdVars, destroy>>

\* The action goes back to the channel, which may be full, and the sender ends.
SenderRequeue(s) ==
  /\ sender[s] = "requeue"
  /\ Pushed(pendingActions, hand[s])
  /\ hand' = [hand EXCEPT ![s] = None]
  /\ sender' = [sender EXCEPT ![s] = "done"]
  /\ UNCHANGED <<wireVars, appVars, sentActions, callVars, expired, handler,
                 first, receiver, wdVars, destroy>>

-----------------------------------------------------------------------------
(* The receiver: it looks an answer up under the lock and forgets the ones *)
(* it does not know.  It may outlive its handler.                          *)

ReceiverRecv(s) ==
  /\ receiver[s] = "recv" /\ up[s] # <<>> /\ LockFree
  /\ up' = [up EXCEPT ![s] = Tail(@)]
  /\ LET m     == Head(up[s])
         known == {m.call} \cap sentActions
     IN  /\ Forget(known)
         /\ Callback(known, m.status)
  /\ UNCHANGED <<link, down, appVars, pendingActions, expired, handlerVars,
                 wdVars, destroy>>

\* Recv fails: recvDone is closed.  What was not read is gone.
ReceiverFail(s) ==
  /\ receiver[s] = "recv" /\ Fails(s)
  /\ up' = [up EXCEPT ![s] = <<>>]
  /\ receiver' = [receiver EXCEPT ![s] = "done"]
  /\ UNCHANGED <<link, down, appVars, pendingActions, sentActions, callVars,
                 expired, handler, first, sender, hand, wdVars, destroy>>

-----------------------------------------------------------------------------
(* flushExpiredActions, called by the watchdog for every application that  *)
(* is registered: drain the channel, answer the expired ones and put the   *)
(* others back, then expire sent ones.                                     *)

FlushBegin ==
  /\ watchdog = "idle" /\ registered
  /\ watchdog' = "drain" /\ wdNow' = expired
  /\ UNCHANGED <<wireVars, appVars, pendingActions, sentActions, callVars,
                 expired, handlerVars, wdHand, destroy>>

FlushDrain ==
  /\ watchdog = "drain"
  /\ IF pendingActions = <<>>
       THEN watchdog' = "putback" /\ UNCHANGED <<wdHand, pendingActions>>
       ELSE /\ wdHand' = Append(wdHand, Head(pendingActions))
            /\ pendingActions' = Tail(pendingActions)
            /\ UNCHANGED watchdog
  /\ UNCHANGED <<wireVars, appVars, sentActions, callVars, expired,
                 handlerVars, wdNow, destroy>>

FlushTimeOut ==
  /\ watchdog = "putback" /\ wdHand # <<>> /\ Head(wdHand) \in wdNow
  /\ Callback({Head(wdHand)}, "timedout")
  /\ wdHand' = Tail(wdHand)
  /\ UNCHANGED <<wireVars, appVars, pendingActions, sentActions, expired,
                 handlerVars, watchdog, wdNow, destroy>>

FlushPutBack ==
  /\ watchdog = "putback" /\ wdHand # <<>> /\ Head(wdHand) \notin wdNow
  /\ Pushed(pendingActions, Head(wdHand))
  /\ wdHand' = Tail(wdHand)
  /\ UNCHANGED <<wireVars, appVars, sentActions, callVars, expired,
                 handlerVars, watchdog, wdNow, destroy>>

FlushSent ==
  /\ watchdog = "putback" /\ wdHand = <<>> /\ LockFree
  /\ Forget(sentActions \cap wdNow)
  /\ Callback(sentActions \cap wdNow, "timedout")
  /\ watchdog' = "idle" /\ wdNow' = {}
  /\ UNCHANGED <<wireVars, appVars, pendingActions, expired, handlerVars,
                 wdHand, destroy>>

-----------------------------------------------------------------------------
(* Destroy: destroyActionsStream with its cancelActions, then apps.Delete. *)

DestroyBegin ==
  /\ destroy = "no" /\ LockFree
  /\ actionsConn' = FALSE
  /\ actionsDone' = None
  /\ doneClosed' = doneClosed \cup ({actionsDone} \ {None})
  /\ destroy' = "drain"
  /\ UNCHANGED <<wireVars, registered, actionsLock, pendingActions, sentActions,
                 callVars, expired, handlerVars, wdVars>>

DestroyDrain ==
  /\ destroy = "drain"
  /\ IF pendingActions = <<>>
       THEN destroy' = "sent" /\ UNCHANGED <<pendingActions, callVars>>
       ELSE /\ Callback({Head(pendingActions)}, "cancelled")
            /\ pendingActions' = Tail(pendingActions)
            /\ UNCHANGED destroy
  /\ UNCHANGED <<wireVars, appVars, sentActions, expired, handlerVars, wdVars>>

DestroySent ==
  /\ destroy = "sent" /\ LockFree
  /\ Callback(sentActions, "cancelled")
  /\ Forget(sentActions)
  /\ destroy' = "delete"
  /\ UNCHANGED <<wireVars, appVars, pendingActions, expired, handlerVars, wdVars>>

DestroyDelete ==
  /\ destroy = "delete"
  /\ registered' = FALSE
  /\ destroy' = "done"
  /\ UNCHANGED <<wireVars, actionsConn, actionsDone, doneClosed, actionsLock,
                 pendingActions, sentActions, callVars, expired, handlerVars, wdVars>>

-----------------------------------------------------------------------------
CallerStep(c)   == PerformActionBegin(c) \/ PerformActionPush(c) \/ Expire(c)
HandlerStep(s)  == \/ HandlerStart(s) \/ HandlerFirst(s) \/ HandlerGiveUp(s)
                   \/ HandlerConnect(s) \/ HandlerReturn(s)
SenderStep(s)   == \/ SenderQuit(s) \/ SenderTake(s) \/ SenderSend(s)
                   \/ SenderSendFails(s) \/ SenderRecord(s) \/ SenderRequeue(s)
ReceiverStep(s) == ReceiverRecv(s) \/ ReceiverFail(s)
Flush           == \/ FlushBegin \/ FlushDrain \/ FlushTimeOut \/ FlushPutBack
                   \/ FlushSent
Destroy         == DestroyBegin \/ DestroyDrain \/ DestroySent \/ DestroyDelete

ServerNext ==
  \/ \E c \in Call : CallerStep(c)
  \/ \E s \in Stream : \/ HandlerStep(s) \/ FirstRecv(s)
                       \/ SenderStep(s) \/ ReceiverStep(s)
  \/ Flush
  \/ Destroy

\* The server alone: whatever the client and the network do to the streams.
ServerSpec == ServerInit /\ [][ServerNext]_serverVars

-----------------------------------------------------------------------------
(* Properties of the server alone.                                         *)

NoRepeat(q) == \A i, j \in DOMAIN q : q[i] = q[j] => i = j
Elements(q) == {q[i] : i \in DOMAIN q}
InHand      == {hand[s] : s \in Stream} \ {None}

\* A call that waits on resChan is in exactly one of the places an action can
\* be: the channel, the hand of one sender, sentActions or the slice the
\* watchdog drained into; a call that was answered is in none, so that nobody
\* is left who could answer it again.  (server.go 448-476, 499, 774-826)
HeldOnce ==
  /\ NoRepeat(pendingActions) /\ NoRepeat(wdHand)
  /\ \A s, t \in Stream : hand[s] = hand[t] /\ hand[s] # None => s = t
  /\ Elements(pendingActions) \cap Elements(wdHand) = {}
  /\ sentActions \cap (Elements(pendingActions) \cup Elements(wdHand)) = {}
  /\ InHand \cap (Elements(pendingActions) \cup Elements(wdHand) \cup sentActions) = {}
  /\ \A c \in Call : call[c] = "waiting" <=>
       c \in Elements(pendingActions) \cup Elements(wdHand) \cup sentActions \cup InHand

\* No callback is called twice, by whoever races to answer: the receiver of
\* any stream, a sender, the watchdog or Destroy.  A second call would block
\* on resChan for ever, three of the callers with actionsLock held or as the
\* only watchdog there is.  (server.go 635-640, 797-802, 820-824)
AnsweredOnce == \A c \in Call : answers[c] <= 1

\* An application has one Actions stream: at most one handler serves, and
\* actionsDone is the channel of that handler for as long as it is set, so
\* that Destroy closes the channel its sender listens to.  (server.go 413-434)
OneStream ==
  /\ \A s, t \in Stream : handler[s] = "serving" /\ handler[t] = "serving" => s = t
  /\ actionsDone # None => handler[actionsDone] = "serving"
  /\ \A s \in Stream : handler[s] = "serving" => s = actionsDone \/ s \in doneClosed
=============================================================================

------------------------------ MODULE Actions -------------------------------
(***************************************************************************)
(* The action protocol of one application: the server, its client and the  *)
(* network between them, and what the three promise together.              *)
(***************************************************************************)
EXTENDS ActionServer, ActionClient, FiniteSets

vars == <<wireVars, serverVars, clientVars>>

Init == WireInit /\ ServerInit /\ ClientInit

Next ==
  \/ ServerNext /\ UNCHANGED clientVars
  \/ ClientNext /\ UNCHANGED serverVars
  \/ \E s \in Stream : NetBreak(s) /\ UNCHANGED <<serverVars, clientVars>>

Spec == Init /\ [][Next]_vars

TypeOK == WireTypeOK /\ ServerTypeOK /\ ClientTypeOK

-----------------------------------------------------------------------------
(* Safety.                                                                 *)

\* No answer is dropped as "unknown" while its caller waits: the sender holds
\* actionsLock from Send until the action is in sentActions, so the answer
\* cannot overtake the entry, and nothing but an answer takes the entry away.
\* (server.go 457-476, 490-498)
NoAnswerDropped ==
  [][\A s \in Stream :
       ReceiverRecv(s) /\ Head(up[s]).call \in Call
         => call'[Head(up[s]).call] = "done"]_vars

\* An action is executed at most once, although a send that failed is retried
\* on the next stream and results are kept across streams.
\* (server.go 463-471, client.go 405-437)
ExecutedOnce == \A c \in Call : execs[c] <= 1

-----------------------------------------------------------------------------
(* What the protocol promises its callers.                                 *)

Promise == INSTANCE ActionCall WITH
  phase    <- [c \in Call |-> CASE call[c] = "idle" -> "idle"
                                [] call[c] \in {"pushing", "waiting"} -> "called"
                                [] call[c] = "done" -> "returned"],
  outcome  <- result,
  executed <- execs

\* The two ends, the channels and the reconnections between them implement
\* ActionCall: one return, at most one execution, no invented answer.
KeepsPromise == Promise!Spec

-----------------------------------------------------------------------------
(* Progress.                                                               *)

ServerStep(A) == A /\ UNCHANGED clientVars
ClientStep(A) == A /\ UNCHANGED serverVars

\* Goroutines that can run do run, locks and channels are granted, an expiry
\* time and the handler's five seconds pass, the watchdog's timer fires.
\* Nothing says that a client that executes an action ever answers, dials
\* again or restarts.
Running ==
  /\ \A s \in Stream : /\ WF_vars(ServerStep(HandlerStep(s)))
                       /\ WF_vars(ServerStep(FirstRecv(s)))
                       /\ WF_vars(ServerStep(SenderStep(s)))
                       /\ WF_vars(ServerStep(ReceiverStep(s)))
  /\ \A c \in Call : WF_vars(ServerStep(Expire(c)))
  /\ WF_vars(ServerStep(Flush))
  /\ WF_vars(ClientStep(LoopEnd))
  /\ WF_vars(ClientStep(ReceivingStep))
  /\ WF_vars(ClientStep(SendingStep))

\* Destroy, once called, and the callers of PerformAction go on as well.
CallersRun ==
  /\ \A c \in Call : WF_vars(ServerStep(PerformActionPush(c)))
  /\ WF_vars(ServerStep(destroy # "no" /\ Destroy))

DestroyedRunning == Spec /\ Running /\ CallersRun

\* Nobody destroys the application.
KeptRunning == Init /\ [][Next /\ destroy' = "no"]_vars /\ Running

\* Every PerformAction returns, whatever the client and the network do: the
\* watchdog finds the action wherever it is, or whoever holds it puts it back
\* where the watchdog will.  (server.go 616-642, 774-804)
EveryCallReturns == \A c \in Call : call[c] = "waiting" ~> call[c] = "done"

\* A stream that is broken lets go of the application, so that the client is
\* not told "already connected" for ever.  (server.go 413-434, 463-471)
BrokenStreamLetsGo ==
  \A s \in Stream : handler[s] = "serving" /\ link[s] = "broken" ~> handler[s] = "closed"

\* The client leaves a stream that is broken, having put back the response it
\* could not send.  (client.go 344-346, 465-479)
ClientLeavesBrokenStream ==
  \A s \in Stream : cstream = s /\ link[s] = "broken" ~> cstream # s

\* "go func will not be leaked" (server.go 377-379): once the handler has
\* returned, the goroutine that reads the first message ends.
FirstReaderEnds == \A s \in Stream : handler[s] = "closed" ~> first[s] = "done"
=============================================================================

------------------------------ MODULE Checkin -------------------------------
(***************************************************************************)
(* The check-in protocol of one application: how its configuration and its *)
(* being stopped get from the agent to the application and back.           *)
(***************************************************************************)
EXTENDS CheckinServer, CheckinClient, FiniteSets

vars == <<wireVars, serverVars, clientVars>>

Init == WireInit /\ ServerInit /\ ClientInit

ServerStep(A) == A /\ UNCHANGED clientVars
ClientStep(A) == A /\ UNCHANGED serverVars
Break         == \E s \in Stream : NetBreak(s) /\ UNCHANGED <<serverVars, clientVars>>

Next == \/ ServerNext /\ UNCHANGED clientVars
        \/ ClientNext /\ UNCHANGED serverVars
        \/ Break

Spec == Init /\ [][Next]_vars

\* What the agent may do to an application, in three parts: it is updated,
\* destroyed, or stopped while it has its first stream.  The rest are the bounds
\* of a part with updates: one message on the wire down, and once a second
\* update has begun, one stream at a time that is served.
Updates == {u \in Updater : update[u] # "idle"}
Updated == Updates # {}
Overlap == Cardinality(Updates) > 1

Served == {s \in Stream : \/ handler[s] \notin {"idle", "closed"}
                          \/ receiver[s] \notin {"off", "done"}}

OnePart ==
  /\ Updated => /\ destroy = "no" /\ stop = "no"
                /\ \A s \in Stream : Len(down[s]) <= 1
  /\ Overlap => Cardinality(Served) <= 1
  /\ stop # "no" => /\ destroy = "no"
                    /\ \A s, t \in Stream : link[s] # "none" /\ link[t] # "none" => s = t

\* Streams break and processes end before a second update begins; clients
\* reconnect before and after.
Parts ==
  Init /\ [][/\ IF Overlap THEN ServerStep(ServerNext) \/ ClientStep(ClientRun) ELSE Next
             /\ OnePart']_vars

\* One client process that never ends, and that nobody stops.
OneProcess == Init /\ [][/\ ServerStep(ServerNext) \/ ClientStep(ClientRun) \/ Break
                         /\ stop' = "no" /\ destroy' = "no"]_vars

TypeOK == WireTypeOK /\ ServerTypeOK /\ ClientTypeOK

-----------------------------------------------------------------------------

\* An application has one check-in stream: one handler past HandlerConnect
\* and one sender at a time, so that one goroutine takes from
\* pendingExpected, and checkinDone is the channel it listens to.
\* (server.go 292-320)
OneStream ==
  /\ \A s, t \in Stream :
       {handler[s], handler[t]} \subseteq {"first", "offer", "serving"} => s = t
  /\ \A s, t \in Stream :
       {sender[s], sender[t]} \subseteq {"loop", "select", "sending"} => s = t
  /\ checkinDone # None => handler[checkinDone] \in {"first", "offer", "serving"}

\* The client has applied the index that the server expects.
InStep == crecv # "config" /\ cfgIdx = expectedConfigIdx

\* An index stands for one configuration: a client that has applied the index
\* the server expects runs with the configuration the server expects.
Agree == InStep => cfg = expectedConfig

\* The same, unless a forced reload took the index back below the expected one
\* and it has not passed that one since: two updates, however they interleave,
\* never share an index, and no other reload gives away an index that was given.
\* (server.go 306-310, 598-611, 722-738; client.go 241-249)
Agreement == InStep /\ expectedConfigIdx > spent => cfg = expectedConfig

\* Whatever is lost, late or overtaken, and however often either end begins
\* again: an application runs with what was wanted of it under the index it
\* was given, and stops taking configurations when it is told to stop.
\* (server.go 306-310, 598-611, 722-738; client.go 222-249)
Told == INSTANCE Instructions
          WITH Configs <- Config, First <- InitConfig, Nothing <- None,
               stopping <- expected = "stopping", has <- cfgIdx,
               given <- newCfg, runs <- cfg

Obeys == Told!Spec

\* A process never goes back to an earlier configuration: what a handler offers
\* in answer to the first check-in was made before the updates that overtake it.
\* (server.go 598-612, 722-753)
NeverBack == [][cstream' # None => cfgIdx' >= cfgIdx]_vars

\* "Current index of the applied configuration" (control.proto:50): a
\* check-in of the process that runs names a configuration its component has.
IndexMeansApplied ==
  cstream # None =>
    \A i \in DOMAIN up[cstream] : up[cstream][i].idx = cfgIdx => crecv # "config"

\* Stop returns nil when "client was connected then disconnected on stop"
\* (server.go:567): a process that has been given a configuration by this
\* server was told to stop by then.
StoppedWasTold == stop = "ok" /\ cfgIdx > 0 => told

-----------------------------------------------------------------------------
(* Progress.                                                               *)

\* The goroutines of both ends run; a client whose last check-in has been
\* read sends the next one after 30 seconds; OnConfig returns.  A handler's
\* five seconds need not pass, nor Stop's timeout.
Running ==
  /\ \A s \in Stream :
       /\ WF_vars(ServerStep(HandlerFirst(s)))
       /\ WF_vars(ServerStep(HandlerConnect(s) \/ HandlerUpdate(s) \/ HandlerOffer(s)))
       /\ WF_vars(ServerStep(HandlerReturn(s)))
       /\ WF_vars(ServerStep(SenderStep(s)))
       /\ WF_vars(ServerStep(ReceiverStep(s)))
  /\ \A u \in Updater : WF_vars(ServerStep(UpdateTry(u)))
  /\ WF_vars(ServerStep(StopTry))
  /\ WF_vars(ClientStep(ReceivingStep))
  /\ WF_vars(ClientStep(SendingStep))

\* The client is a service that was configured by an earlier agent, and its
\* index is one this server has a configuration of its own for.
ServiceInit ==
  /\ WireInit /\ ServerInit
  /\ cstream = None /\ crecv = "off" /\ csend = "off" /\ lastSent = None
  /\ told = FALSE /\ observed = "running"
  /\ \/ cfgIdx = 0 /\ newCfg = None /\ cfg = None
     \/ \E c \in Config : cfgIdx = 1 /\ newCfg = c /\ cfg = c

\* Nobody destroys the application, which is updated or stopped.
Service ==
  /\ ServiceInit /\ Running
  /\ [][Next /\ destroy' = "no" /\ (stop' = "no" \/ ~Updated')]_vars

KeptRunning == Init /\ [][Next /\ stop' = "no" /\ destroy' = "no"]_vars /\ Running

Connected ==
  /\ cstream # None /\ crecv # "done" /\ csend = "run"
  /\ link[cstream] = "open" /\ handler[cstream] # "closed"

\* A client that stays connected and is not stopped comes to run with the
\* configuration that the server expects, although sendExpectedState drops what it cannot hand over
\* at once: every later check-in is compared with what is expected.
\* (server.go 308-310, 722-742, 749-759; client.go 310-323)
Kept == Connected /\ stop = "no"

Converges == Kept ~> ~Kept \/ cfg = expectedConfig

\* A client that stays connected is told to stop, whatever was dropped, as
\* long as Stop waits and nobody calls Destroy.  (server.go 547-552, 723-729)
Stopping == Connected /\ stop = "poll" /\ destroy = "no"

StopReaches == Stopping ~> ~Stopping \/ told

\* A stream that is broken lets go of the application: "update status after
\* the pendingExpected channel has a reader" (server.go:350), so the handler
\* does not wait for a reader for ever.
BrokenStreamLetsGo ==
  \A s \in Stream :
    link[s] = "broken" /\ handler[s] \in {"first", "offer", "serving"}
      ~> handler[s] = "closed"
=============================================================================

------------------------------- MODULE Bench --------------------------------
(***************************************************************************)
(* The managers of the agent (elastic-agent/agent).  The benchmarks run    *)
(* one after the other in one process: a manager makes a server and a      *)
(* chain quick - host - end, waits for the first batch to reach the end    *)
(* and returns.  In mode "process" the manager is that of the run command: *)
(* its nodes are processes, and it returns when it is interrupted.         *)
(* In mode "direct" a component calls the next one, in mode "inside" it    *)
(* does so through gRPC.  What a node's client and runner do is the matter *)
(* of Checkin and Nodes; here a client that is connected gets its          *)
(* configuration some time, and OnConfig is as many steps as others see.   *)
(***************************************************************************)
EXTENDS AgentServer

CONSTANT Modes      \* of "direct", "inside" and "process", those that are tried

ASSUME BenchAssumption == Last = 3 /\ Modes \subseteq {"direct", "inside", "process"}

Quick == 1
Host == 2
End == 3

VARIABLES
    mode,       \* the manager of every session
    overlap,    \* the sessions that began while another server was closing
    node,       \* where the client and the runner of a node are
    recv,       \* the call of EndComponent.Receive
    batch,      \* the batch that Receive was called with
    got         \* what Done has returned

benchVars == <<mode, overlap, node, recv, batch, got>>
vars == <<serverVars, benchVars>>

(***************************************************************************)
(* "opened": the receiver is, the sender is not; "dialled": both, and the  *)
(* component does not run yet.  "waiting": quick has sent its batch.       *)
(***************************************************************************)
Step == {"none", "dialing", "connected", "opened", "dialled", "sending", "waiting",
         "ready", "failed", "over"}

(* "bare" events went through a host processor that had not run yet. *)
Batch == {"none", "bare", "hosted"}

TypeOK ==
    /\ ServerTypes
    /\ mode \in [Session -> Modes]
    /\ overlap \in SUBSET Session
    /\ node \in [Session -> [Node -> Step]]
    /\ recv \in [Session -> {"none", "offer", "signalled", "stored"}]
    /\ batch \in [Session -> Batch]
    /\ got \in [Session -> Batch]

Init ==
    /\ ServerInit
    /\ mode \in [Session -> Modes]
    /\ overlap = {}
    /\ node = [k \in Session |-> [n \in Node |-> "none"]]
    /\ recv = [k \in Session |-> "none"]
    /\ batch = [k \in Session |-> "none"]
    /\ got = [k \in Session |-> "none"]

(* A server that has not let go of what it had. *)
Lingers(j) == j \in listening \/ closing[j] \notin {"off", "over"}

(***************************************************************************)
(* The benchmark makes a manager and calls Run; the one before has         *)
(* returned.  The process of the run command ends with its manager.        *)
(***************************************************************************)
Begin(k) ==
    /\ main[k] = "idle"
    /\ k > 1 => main[k - 1] \in Over /\ mode[k - 1] # "process"
    /\ Goto(k, "stat")
    /\ overlap' = IF \E j \in Session : Lingers(j) THEN overlap \cup {k} ELSE overlap
    /\ UNCHANGED <<file, listening, at, apps, serve, watchdog, closing, crashed,
                   mode, node, recv, batch, got>>

(***************************************************************************)
(* start: the node is registered, and its runner runs in a goroutine.  In  *)
(* mode "process" it is a process, which is the matter of Nodes.           *)
(***************************************************************************)
Start(k) ==
    /\ RegisterStore(k, IF mode[k] = "process" THEN "parked" ELSE "done")
    /\ node' = [node EXCEPT ![k][at[k]] = IF mode[k] = "process" THEN @ ELSE "dialing"]
    /\ UNCHANGED <<mode, overlap, recv, batch, got>>

(***************************************************************************)
(* SIGINT or SIGTERM, at any time.  The manager hears of it when the chain *)
(* is started, the goroutine of the server at once.                        *)
(***************************************************************************)
Interrupt(k) ==
    /\ main[k] = "parked"
    /\ Goto(k, "returned")
    /\ UNCHANGED <<file, listening, at, apps, serve, watchdog, closing, crashed, benchVars>>

InterruptServer(k) ==
    /\ mode[k] = "process"
    /\ ToClosing(k, "waiting", "closed")
    /\ UNCHANGED <<file, listening, serve, benchVars>>

(***************************************************************************)
(* The run command is over when its manager has returned, and the process  *)
(* with it, whatever its goroutines were at; that of the benchmarks can be *)
(* after the last of them.  The socket's file stays if it is there.        *)
(***************************************************************************)
Exit(k) ==
    /\ main[k] \in Over
    /\ mode[k] = "process" \/ k = Sessions
    /\ crashed' = "exit"
    /\ UNCHANGED <<file, listening, main, at, apps, serve, watchdog, closing, benchVars>>
-----------------------------------------------------------------------------
(* Clients and runners, as long as the context of the session lives. *)

To(k, n, from, to) ==
    /\ ~ Cancelled(k) /\ node[k][n] = from
    /\ node' = [node EXCEPT ![k][n] = to]
    /\ UNCHANGED <<serverVars, mode, overlap, recv, batch, got>>

Connect(k, n) == Reaches(k, n) /\ To(k, n, "dialing", "connected")

(* OnConfig of a chain whose components call each other. *)
ConfigDirect(k, n) ==
    /\ mode[k] = "direct"
    /\ To(k, n, "connected", IF n = Quick THEN "sending" ELSE "ready")

(* OnConfig: the receiver first, then the sender, then the component. *)
OpenReceiver(k, n) == mode[k] = "inside" /\ n # Quick /\ To(k, n, "connected", "opened")

RunSender(k, n) ==
    /\ mode[k] = "inside" /\ n # End
    /\ To(k, n, IF n = Quick THEN "connected" ELSE "opened", "dialled")

RunComponent(k, n) ==
    /\ mode[k] = "inside"
    /\ To(k, n, IF n = End THEN "opened" ELSE "dialled", IF n = Quick THEN "sending" ELSE "ready")

Listens(k, n) == node[k][n] \in {"opened", "dialled", "ready"}

(***************************************************************************)
(* quick's batch passes the host processor and is Received at the end.     *)
(***************************************************************************)
Send(k) ==
    /\ ~ Cancelled(k) /\ node[k][Quick] = "sending"
    /\ mode[k] = "inside" => node[k][Host] \in {"dialled", "ready"} /\ Listens(k, End)
    /\ node' = [node EXCEPT ![k][Quick] = "waiting"]
    /\ batch' = [batch EXCEPT ![k] = IF node[k][Host] = "ready" THEN "hosted" ELSE "bare"]
    /\ recv' = [recv EXCEPT ![k] = "offer"]
    /\ UNCHANGED <<serverVars, mode, overlap, got>>

(***************************************************************************)
(* An endpoint of the chain is not there, or a connection is not there     *)
(* yet: quick's Run returns the error, and the runner is run again.        *)
(***************************************************************************)
SendFails(k) == mode[k] = "inside" /\ To(k, Quick, "sending", "failed")

RunAgain(k) == To(k, Quick, "failed", "dialing")

(* The host processor is called before its sender is dialled: it has no client. *)
SendEarly(k) ==
    /\ mode[k] = "inside" /\ ~ Cancelled(k)
    /\ node[k][Quick] = "sending" /\ node[k][Host] = "opened"
    /\ crashed' = "early"
    /\ UNCHANGED <<file, listening, main, at, apps, serve, watchdog, closing, benchVars>>

Sent(k) == recv[k] = "stored" /\ To(k, Quick, "waiting", "ready")
-----------------------------------------------------------------------------
(***************************************************************************)
(* EndComponent: Done against Receive, which sends to e.done, sets it to   *)
(* nil and stores the events.                                              *)
(***************************************************************************)
HasDone(k) == recv[k] \in {"none", "offer", "signalled"}
Events(k) == IF recv[k] = "stored" THEN batch[k] ELSE "none"

BadDoneReads(k) ==
    /\ main[k] = "done"
    /\ Goto(k, IF HasDone(k) THEN "fetch" ELSE "await")
    /\ UNCHANGED <<file, listening, at, apps, serve, watchdog, closing, crashed, benchVars>>

(* d := e.done.  From a channel that is nil Done would wait for ever. *)
DoneReads(k) ==
    /\ main[k] = "done" /\ HasDone(k)
    /\ Goto(k, "await")
    /\ UNCHANGED <<file, listening, at, apps, serve, watchdog, closing, crashed, benchVars>>

(* e.done <- true meets <-d. *)
Signal(k) ==
    /\ main[k] = "await" /\ recv[k] = "offer"
    /\ Goto(k, "fetch")
    /\ recv' = [recv EXCEPT ![k] = "signalled"]
    /\ UNCHANGED <<file, listening, at, apps, serve, watchdog, closing, crashed,
                   mode, overlap, node, batch, got>>

(* e.done = nil; e.events = evts *)
ReceiveStores(k) ==
    /\ recv[k] = "signalled"
    /\ recv' = [recv EXCEPT ![k] = "stored"]
    /\ UNCHANGED <<serverVars, mode, overlap, node, batch, got>>

(* return e.events, stored by then or not; Run returns and the runners end. *)
DoneReturns(k) ==
    /\ main[k] = "fetch"
    /\ got' = [got EXCEPT ![k] = Events(k)]
    /\ Goto(k, "returned")
    /\ node' = [node EXCEPT ![k] = [n \in Node |-> "over"]]
    /\ UNCHANGED <<file, listening, at, apps, serve, watchdog, closing, crashed,
                   mode, overlap, recv, batch>>
-----------------------------------------------------------------------------
ServerStep(A) == crashed = "no" /\ A /\ UNCHANGED benchVars
Go(A) == crashed = "no" /\ A

MainStep(k) ==
    \/ Go(Begin(k))
    \/ ServerStep(Starting(k))
    \/ Go(Start(k))
    \/ Go(DoneReads(k)) \/ Go(Signal(k)) \/ Go(DoneReturns(k))

Config(k, n) ==
    \/ ConfigDirect(k, n)
    \/ OpenReceiver(k, n) \/ RunSender(k, n) \/ RunComponent(k, n)

NodeStep(k, n) == Go(Connect(k, n)) \/ Go(Config(k, n))
QuickStep(k) == Go(RunAgain(k)) \/ Go(Sent(k))
ReceiveStep(k) == Go(ReceiveStores(k))

Next == \E k \in Session :
    \/ MainStep(k)
    \/ Go(Interrupt(k)) \/ Go(InterruptServer(k)) \/ Go(Exit(k))
    \/ ServerStep(Serve(k)) \/ ServerStep(WatchdogQuit(k)) \/ ServerStep(Closing(k))
    \/ \E n \in Node : NodeStep(k, n)
    \/ Go(Send(k)) \/ Go(SendFails(k)) \/ Go(SendEarly(k))
    \/ QuickStep(k)
    \/ ReceiveStep(k)

Spec == Init /\ [][Next]_vars

(***************************************************************************)
(* The goroutines run.  A call of quick fails as long as an endpoint is    *)
(* not there or a connection is backing off, and not for ever once they    *)
(* are.  Nobody has to interrupt the agent.  Its process ends when Run has *)
(* returned; another benchmark may follow the last of the sessions.        *)
(***************************************************************************)
Running == \A k \in Session :
    /\ WF_vars(MainStep(k))
    /\ WF_vars(mode[k] = "process" /\ Go(Exit(k)))
    /\ WF_vars(ServerStep(Serve(k)))
    /\ WF_vars(ServerStep(WatchdogQuit(k)))
    /\ WF_vars(ServerStep(Closing(k)))
    /\ \A n \in Node : WF_vars(NodeStep(k, n))
    /\ SF_vars(Go(Send(k)))
    /\ WF_vars(QuickStep(k))
    /\ WF_vars(ReceiveStep(k))

FairSpec == Spec /\ Running
-----------------------------------------------------------------------------
(***************************************************************************)
(* The goroutine that serves looks s.server up when it runs, and the one   *)
(* that waits for the context sets it to nil (server.go:158, 175).  No     *)
(* benchmark ends before its server has served, because Done waits for an  *)
(* event and an event for a configuration; an interrupt can come earlier.  *)
(***************************************************************************)
ServerThere == crashed = "serve" => \E k \in Session : mode[k] = "process"

(***************************************************************************)
(* A session that began when no server was left of another one starts,     *)
(* also over the file of a process that was killed, and the socket at the  *)
(* path is its own until its context is done (listener.go:37-53; what the  *)
(* server of an earlier session closes late takes the file away).          *)
(***************************************************************************)
Alone(k) == main[k] # "idle" /\ k \notin overlap

AloneKeepsSocket == \A k \in Session : Alone(k) =>
    /\ main[k] # "failed"
    /\ k \in listening /\ ~ Cancelled(k) /\ ~ Hears(k) => file = k

(***************************************************************************)
(* Such a session also ends: its nodes reach its server, are configured in *)
(* some order, and the batch arrives, however often quick is run again     *)
(* (benchmark_test.go; end.go:63 "returns once the component has got a     *)
(* batch of events") - unless the host processor was called too early.     *)
(***************************************************************************)
AloneReturns == \A k \in Session :
    Alone(k) /\ mode[k] # "process" ~> main[k] = "returned" \/ crashed = "early"

(***************************************************************************)
(* The goroutine of a benchmark's server comes to its end after the        *)
(* context is done, as long as the process lives: the server is stopped,   *)
(* served or not, and the watchdog is gone (server.go:170-179).  Nobody    *)
(* waits for it, so the run command's process may end before its server    *)
(* has shut down (run.go:34-44).                                           *)
(***************************************************************************)
ShutsDown == \A k \in Session :
    mode[k] # "process" /\ Cancelled(k) /\ closing[k] = "waiting"
        ~> closing[k] = "over" \/ crashed # "no"
-----------------------------------------------------------------------------
(* What the code does not keep; Bench.cfg's comment and the README say how. *)

(* The run command's server is shut down before its process is gone. *)
StoppedBeforeExit == crashed = "exit" =>
    \A k \in Session : mode[k] = "process" /\ main[k] = "returned" => closing[k] = "over"

(* benchmark_test.go:20-23 and the like: Run returns no error. *)
SessionsSucceed == \A k \in Session : main[k] # "failed"

(* The server is there whenever it is served, interrupted or not. *)
ServerAlwaysThere == crashed # "serve"

(* processor.go:75: "Run must be called before Receive". *)
NoEarlyCall == crashed # "early"

(* end.go:63: what Done returns is the batch. *)
DoneHasEvents == \A k \in Session : main[k] = "returned" /\ mode[k] # "process" => got[k] # "none"

(* Every event of the benchmark went through a host processor that had run. *)
ResultHosted == \A k \in Session : got[k] # "bare"
=============================================================================

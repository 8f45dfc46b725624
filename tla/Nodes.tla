-------------------------------- MODULE Nodes --------------------------------
(***************************************************************************)
(* The nodes of a chain from their start by the agent on: executed from    *)
(* the tail, configured, failing, executed again                           *)
(* (elastic-agent/pipeline).                                               *)
(*                                                                         *)
(* In mode "process" a node is a process of its own; a failed one is       *)
(* executed again and begins from nothing.  In the modes "inside" and      *)
(* "direct" all of them live in the agent's process and Run is called      *)
(* again on the same runner.  The streams between agent and client are     *)
(* the matter of Checkin: here the configuration that is expected of a     *)
(* connected node arrives some time, and anew after a reconnection.        *)
(***************************************************************************)
EXTENDS Runner

CONSTANTS
    MaxConfig,  \* the last configuration of UpdateConfig
    Updated,    \* the nodes whose configuration is updated
    Stoppable,  \* those that Stop is called for
    MaxFaults   \* processes that die, sockets that cannot be opened, calls too early

ASSUME NodesAssumption == MaxConfig \in Nat \ {0} /\ MaxFaults \in Nat

VARIABLES
    agent,      \* "up", or "over" once its context is done or its process has ended
    starting,   \* the node that start is at; 0 when all are started
    proc,       \* the process of a node, or the goroutine that runs its runner
    wanted,     \* expectedConfig
    due,        \* expectedConfigIdx is not the index the client has
    stop,       \* the agent expects the node to stop
    stopping,   \* the client has been told: it ignores what else is expected
    faults

nodesVars == <<agent, starting, proc, wanted, due, stop, stopping, faults>>
vars == <<chain, runnerVars, nodesVars>>

InProcess == mode # "process"

(***************************************************************************)
(* "loading": executed and reading stdin.  "exited": the process has ended *)
(* and the agent will execute it again; Run has failed and will be called  *)
(* again.  "ended": Run has returned nil to the goroutine in the agent.    *)
(***************************************************************************)
Proc == {"none", "loading", "running", "exited", "ended"}

NodesTypes ==
    /\ RunnerTypes
    /\ agent \in {"up", "over"}
    /\ starting \in 0 .. Last
    /\ proc \in [Node -> IF InProcess THEN Proc \ {"loading"} ELSE Proc \ {"ended"}]
    /\ wanted \in [Node -> 1 .. MaxConfig]
    /\ due \in [Node -> BOOLEAN]
    /\ stop \in [Node -> BOOLEAN]
    /\ stopping \in [Node -> BOOLEAN]
    /\ faults \in 0 .. MaxFaults

Init ==
    /\ RunnerInit
    /\ agent = "up"
    /\ starting = Last
    /\ proc = [n \in Node |-> "none"]
    /\ wanted = [n \in Node |-> 1]
    /\ due = [n \in Node |-> TRUE]
    /\ stop = [n \in Node |-> FALSE]
    /\ stopping = [n \in Node |-> FALSE]
    /\ faults = 0

(* The node's code runs: in its own process even when the agent is gone. *)
Alive(n) == proc[n] = "running" /\ (InProcess => agent = "up")

SetProc(n, p) == proc' = [proc EXCEPT ![n] = p]

(* The server's index of what it expects of n is not the client's. *)
Offer(n) == due' = [due EXCEPT ![n] = TRUE]

Fault == faults < MaxFaults /\ faults' = faults + 1
-----------------------------------------------------------------------------
(***************************************************************************)
(* start has come to node n: it registers it and executes its component.   *)
(***************************************************************************)
Start(n) ==
    /\ mode = "process" /\ agent = "up" /\ starting = n
    /\ SetProc(n, "loading")
    /\ starting' = n - 1
    /\ UNCHANGED <<chain, runnerVars, agent, wanted, due, stop, stopping, faults>>

(***************************************************************************)
(* In the agent's own process start makes the runner and a goroutine that  *)
(* runs it.  A runner that cannot be made is an error of the agent's.      *)
(***************************************************************************)
StartWith(n, loads) ==
    /\ agent = "up" /\ starting = n
    /\ IF loads
       THEN SetProc(n, "running") /\ starting' = n - 1 /\ UNCHANGED agent
       ELSE agent' = "over" /\ UNCHANGED <<starting, proc>>
    /\ UNCHANGED <<chain, runnerVars, wanted, due, stop, stopping, faults>>

StartInside(n) == mode = "inside" /\ StartWith(n, Loads(n))

StartDirect(n) == mode = "direct" /\ StartWith(n, NewDirectRunner(kinds, n))

(***************************************************************************)
(* The component cannot be executed: Run returns the error and the agent's *)
(* process ends.  What was started before goes on.                         *)
(***************************************************************************)
StartFails ==
    /\ ~ InProcess /\ agent = "up" /\ starting > 0
    /\ agent' = "over"
    /\ UNCHANGED <<chain, runnerVars, starting, proc, wanted, due, stop, stopping, faults>>

(* The process has read its connection information: NewRunner or exit. *)
LoadConn(n) ==
    /\ proc[n] = "loading"
    /\ SetProc(n, IF Loads(n) THEN "running" ELSE "exited")
    /\ UNCHANGED <<chain, runnerVars, agent, starting, wanted, due, stop, stopping, faults>>

Connected(n) == Alive(n) /\ live[n] /\ agent = "up"

(***************************************************************************)
(* The client receives what is expected of it: a configuration under an    *)
(* index it does not have, or the word to stop.                            *)
(***************************************************************************)
TakeConfig(n) ==
    /\ Connected(n) /\ ~ stopping[n] /\ ~ stop[n]
    /\ due[n] /\ due' = [due EXCEPT ![n] = FALSE]
    /\ IF mode = "direct" THEN DirectOnConfig(n, wanted[n]) ELSE OnConfig(n, wanted[n])
    /\ UNCHANGED <<agent, starting, proc, wanted, stop, stopping, faults>>

(***************************************************************************)
(* The stream breaks and the client, which has an index, connects again:   *)
(* the server expects the next index of it, and the same configuration.    *)
(***************************************************************************)
Reconnect(n) ==
    /\ Connected(n) /\ given[n] # NoConfig /\ applying[n] = "nothing"
    /\ Fault
    /\ Offer(n)
    /\ UNCHANGED <<chain, runnerVars, agent, starting, proc, wanted, stop, stopping>>

(* Told to stop while OnConfig is at work, used as a mutant. *)
BadTakeStop(n) ==
    /\ Connected(n) /\ ~ stopping[n] /\ stop[n]
    /\ stopping' = [stopping EXCEPT ![n] = TRUE]
    /\ Cancel(n)
    /\ UNCHANGED <<agent, starting, proc, wanted, due, stop, faults>>

TakeStop(n) ==
    /\ Connected(n) /\ ~ stopping[n] /\ stop[n]
    /\ applying[n] = "nothing"
    /\ stopping' = [stopping EXCEPT ![n] = TRUE]
    /\ Cancel(n)
    /\ UNCHANGED <<agent, starting, proc, wanted, due, stop, faults>>

(* OnConfig goes on, and the goroutines of the receiver. *)
Work(n) ==
    /\ Alive(n)
    /\ \/ RunReceiver(n)
       \/ RunSender(n)
       \/ RunComponent(n)
       \/ Reload(n)
       \/ Serve(n)
       \/ StopReceiver(n)
    /\ UNCHANGED nodesVars

(* A process that ends well is not executed again, used as a mutant. *)
BadRunReturns(n) ==
    /\ mode = "process" /\ Alive(n) /\ ~ live[n]
    /\ SetProc(n, IF failed[n] THEN "exited" ELSE "none")
    /\ UNCHANGED <<chain, runnerVars, agent, starting, wanted, due, stop, stopping, faults>>

(* runner.Run returns, and the process ends whatever it returned. *)
RunReturns(n) ==
    /\ mode = "process" /\ Alive(n) /\ ~ live[n]
    /\ SetProc(n, "exited")
    /\ UNCHANGED <<chain, runnerVars, agent, starting, wanted, due, stop, stopping, faults>>

(***************************************************************************)
(* In the agent's process an error, also one that an earlier run has left  *)
(* in r.err, makes it run again.                                           *)
(***************************************************************************)
InsideReturns(n) ==
    /\ InProcess /\ Alive(n) /\ ~ live[n]
    /\ SetProc(n, IF failed[n] THEN "exited" ELSE "ended")
    /\ UNCHANGED <<chain, runnerVars, agent, starting, wanted, due, stop, stopping, faults>>

(***************************************************************************)
(* A second after its end the process is executed again and knows nothing. *)
(* An execution that fails changes nothing and is tried again.             *)
(***************************************************************************)
Again(n) ==
    /\ mode = "process" /\ agent = "up" /\ proc[n] = "exited"
    /\ ResetRunner(n)
    /\ SetProc(n, "loading")
    /\ stopping' = [stopping EXCEPT ![n] = FALSE]
    /\ Offer(n)
    /\ UNCHANGED <<chain, agent, starting, wanted, stop, faults>>

(* The server takes a client at its word that has an index, used as a mutant. *)
BadInsideAgain(n) ==
    /\ InProcess /\ agent = "up" /\ proc[n] = "exited"
    /\ receiver[n] = "off"
    /\ RunAgain(n)
    /\ SetProc(n, "running")
    /\ UNCHANGED <<chain, agent, starting, wanted, due, stop, stopping, faults>>

(***************************************************************************)
(* Run is called again half a second later, which is long enough for the   *)
(* receiver's goroutines to have come to their end.  Its client connects   *)
(* with the index it had, and is made to load the configuration again.     *)
(***************************************************************************)
InsideAgain(n) ==
    /\ InProcess /\ agent = "up" /\ proc[n] = "exited"
    /\ receiver[n] = "off"
    /\ RunAgain(n)
    /\ SetProc(n, "running")
    /\ Offer(n)
    /\ UNCHANGED <<chain, agent, starting, wanted, stop, stopping, faults>>
-----------------------------------------------------------------------------
(* The goroutines of a node that is finished but for them. *)
Linger(n) ==
    /\ InProcess /\ agent = "up" /\ proc[n] \in {"exited", "ended"}
    /\ StopReceiver(n)
    /\ UNCHANGED nodesVars

(* Serve on a server that is nil: the process ends. *)
ServePanics(n) ==
    /\ receiver[n] = "doomed"
    /\ IF InProcess THEN /\ agent' = "over" /\ UNCHANGED proc
                    ELSE /\ proc[n] = "running" /\ SetProc(n, "exited") /\ UNCHANGED agent
    /\ UNCHANGED <<chain, runnerVars, starting, wanted, due, stop, stopping, faults>>

(* The node before has something to send and a way to send it. *)
Called(n) ==
    /\ n > 1
    /\ Alive(n) /\ Alive(n - 1)
    /\ comp[n - 1] /\ live[n - 1]
    /\ mode # "direct" => receiver[n] = "on" /\ dialled[n - 1]

(***************************************************************************)
(* A call for a component whose Run is not over finds a sender without a   *)
(* client, a spooler without a queue or an output without a connection,    *)
(* and the process dies of it.                                             *)
(***************************************************************************)
EarlyCall(n) ==
    /\ Called(n) /\ ~ comp[n]
    /\ Fault
    /\ IF InProcess THEN agent' = "over" /\ UNCHANGED proc
                    ELSE SetProc(n, "exited") /\ UNCHANGED agent
    /\ UNCHANGED <<chain, runnerVars, starting, wanted, due, stop, stopping>>

(* A process is killed, or interrupted, or cannot listen on its socket. *)
Die(n) ==
    /\ ~ InProcess /\ proc[n] \in {"loading", "running"}
    /\ Fault
    /\ SetProc(n, "exited")
    /\ UNCHANGED <<chain, runnerVars, agent, starting, wanted, due, stop, stopping>>

Interrupt(n) ==
    /\ ~ InProcess /\ proc[n] = "running" /\ live[n]
    /\ Fault
    /\ Cancel(n)
    /\ UNCHANGED <<agent, starting, proc, wanted, due, stop, stopping>>

CannotListen(n) ==
    /\ Alive(n)
    /\ Fault
    /\ ListenFails(n)
    /\ UNCHANGED <<agent, starting, proc, wanted, due, stop, stopping>>
-----------------------------------------------------------------------------
(* UpdateConfig and Stop of the application, and the agent's own end. *)
UpdateConfig(n) ==
    /\ agent = "up" /\ n \in Updated /\ proc[n] # "none"
    /\ ~ stop[n] /\ wanted[n] < MaxConfig
    /\ wanted' = [wanted EXCEPT ![n] = @ + 1]
    /\ Offer(n)
    /\ UNCHANGED <<chain, runnerVars, agent, starting, proc, stop, stopping, faults>>

Stop(n) ==
    /\ agent = "up" /\ n \in Stoppable /\ proc[n] # "none"
    /\ ~ stop[n]
    /\ stop' = [stop EXCEPT ![n] = TRUE]
    /\ UNCHANGED <<chain, runnerVars, agent, starting, proc, wanted, due, stopping, faults>>

AgentEnds ==
    /\ agent = "up"
    /\ agent' = "over"
    /\ UNCHANGED <<chain, runnerVars, starting, proc, wanted, due, stop, stopping, faults>>

(* A child of a context that is done is killed, if the agent lives to do it. *)
Kill(n) ==
    /\ ~ InProcess /\ agent = "over" /\ proc[n] \in {"loading", "running"}
    /\ SetProc(n, "exited")
    /\ UNCHANGED <<chain, runnerVars, agent, starting, wanted, due, stop, stopping, faults>>

(* What a node does by itself. *)
Progress(n) ==
    \/ Start(n)
    \/ StartInside(n)
    \/ StartDirect(n)
    \/ LoadConn(n)
    \/ TakeConfig(n)
    \/ TakeStop(n)
    \/ Work(n)
    \/ RunReturns(n)
    \/ InsideReturns(n)
    \/ Again(n)
    \/ InsideAgain(n)
    \/ Linger(n)
    \/ ServePanics(n)

Next ==
    \/ \E n \in Node :
        \/ Progress(n)
        \/ Reconnect(n)
        \/ EarlyCall(n)
        \/ Die(n)
        \/ Interrupt(n)
        \/ CannotListen(n)
        \/ UpdateConfig(n)
        \/ Stop(n)
        \/ Kill(n)
    \/ StartFails
    \/ AgentEnds

Spec == Init /\ [][Next]_vars

(* Processes run, connect and are restarted; nothing makes them fail. *)
Running == \A n \in Node : WF_vars(Progress(n))

FairSpec == Spec /\ Running
-----------------------------------------------------------------------------
TypeOK == NodesTypes

(***************************************************************************)
(* No runner of a chain that was accepted lacks what it needs to load.     *)
(***************************************************************************)
AcceptedLoads == \A n \in Node : proc[n] = "loading" => Loads(n)

(***************************************************************************)
(* "the currently applied config_state_idx" (control.proto): the index a   *)
(* node reports, whenever OnConfig is not at work, is that of the          *)
(* configuration its component runs with.  A process that is executed      *)
(* again has forgotten the index it had; a runner that is run again has    *)
(* not.                                                                    *)
(***************************************************************************)
ReportedIsApplied ==
    \A n \in Node :
        Alive(n) /\ live[n] /\ applying[n] = "nothing" => given[n] = cfg[n]

ProcessReportsApplied == mode = "process" => ReportedIsApplied

(***************************************************************************)
(* A process with a configuration has what its component needs: the        *)
(* endpoint for those before, the connection to the next, and Run done.    *)
(* In the agent's process a runner that fails to reload one loses its      *)
(* endpoint, and to reload the next does not bring it back.                *)
(***************************************************************************)
Equipped(n) ==
    /\ HasReceiver(n) => receiver[n] \in {"opened", "on"}
    /\ HasSender(n) => dialled[n]
    /\ comp[n]

EquippedOnceConfigured ==
    \A n \in Node : Alive(n) /\ live[n] /\ cfg[n] # NoConfig => Equipped(n)

ConfiguredIsEquipped == mode = "process" => EquippedOnceConfigured

(***************************************************************************)
(* Who has been told to stop does so: nothing that follows, of what the    *)
(* agent sends or of what OnConfig was at, makes it run on or take another *)
(* configuration (client.go:229-240, runner.go:130).  A process that is    *)
(* executed again has not been told.  In the agent's process an error of   *)
(* an earlier run, which stays in r.err, makes a stopped runner run again, *)
(* and its client ignores whatever is expected of it for good.             *)
(***************************************************************************)
StopIsFinal ==
    \A n \in Node : Alive(n) /\ stopping[n] => ~ live[n] /\ applying[n] = "nothing"

ProcessStopIsFinal == mode = "process" => StopIsFinal

(***************************************************************************)
(* Whatever failed on the way - a configuration that was refused, first or *)
(* later, a process that died - a node of which a good configuration is    *)
(* expected comes to run with it, and is there to be called.               *)
(***************************************************************************)
Good(n, c) == <<n, c>> \notin Malformed /\ <<n, c>> \notin Unusable

Settled(n) ==
    /\ Alive(n) /\ live[n] /\ applying[n] = "nothing"
    /\ cfg[n] = wanted[n] /\ comp[n]
    /\ HasReceiver(n) => receiver[n] = "on"

Settles ==
    mode = "process" =>
        \A n \in Updated :
            <>[](agent = "up" /\ ~ stop[n] /\ Good(n, wanted[n])) => <>[]Settled(n)

(***************************************************************************)
(* In the agent's process a node that has never been configured is not     *)
(* lost either, whatever it was refused before and however its socket or   *)
(* its stream failed: Run is called again on the same runner, whose client *)
(* still has an index, and the server makes it load the configuration that *)
(* is expected of it once more, the one that it failed with before too     *)
(* (server.go:306-310, inside.go, direct.go).                              *)
(***************************************************************************)
Fresh(n) ==
    /\ agent = "up" /\ ~ stop[n]
    /\ cfg[n] = NoConfig /\ Good(n, wanted[n])

StartsOver ==
    mode # "process" =>
        \A n \in Updated :
            Fresh(n) ~> Settled(n) \/ ~ Good(n, wanted[n]) \/ agent = "over" \/ stop[n]

(***************************************************************************)
(* "Run must be called before Receive" (spooler.go, processor.go).         *)
(***************************************************************************)
RunBeforeReceive == \A n \in Node : Called(n) => comp[n]

(* "Stop instructs the application to stop" (server.go): it is left alone. *)
StoppedStays ==
    [][\A n \in Node : stopping[n] /\ proc[n] = "exited" => proc'[n] = "exited"]_vars

(* "handle cancel of the context" (receive.go): the agent survives it. *)
CancelIsHandled == \A n \in Node : receiver[n] # "doomed"
=============================================================================

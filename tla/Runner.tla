------------------------------- MODULE Runner -------------------------------
(***************************************************************************)
(* The runner of every node of a chain, and the receiver and the sender it *)
(* starts for its component                                                *)
(* (elastic-agent-sdk/pkg/component/runner.go, events/receive.go and       *)
(* send.go; elastic-agent/pipeline/direct.go for the direct mode, which    *)
(* has neither receiver nor sender).                                       *)
(*                                                                         *)
(* A configuration is a number; the index it is sent under is the matter   *)
(* of Nodes and Checkin.  OnConfig runs in the goroutine that receives     *)
(* from the agent; it is not one step because the receiver it starts is    *)
(* there for others before the component runs.                             *)
(***************************************************************************)
EXTENDS Pipeline

CONSTANTS
    Last,       \* the number of nodes of the chain
    Modes,      \* of "process", "inside" and "direct", those that are tried
    Chains,     \* the chains of components that are tried
    Malformed,  \* <<node, configuration>> of those that are not YAML
    Unusable    \* <<node, configuration>> of those that Run and Reload refuse

ASSUME RunnerAssumption ==
    /\ Last \in Nat /\ Last >= 2
    /\ Modes \subseteq {"process", "inside", "direct"}
    /\ Chains \subseteq [1 .. Last -> Kind]

Node == 1 .. Last

(* No configuration: InitialConfigIdx of the client, nil of the runner. *)
NoConfig == 0

VARIABLES
    mode,       \* how the chain was made
    kinds,      \* the components of the chain
    live,       \* the runner's context is not cancelled
    failed,     \* r.err is set (to something else than context.Canceled)
    given,      \* the configuration the client has given to OnConfig last: its cfg
    cfg,        \* r.cfg: the one that was applied
    applying,   \* where OnConfig is
    receiver,   \* the gRPC endpoint of the component
    dialled,    \* sender.client is set
    comp        \* whether the component's Run has returned without an error

chain == <<mode, kinds>>
runnerVars == <<live, failed, given, cfg, applying, receiver, dialled, comp>>

Step == {"nothing", "receiver", "sender", "component", "reload"}

(***************************************************************************)
(* "opened": the socket listens and the goroutine that serves it has not   *)
(* run yet.  "doomed": the context was cancelled before it did.            *)
(***************************************************************************)
Endpoint == {"off", "opened", "on", "doomed"}

RunnerTypes ==
    /\ mode \in Modes
    /\ kinds \in [Node -> Kind]
    /\ live \in [Node -> BOOLEAN]
    /\ failed \in [Node -> BOOLEAN]
    /\ given \in [Node -> Nat]
    /\ cfg \in [Node -> Nat]
    /\ applying \in [Node -> Step]
    /\ receiver \in [Node -> Endpoint]
    /\ dialled \in [Node -> BOOLEAN]
    /\ comp \in [Node -> BOOLEAN]

RunnerInit ==
    /\ mode \in Modes
    /\ kinds \in Chains
    /\ CASE mode = "process" -> NewPipeline(kinds)
         [] mode = "inside" -> NewInsidePipeline(kinds)
         [] mode = "direct" -> NewDirectPipeline(kinds)
    /\ live = [n \in Node |-> TRUE]
    /\ failed = [n \in Node |-> FALSE]
    /\ given = [n \in Node |-> NoConfig]
    /\ cfg = [n \in Node |-> NoConfig]
    /\ applying = [n \in Node |-> "nothing"]
    /\ receiver = [n \in Node |-> "off"]
    /\ dialled = [n \in Node |-> FALSE]
    /\ comp = [n \in Node |-> FALSE]

Loads(n) == Load(kinds[n], ConnInfo(kinds, n))

HasReceiver(n) == mode # "direct" /\ kinds[n].receiver
HasSender(n) == mode # "direct" /\ kinds[n].sender

(* The process of node n is a new one. *)
ResetRunner(n) ==
    /\ live' = [live EXCEPT ![n] = TRUE]
    /\ failed' = [failed EXCEPT ![n] = FALSE]
    /\ given' = [given EXCEPT ![n] = NoConfig]
    /\ cfg' = [cfg EXCEPT ![n] = NoConfig]
    /\ applying' = [applying EXCEPT ![n] = "nothing"]
    /\ receiver' = [receiver EXCEPT ![n] = "off"]
    /\ dialled' = [dialled EXCEPT ![n] = FALSE]
    /\ comp' = [comp EXCEPT ![n] = FALSE]

(***************************************************************************)
(* Run begins once more on the same runner, client and component: it makes *)
(* a context and forgets nothing.                                          *)
(***************************************************************************)
RunAgain(n) ==
    /\ live' = [live EXCEPT ![n] = TRUE]
    /\ UNCHANGED <<failed, given, cfg, applying, receiver, dialled, comp>>
-----------------------------------------------------------------------------
(* r.err = err; r.canceller(); return *)
Fail(n) ==
    /\ failed' = [failed EXCEPT ![n] = TRUE]
    /\ live' = [live EXCEPT ![n] = FALSE]
    /\ applying' = [applying EXCEPT ![n] = "nothing"]

Proceed(n, step) ==
    /\ applying' = [applying EXCEPT ![n] = step]
    /\ UNCHANGED <<failed, live>>

AfterReceiver(n) == IF HasSender(n) THEN "sender" ELSE "component"

(* A configuration that cannot be parsed is passed over, used as a mutant. *)
BadOnConfig(n, c) ==
    /\ applying[n] = "nothing"
    /\ given' = [given EXCEPT ![n] = c]
    /\ Proceed(n, IF <<n, c>> \in Malformed THEN "nothing"
                  ELSE IF cfg[n] # NoConfig THEN "reload"
                  ELSE IF HasReceiver(n) THEN "receiver"
                  ELSE AfterReceiver(n))
    /\ UNCHANGED <<chain, cfg, receiver, dialled, comp>>

(***************************************************************************)
(* The client has taken configuration c (and set cfgIdx) and calls         *)
(* OnConfig.                                                               *)
(***************************************************************************)
OnConfig(n, c) ==
    /\ applying[n] = "nothing"
    /\ given' = [given EXCEPT ![n] = c]
    /\ IF <<n, c>> \in Malformed
       THEN Fail(n)
       ELSE Proceed(n, IF cfg[n] # NoConfig THEN "reload"
                       ELSE IF HasReceiver(n) THEN "receiver"
                       ELSE AfterReceiver(n))
    /\ UNCHANGED <<chain, cfg, receiver, dialled, comp>>

(* The same of the runner in direct mode: no receiver, no sender. *)
DirectOnConfig(n, c) ==
    /\ applying[n] = "nothing"
    /\ given' = [given EXCEPT ![n] = c]
    /\ IF <<n, c>> \in Malformed
       THEN Fail(n)
       ELSE Proceed(n, IF cfg[n] = NoConfig THEN "component" ELSE "reload")
    /\ UNCHANGED <<chain, cfg, receiver, dialled, comp>>

(* The receiver is said to run and nothing listens, used as a mutant. *)
BadRunReceiver(n) ==
    /\ applying[n] = "receiver"
    /\ Proceed(n, AfterReceiver(n))
    /\ UNCHANGED <<chain, given, cfg, receiver, dialled, comp>>

(* receiver.Run: nothing to do if it is running already. *)
RunReceiver(n) ==
    /\ applying[n] = "receiver"
    /\ receiver' = [receiver EXCEPT ![n] = IF @ = "off" THEN "opened" ELSE @]
    /\ Proceed(n, AfterReceiver(n))
    /\ UNCHANGED <<chain, given, cfg, dialled, comp>>

(* The socket cannot be opened. *)
ListenFails(n) ==
    /\ applying[n] = "receiver"
    /\ receiver[n] = "off"
    /\ Fail(n)
    /\ UNCHANGED <<chain, given, cfg, receiver, dialled, comp>>

(***************************************************************************)
(* sender.Run dials without waiting for the connection; with a context     *)
(* that is cancelled it returns context.Canceled, which r.err holds and    *)
(* Run does not report.                                                    *)
(***************************************************************************)
RunSender(n) ==
    /\ applying[n] = "sender"
    /\ dialled' = [dialled EXCEPT ![n] = @ \/ live[n]]
    /\ applying' = [applying EXCEPT ![n] = IF live[n] THEN "component" ELSE "nothing"]
    /\ failed' = [failed EXCEPT ![n] = @ /\ live[n]]
    /\ UNCHANGED <<chain, live, given, cfg, receiver, comp>>

RunComponent(n) ==
    /\ applying[n] = "component"
    /\ IF <<n, given[n]>> \in Unusable
       THEN Fail(n) /\ UNCHANGED <<cfg, comp>>
       ELSE /\ comp' = [comp EXCEPT ![n] = TRUE]
            /\ cfg' = [cfg EXCEPT ![n] = given[n]]
            /\ Proceed(n, "nothing")
    /\ UNCHANGED <<chain, given, receiver, dialled>>

Reload(n) ==
    /\ applying[n] = "reload"
    /\ IF <<n, given[n]>> \in Unusable
       THEN Fail(n) /\ UNCHANGED cfg
       ELSE cfg' = [cfg EXCEPT ![n] = given[n]] /\ Proceed(n, "nothing")
    /\ UNCHANGED <<chain, given, receiver, dialled, comp>>

(* OnStop, or a signal to the process. *)
Cancel(n) ==
    /\ live' = [live EXCEPT ![n] = FALSE]
    /\ UNCHANGED <<chain, failed, given, cfg, applying, receiver, dialled, comp>>

(* The goroutine that serves the socket begins. *)
Serve(n) ==
    /\ receiver[n] = "opened"
    /\ receiver' = [receiver EXCEPT ![n] = "on"]
    /\ UNCHANGED <<chain, live, failed, given, cfg, applying, dialled, comp>>

(***************************************************************************)
(* The goroutine that waits for the context stops the server and forgets   *)
(* it.  A server that is stopped before Serve makes Serve fail, and the    *)
(* goroutine that serves calls it again on what is nil by then.            *)
(***************************************************************************)
StopReceiver(n) ==
    /\ ~ live[n]
    /\ receiver[n] \in {"opened", "on"}
    /\ receiver' = [receiver EXCEPT ![n] = IF @ = "on" THEN "off" ELSE "doomed"]
    /\ UNCHANGED <<chain, live, failed, given, cfg, applying, dialled, comp>>
=============================================================================

------------------------------- MODULE Debug --------------------------------
(***************************************************************************)
(* The debug command of a component                                        *)
(* (elastic-agent-sdk/pkg/cmd/debug.go): one process holds a controller    *)
(* that plays the agent (pkg/debug/control.go), the component with the     *)
(* runner and the client it also has under the real agent                  *)
(* (CheckinClient), and, if the component sends, a receiver that logs.     *)
(* Nothing but an interrupt ends it.                                       *)
(*                                                                         *)
(* The process has the one token it made itself, so the controller's check *)
(* of tokens never fails.  Every process has a directory of its own, so    *)
(* its sockets are nobody else's.                                          *)
(***************************************************************************)
EXTENDS CheckinClient

ASSUME DebugAssumption == Config = {}   \* InitConfig is what DebugConfig returns

VARIABLES
    sends,      \* the component sends, and so has a receiver
    command,    \* where RunE is
    ctx,        \* the context that an interrupt cancels
    failed,     \* OnConfig has failed, and cancelled the runner's context
    writer,     \* the goroutine that writes the connection information
    serve,      \* the controller's goroutine that serves
    endpoint,   \* the receiver's: see Runner
    handler,    \* handler[s]: the Checkin handler of stream s
    reply,      \* reply[s]: what it has to send
    crashed     \* what the process died of

debugVars == <<sends, command, ctx, failed, writer, serve, endpoint, handler, reply,
               crashed>>
vars == <<wireVars, clientVars, debugVars>>

Command == {"controller", "receiver", "runner", "run", "errChan", "ended"}

TypeOK ==
    /\ WireTypeOK /\ ClientTypeOK
    /\ sends \in BOOLEAN
    /\ command \in Command
    /\ ctx \in {"live", "done"}
    /\ failed \in BOOLEAN
    /\ writer \in {"off", "write", "errChan", "over"}
    /\ serve \in {"off", "pending", "on", "stopped", "over"}
    /\ endpoint \in {"off", "opened", "on", "doomed"}
    /\ handler \in [Stream -> {"off", "recv", "send", "ended"}]
    /\ reply \in [Stream -> Expected \cup {None}]
    /\ crashed \in {"no", "receiver", "action"}

Init ==
    /\ WireInit /\ ClientInit
    /\ sends \in BOOLEAN
    /\ command = "controller"
    /\ ctx = "live"
    /\ failed = FALSE
    /\ writer = "off"
    /\ serve = "off"
    /\ endpoint = "off"
    /\ handler = [s \in Stream |-> "off"]
    /\ reply = [s \in Stream |-> None]
    /\ crashed = "no"
-----------------------------------------------------------------------------
(* RunE, step by step. *)

RunController ==
    /\ command = "controller"
    /\ serve' = "pending"
    /\ command' = IF sends THEN "receiver" ELSE "runner"
    /\ writer' = IF sends THEN "off" ELSE "write"
    /\ UNCHANGED <<wireVars, clientVars, sends, ctx, failed, endpoint, handler, reply,
                   crashed>>

(* The receiver is run, and the connection information handed to a writer. *)
RunReceiver ==
    /\ command = "receiver"
    /\ endpoint' = "opened"
    /\ command' = "runner"
    /\ writer' = "write"
    /\ UNCHANGED <<wireVars, clientVars, sends, ctx, failed, serve, handler, reply,
                   crashed>>

(* The error is reported before the pipe is closed, used as a mutant. *)
BadWritten == writer = "over"

(* The writer has written and closed the pipe: what comes next is its error. *)
Written == writer = "errChan"

(* The write of a pipe takes until the runner reads. *)
WriteInfo ==
    /\ command = "runner" /\ writer = "write"
    /\ writer' = "errChan"
    /\ UNCHANGED <<wireVars, clientVars, sends, command, ctx, failed, serve, endpoint,
                   handler, reply, crashed>>

(***************************************************************************)
(* NewRunner reads to the end of the pipe; runner.Run starts the client.   *)
(***************************************************************************)
NewRunner ==
    /\ command = "runner" /\ Written
    /\ command' = "run"
    /\ UNCHANGED <<wireVars, clientVars, sends, ctx, failed, writer, serve, endpoint,
                   handler, reply, crashed>>

(* runner.Run: with an error RunE returns it, and nobody reads errChan. *)
RunReturns ==
    /\ command = "run" /\ (ctx = "done" \/ failed)
    /\ command' = IF failed THEN "ended" ELSE "errChan"
    /\ UNCHANGED <<wireVars, clientVars, sends, ctx, failed, writer, serve, endpoint,
                   handler, reply, crashed>>

ReadErrChan ==
    /\ command = "errChan" /\ writer = "errChan"
    /\ command' = "ended"
    /\ writer' = "over"
    /\ UNCHANGED <<wireVars, clientVars, sends, ctx, failed, serve, endpoint, handler,
                   reply, crashed>>

Interrupt ==
    /\ ctx = "live"
    /\ ctx' = "done"
    /\ UNCHANGED <<wireVars, clientVars, sends, command, failed, writer, serve, endpoint,
                   handler, reply, crashed>>
-----------------------------------------------------------------------------
(* Servers: the controller's, and the receiver's (Runner's Serve). *)

(* Unlike the agent's, this goroutine has the server it serves at hand. *)
ServeController ==
    /\ serve \in {"pending", "stopped"}
    /\ serve' = IF serve = "pending" THEN "on" ELSE "over"
    /\ UNCHANGED <<wireVars, clientVars, sends, command, ctx, failed, writer, endpoint,
                   handler, reply, crashed>>

(* srv.Stop: the streams that are open break. *)
StopController ==
    /\ ctx = "done" /\ serve \in {"pending", "on"}
    /\ serve' = IF serve = "pending" THEN "stopped" ELSE "over"
    /\ link' = [s \in Stream |-> IF link[s] = "open" THEN "broken" ELSE link[s]]
    /\ UNCHANGED <<up, down, clientVars, sends, command, ctx, failed, writer, endpoint,
                   handler, reply, crashed>>

ServeReceiver ==
    /\ endpoint \in {"opened", "doomed"}
    /\ IF endpoint = "opened"
       THEN endpoint' = "on" /\ UNCHANGED crashed
       ELSE crashed' = "receiver" /\ UNCHANGED endpoint
    /\ UNCHANGED <<wireVars, clientVars, sends, command, ctx, failed, writer, serve, handler,
                   reply>>

StopReceiver ==
    /\ ctx = "done" /\ endpoint \in {"opened", "on"}
    /\ endpoint' = IF endpoint = "on" THEN "off" ELSE "doomed"
    /\ UNCHANGED <<wireVars, clientVars, sends, command, ctx, failed, writer, serve, handler,
                   reply, crashed>>
-----------------------------------------------------------------------------
(* The controller's Checkin handler: one reply to every check-in. *)

(* Every reply carries a new index, used as a mutant. *)
BadReply(m) ==
    [state |-> "running", idx |-> m.idx + 1, cfg |-> IF m.idx = 0 THEN InitConfig ELSE None]

(* The configuration is sent with the index of the client, used as a mutant. *)
BadIndexReply(m) ==
    [state |-> "running", idx |-> m.idx, cfg |-> IF m.idx = 0 THEN InitConfig ELSE None]

Reply(m) ==
    IF m.idx = 0
    THEN [state |-> "running", idx |-> 1, cfg |-> InitConfig]
    ELSE [state |-> "running", idx |-> m.idx, cfg |-> None]

Handle(s, from, to) ==
    /\ handler[s] = from
    /\ handler' = [handler EXCEPT ![s] = to]
    /\ UNCHANGED <<clientVars, sends, command, ctx, failed, writer, serve, endpoint,
                   crashed>>

HandlerBegins(s) ==
    /\ link[s] # "none"
    /\ Handle(s, "off", "recv")
    /\ UNCHANGED <<wireVars, reply>>

HandlerRecv(s) ==
    /\ up[s] # <<>>
    /\ Handle(s, "recv", "send")
    /\ up' = [up EXCEPT ![s] = Tail(@)]
    /\ reply' = [reply EXCEPT ![s] = Reply(Head(up[s]))]
    /\ UNCHANGED <<link, down>>

HandlerSend(s) ==
    /\ Handle(s, "send", "recv")
    /\ SendDown(s, reply[s])
    /\ reply' = [reply EXCEPT ![s] = None]

(* Recv or Send returns an error, and so does the handler. *)
HandlerFails(s) ==
    /\ Fails(s)
    /\ Handle(s, handler[s], "ended") /\ handler[s] \in {"recv", "send"}
    /\ reply' = [reply EXCEPT ![s] = None]
    /\ UNCHANGED wireVars

(***************************************************************************)
(* A call of PerformAction queues an action and waits for its result.  The *)
(* goroutine of an Actions stream takes the action and writes it into a    *)
(* map that is nil; until there is a stream the call waits, and nothing    *)
(* else depends on it.                                                     *)
(***************************************************************************)
PerformAction ==
    /\ command = "run" /\ ctx = "live" /\ serve = "on"
    /\ crashed' = "action"
    /\ UNCHANGED <<wireVars, clientVars, sends, command, ctx, failed, writer, serve, endpoint,
                   handler, reply>>
-----------------------------------------------------------------------------
(* The component's client, from runner.Run on. *)

ClientLives == command \in {"run", "errChan"}

(* The client's context is done: it opens no stream, and the one it has breaks. *)
ClientDone == ctx = "done" \/ failed

Client(A) == ClientLives /\ A /\ UNCHANGED debugVars

Connect(s) == Client(serve = "on" /\ ~ ClientDone /\ Dial(s))

CancelStream ==
    /\ ClientDone /\ cstream # None
    /\ Client(NetBreak(cstream) /\ UNCHANGED clientVars)

(* The configuration is refused: r.err is set and the context cancelled. *)
ConfigFails ==
    /\ ClientLives /\ crecv = "config"
    /\ crecv' = "recv"
    /\ failed' = TRUE
    /\ UNCHANGED <<wireVars, cstream, csend, lastSent, cfgIdx, newCfg, cfg, told, observed,
                   sends, command, ctx, writer, serve, endpoint, handler, reply, crashed>>
-----------------------------------------------------------------------------
Go(A) == crashed = "no" /\ command # "ended" /\ A

CommandStep ==
    \/ RunController \/ RunReceiver \/ NewRunner \/ RunReturns \/ ReadErrChan

Servers == ServeController \/ ServeReceiver \/ StopController \/ StopReceiver
HandlerStep(s) == HandlerBegins(s) \/ HandlerRecv(s) \/ HandlerSend(s) \/ HandlerFails(s)
ClientReceives == Client(ReceivingStep) \/ ConfigFails
ClientLoop == (\E s \in Stream : Connect(s)) \/ Client(LoopEnd) \/ CancelStream

Break == \E s \in Stream : NetBreak(s) /\ UNCHANGED <<clientVars, debugVars>>

Next ==
    \/ Go(CommandStep) \/ Go(WriteInfo) \/ Go(Interrupt)
    \/ Go(Servers)
    \/ \E s \in Stream : Go(HandlerStep(s))
    \/ Go(ClientLoop) \/ Go(ClientReceives) \/ Go(Client(SendingStep))
    \/ Go(Break)
    \/ Go(PerformAction)

Spec == Init /\ [][Next]_vars

(***************************************************************************)
(* The goroutines of the process run.  Neither interrupts nor calls nor    *)
(* failures need happen.                                                   *)
(***************************************************************************)
Running ==
    /\ WF_vars(Go(CommandStep)) /\ WF_vars(Go(WriteInfo))
    /\ WF_vars(Go(ServeController)) /\ WF_vars(Go(ServeReceiver))
    /\ WF_vars(Go(StopController)) /\ WF_vars(Go(StopReceiver))
    /\ \A s \in Stream : WF_vars(Go(HandlerStep(s)))
    /\ WF_vars(Go(ClientLoop)) /\ WF_vars(Go(ClientReceives)) /\ WF_vars(Go(Client(SendingStep)))

FairSpec == Spec /\ Running
-----------------------------------------------------------------------------
(***************************************************************************)
(* OnConfig is called with the debug configuration and once, however often *)
(* the client reconnects and however many of its check-ins are answered    *)
(* late: the empty configuration of the later replies never reaches the    *)
(* component (control.go:124-134, client.go:241-249).                      *)
(***************************************************************************)
ConfiguredOnce == crecv = "config" => newCfg = InitConfig /\ cfg = None

(***************************************************************************)
(* The controller is to the component what the agent is: the component     *)
(* runs with what it was given, under the index it was given it with, and  *)
(* no reply that is late gives it anything else (control.go:124-142,       *)
(* client.go:222-249).                                                     *)
(***************************************************************************)
Told == INSTANCE Instructions
          WITH Configs <- Config, First <- InitConfig, Nothing <- None,
               wanted <- {<<1, InitConfig>>}, stopping <- FALSE, has <- cfgIdx,
               given <- newCfg, runs <- cfg

Obeys == Told!Spec

(***************************************************************************)
(* A client whose stream stays open comes to run with its configuration,   *)
(* on the first stream or a later one (control.go:109-141).                *)
(***************************************************************************)
Connected == command = "run" /\ ~ ClientDone /\ cstream # None /\ link[cstream] = "open"

Configured == <>[]Connected => <>(cfg = InitConfig \/ crashed # "no")

(***************************************************************************)
(* An interrupt at any point of RunE ends the command, which no goroutine  *)
(* of it keeps waiting: the pipe is closed before the writer offers its    *)
(* error, and the error is read after the runner (debug.go:110-134).  The  *)
(* exceptions are the two crashes.                                         *)
(***************************************************************************)
InterruptEnds == ctx = "done" ~> command = "ended" \/ crashed # "no"
-----------------------------------------------------------------------------
(* What the code does not keep; Debug.cfg and the README say how. *)

(* An interrupt is handled, also before the receiver serves. *)
InterruptIsHandled == crashed # "receiver"

(* A call of PerformAction is answered by the component. *)
NoActionCrash == crashed # "action"
=============================================================================

---------------------------- MODULE ActionClient ----------------------------
(***************************************************************************)
(* The application's side of the Actions stream (startActions in           *)
(* elastic-agent-sdk/pkg/control/client.go): the loop that opens a stream, *)
(* its receiving and its sending goroutine, one goroutine per action being *)
(* executed, and the actionResults channel that outlives the streams.      *)
(* Bad names a variant with a fault, as in ActionServer.                   *)
(***************************************************************************)
EXTENDS ActionWire

CONSTANTS
  Undefined,      \* the actions that are not registered, or whose parameters
                  \* cannot be decoded: they are answered but not executed
  ResultCap       \* capacity of the actionResults channel (100)

ASSUME ClientAssumption ==
  /\ Undefined \subseteq Call
  /\ ResultCap \in Nat \ {0}

VARIABLES
  cstream,        \* the stream of the current iteration, or None
  crecv, creq,    \* the receiving goroutine and the action it refuses
  csend, cres,    \* the sending goroutine and the response it puts back
  results,        \* the actionResults channel
  executing,      \* the actions whose goroutine has not pushed its result
  execs           \* how often each action was handed to Execute

clientVars == <<cstream, crecv, creq, csend, cres, results, executing, execs>>

ClientTypeOK ==
  /\ cstream \in Stream \cup {None}
  /\ crecv \in {"off", "recv", "push", "done"} /\ creq \in Call \cup {None}
  /\ csend \in {"off", "init", "select", "requeue", "done"}
  /\ cres \in Response \cup {InitMsg}
  /\ results \in Seq(Response) /\ executing \in SUBSET Call
  /\ execs \in [Call -> Nat]

\* A process that has just started, and holds nothing of an earlier one.
Fresh ==
  /\ cstream' = None
  /\ crecv' = "off" /\ creq' = None
  /\ csend' = "off" /\ cres' = InitMsg
  /\ results' = <<>> /\ executing' = {}

ClientInit ==
  /\ cstream = None
  /\ crecv = "off" /\ creq = None
  /\ csend = "off" /\ cres = InitMsg
  /\ results = <<>> /\ executing = {}
  /\ execs = [c \in Call |-> 0]

PushResult(c, st) ==
  /\ Len(results) < ResultCap
  /\ results' = Append(results, [call |-> c, status |-> st])

-----------------------------------------------------------------------------

\* The next iteration of the loop opens a stream.
Dial(s) ==
  /\ cstream = None /\ link[s] = "none"
  /\ link' = [link EXCEPT ![s] = "open"]
  /\ cstream' = s
  /\ crecv' = "recv" /\ csend' = "init"
  /\ UNCHANGED <<up, down, creq, cres, results, executing, execs>>

\* Both goroutines have ended (actionsWG.Wait).
LoopEnd ==
  /\ cstream # None /\ crecv = "done" /\ csend = "done"
  /\ cstream' = None /\ crecv' = "off" /\ csend' = "off"
  /\ UNCHANGED <<wireVars, creq, cres, results, executing, execs>>

-----------------------------------------------------------------------------
(* Receiving.                                                              *)

ClientRecv ==
  /\ crecv = "recv" /\ down[cstream] # <<>>
  /\ LET c == Head(down[cstream])
     IN  IF c \in Undefined
           THEN /\ crecv' = "push" /\ creq' = c
                /\ UNCHANGED <<executing, execs>>
           ELSE /\ executing' = executing \cup {c}
                /\ execs' = [execs EXCEPT ![c] = @ + 1]
                /\ UNCHANGED <<crecv, creq>>
  /\ down' = [down EXCEPT ![cstream] = Tail(@)]
  /\ UNCHANGED <<link, up, cstream, csend, cres, results>>

BadRefusal == "success"

Refusal == "failed"

\* ActionErrUndefined or ActionErrUnmarshableParams.
ClientRefuse ==
  /\ crecv = "push"
  /\ PushResult(creq, Refusal)
  /\ crecv' = "recv" /\ creq' = None
  /\ UNCHANGED <<wireVars, cstream, csend, cres, executing, execs>>

\* Recv fails: done is closed.  What was not read is gone.
ClientRecvFail ==
  /\ crecv = "recv" /\ Fails(cstream)
  /\ crecv' = "done"
  /\ down' = [down EXCEPT ![cstream] = <<>>]
  /\ UNCHANGED <<link, up, cstream, creq, csend, cres, results, executing, execs>>

\* Execute returns, with an error or without; its goroutine blocks while
\* actionResults is full.
Execute(c) ==
  /\ c \in executing
  /\ \E st \in {"success", "failed"} : PushResult(c, st)
  /\ executing' = executing \ {c}
  /\ UNCHANGED <<wireVars, cstream, crecv, creq, csend, cres, execs>>

-----------------------------------------------------------------------------
(* Sending.  A Send that fails cancels the stream.                         *)

SendInit ==
  /\ csend = "init"
  /\ SendUp(cstream, InitMsg)
  /\ csend' = "select"
  /\ UNCHANGED <<cstream, crecv, creq, cres, results, executing, execs>>

SendInitFails ==
  /\ csend = "init" /\ Fails(cstream)
  /\ csend' = "done"
  /\ UNCHANGED <<wireVars, cstream, crecv, creq, cres, results, executing, execs>>

ClientSend ==
  /\ csend = "select" /\ results # <<>>
  /\ SendUp(cstream, Head(results))
  /\ results' = Tail(results)
  /\ UNCHANGED <<cstream, crecv, creq, csend, cres, executing, execs>>

\* The response has left the channel when Send fails.
ClientSendFails ==
  /\ csend = "select" /\ results # <<>> /\ Fails(cstream)
  /\ cres' = Head(results)
  /\ results' = Tail(results)
  /\ csend' = "requeue"
  /\ UNCHANGED <<wireVars, cstream, crecv, creq, executing, execs>>

PutBack == PushResult(cres.call, cres.status)

\* It goes back into the channel, which may be full by now.
ClientRequeue ==
  /\ csend = "requeue"
  /\ PutBack
  /\ cres' = InitMsg
  /\ csend' = "done"
  /\ UNCHANGED <<wireVars, cstream, crecv, creq, executing, execs>>

BadClientSendQuit == FALSE /\ UNCHANGED <<wireVars, clientVars>>

ClientSendQuit ==
  /\ csend = "select" /\ crecv = "done"
  /\ csend' = "done"
  /\ UNCHANGED <<wireVars, cstream, crecv, creq, cres, results, executing, execs>>

-----------------------------------------------------------------------------

\* The process ends, by Stop, by a crash or killed by the agent; the agent
\* starts it again with the same token.
ClientRestart ==
  /\ link' = [s \in Stream |-> IF s = cstream THEN "broken" ELSE link[s]]
  /\ Fresh
  /\ UNCHANGED <<up, down, execs>>

ReceivingStep == ClientRecv \/ ClientRefuse \/ ClientRecvFail
SendingStep   == \/ SendInit \/ SendInitFails \/ ClientSend \/ ClientSendFails
                 \/ ClientRequeue \/ ClientSendQuit

ClientNext ==
  \/ \E s \in Stream : Dial(s)
  \/ LoopEnd
  \/ ReceivingStep \/ SendingStep
  \/ \E c \in Call : Execute(c)
  \/ ClientRestart
=============================================================================

--------------------------- MODULE CheckinClient ----------------------------
(***************************************************************************)
(* The application's side of the check-in stream (startCheckin in          *)
(* elastic-agent-sdk/pkg/control/client.go) with the callbacks OnConfig    *)
(* and OnStop of the component runner (pkg/component/runner.go).  Bad      *)
(* names a variant with a fault, as in CheckinServer.                      *)
(***************************************************************************)
EXTENDS CheckinWire

CONSTANT UpBound        \* bound on check-ins on the wire at once

VARIABLES
  cstream,              \* the stream of the current iteration, or None
  crecv,                \* "off", "recv", "config" (in OnConfig), "done"
  csend,                \* "off", "run", "done"
  lastSent,             \* the check-in sent last on this stream, or None
  cfgIdx, newCfg,       \* the configuration received last
  cfg,                  \* the one the component runs with, or None
  told,                 \* c.expected is STOPPING
  observed              \* the status the component reports

clientVars == <<cstream, crecv, csend, lastSent, cfgIdx, newCfg, cfg, told, observed>>

ClientTypeOK ==
  /\ cstream \in Stream \cup {None}
  /\ cstream = None => crecv = "off" /\ csend = "off"
  /\ crecv \in {"off", "recv", "config", "done"} /\ csend \in {"off", "run", "done"}
  /\ lastSent \in Observed \cup {None}
  /\ cfgIdx \in Nat /\ newCfg \in AnyConfig /\ cfg \in AnyConfig
  /\ told \in BOOLEAN /\ observed \in {"running", "stopping"}

ClientInit ==
  /\ cstream = None /\ crecv = "off" /\ csend = "off" /\ lastSent = None
  /\ cfgIdx = 0 /\ newCfg = None /\ cfg = None /\ told = FALSE /\ observed = "running"

\* A process that has just started, and knows nothing of an earlier one.
Fresh ==
  /\ cstream' = None /\ crecv' = "off" /\ csend' = "off" /\ lastSent' = None
  /\ cfgIdx' = 0 /\ newCfg' = None /\ cfg' = None /\ told' = FALSE /\ observed' = "running"

Dial(s) ==
  /\ cstream = None /\ link[s] = "none"
  /\ link' = [link EXCEPT ![s] = "open"]
  /\ cstream' = s /\ crecv' = "recv" /\ csend' = "run" /\ lastSent' = None
  /\ UNCHANGED <<up, down, cfgIdx, newCfg, cfg, told, observed>>

\* Both goroutines have ended (checkinWG.Wait).
LoopEnd ==
  /\ cstream # None /\ crecv = "done" /\ csend = "done"
  /\ cstream' = None /\ crecv' = "off" /\ csend' = "off" /\ lastSent' = None
  /\ UNCHANGED <<wireVars, cfgIdx, newCfg, cfg, told, observed>>

\* c.cfgIdx and c.cfg are set before OnConfig is called.
Accept(m) == newCfg' = m.cfg /\ cfgIdx' = m.idx

BadNews(m) == m.idx # cfgIdx

\* Once told to stop, nothing is done with an expected state.
News(m) == ~told' /\ m.idx # cfgIdx

\* OnStop cancels the context of the process (ClientExit).
ClientRecv ==
  /\ crecv = "recv" /\ down[cstream] # <<>>
  /\ LET m == Head(down[cstream])
     IN  /\ told' = (told \/ m.state = "stopping")
         /\ IF News(m)
              THEN Accept(m) /\ crecv' = "config"
              ELSE UNCHANGED <<cfgIdx, newCfg, crecv>>
  /\ down' = [down EXCEPT ![cstream] = Tail(@)]
  /\ UNCHANGED <<link, up, cstream, csend, lastSent, cfg, observed>>

\* OnConfig returns: the component runs with, or was reloaded with, newCfg.
\* If it fails the process ends (ClientExit).
ConfigDone ==
  /\ crecv = "config"
  /\ cfg' = newCfg
  /\ crecv' = "recv"
  /\ UNCHANGED <<wireVars, cstream, csend, lastSent, cfgIdx, newCfg, told, observed>>

\* Recv fails: done is closed.  What was not read is gone.
ClientRecvFail ==
  /\ crecv = "recv" /\ Fails(cstream)
  /\ crecv' = "done"
  /\ down' = [down EXCEPT ![cstream] = <<>>]
  /\ UNCHANGED <<link, up, cstream, csend, lastSent, cfgIdx, newCfg, cfg, told, observed>>

Current == [idx |-> cfgIdx, status |-> observed]

BadDue == lastSent # Current

\* The first check-in, one that says something new, or one 30 seconds after
\* the last, when what was sent before has been read.
Due == lastSent # Current \/ (up[cstream] = <<>> /\ down[cstream] = <<>>)

\* Sampling the state and sending it are one step: what is received between
\* the two makes the next check-in a changed one.
ClientSend ==
  /\ csend = "run" /\ Due /\ Len(up[cstream]) < UpBound
  /\ SendUp(cstream, Current)
  /\ lastSent' = Current
  /\ UNCHANGED <<cstream, crecv, csend, cfgIdx, newCfg, cfg, told, observed>>

ClientSendFails ==
  /\ csend = "run" /\ Fails(cstream)
  /\ csend' = "done"
  /\ UNCHANGED <<wireVars, cstream, crecv, lastSent, cfgIdx, newCfg, cfg, told, observed>>

ClientSendQuit ==
  /\ csend = "run" /\ crecv = "done"
  /\ csend' = "done"
  /\ UNCHANGED <<wireVars, cstream, crecv, lastSent, cfgIdx, newCfg, cfg, told, observed>>

-----------------------------------------------------------------------------
\* The component calls Status.  It says "stopping" only when told to stop.
ClientStatus ==
  /\ told /\ observed = "running"
  /\ observed' = "stopping"
  /\ UNCHANGED <<wireVars, cstream, crecv, csend, lastSent, cfgIdx, newCfg, cfg, told>>

\* The process ends: OnStop or a failed OnConfig cancelled its context, or it
\* crashed.  The agent's node starts a new one with the same token.
ClientExit ==
  /\ link' = [s \in Stream |-> IF s = cstream THEN "broken" ELSE link[s]]
  /\ down' = [s \in Stream |-> IF s = cstream THEN <<>> ELSE down[s]]
  /\ Fresh
  /\ UNCHANGED up

ReceivingStep == ClientRecv \/ ConfigDone \/ ClientRecvFail
SendingStep   == ClientSend \/ ClientSendFails \/ ClientSendQuit

ClientRun ==
  \/ \E s \in Stream : Dial(s)
  \/ LoopEnd
  \/ ReceivingStep \/ SendingStep
  \/ ClientStatus

ClientNext == ClientRun \/ ClientExit
=============================================================================

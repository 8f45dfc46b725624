----------------------------- MODULE DebugProof -----------------------------
(***************************************************************************)
(* What holds of the debug command for any number of streams: its types,   *)
(* that the component is configured once, and that the controller and the  *)
(* client implement Instructions, as the agent and the client do.          *)
(***************************************************************************)
EXTENDS Debug, SequenceTheorems, TLAPS

LEMMA AppendTail ==
  ASSUME NEW S
  PROVE  /\ \A q \in Seq(S), m \in S : Append(q, m) \in Seq(S)
         /\ \A q \in Seq(S) : q # <<>> => Head(q) \in S /\ Tail(q) \in Seq(S)
BY AppendProperties, HeadTailProperties

-----------------------------------------------------------------------------
(* The invariant.  The queues are sequences over smaller sets than the     *)
(* types have: a check-in names the index 0, or the client's; a reply      *)
(* carries the configuration, or is for a client that has it.              *)

Told1 == [state |-> "running", idx |-> 1, cfg |-> InitConfig]
Later == [state |-> "running", idx |-> 1, cfg |-> None]

\* What may be on the wire to or from a client whose index is i.
CheckIns(i) == {m \in Observed : m.idx = 0 \/ (m.idx = 1 /\ i = 1)}
Replies(i)  == {Told1} \cup (IF i = 1 THEN {Later} ELSE {})

WireInv ==
  /\ link \in [Stream -> {"none", "open", "broken"}]
  /\ up   \in [Stream -> Seq(CheckIns(cfgIdx))]
  /\ down \in [Stream -> Seq(Replies(cfgIdx))]

ReplyInv ==
  /\ handler \in [Stream -> {"off", "recv", "send", "ended"}]
  /\ reply \in [Stream -> Replies(cfgIdx) \cup {None}]
  /\ \A s \in Stream : handler[s] = "send" => reply[s] \in Replies(cfgIdx)

\* The client is given the configuration once, and keeps it.
ConfigInv ==
  \/ cfgIdx = 0 /\ newCfg = None /\ cfg = None /\ crecv # "config"
  \/ /\ cfgIdx = 1 /\ newCfg = InitConfig
     /\ cfg = None \/ (cfg = InitConfig /\ crecv # "config")

ClientInv ==
  /\ cstream \in Stream \cup {None}
  /\ cstream = None => crecv = "off" /\ csend = "off"
  /\ crecv \in {"off", "recv", "config", "done"} /\ csend \in {"off", "run", "done"}
  /\ lastSent \in Observed \cup {None}
  /\ told = FALSE /\ observed = "running"

CommandInv ==
  /\ sends \in BOOLEAN
  /\ command \in Command
  /\ ctx \in {"live", "done"}
  /\ failed \in BOOLEAN
  /\ writer \in {"off", "write", "errChan", "over"}
  /\ serve \in {"off", "pending", "on", "stopped", "over"}
  /\ endpoint \in {"off", "opened", "on", "doomed"}
  /\ crashed \in {"no", "receiver", "action"}

DebugInv == WireInv /\ ReplyInv /\ ConfigInv /\ ClientInv /\ CommandInv

\* An index that has become 1 leaves what is on its way where it was.
LEMMA WiderSets ==
  ASSUME ConfigInv
  PROVE  /\ CheckIns(cfgIdx) \subseteq CheckIns(1) /\ Replies(cfgIdx) \subseteq Replies(1)
         /\ CheckIns(cfgIdx) \subseteq Observed /\ Replies(cfgIdx) \subseteq Expected
<1>1. Told1 \in Expected /\ Later \in Expected
  BY DEF Told1, Later, Expected, AnyConfig
<1>2. QED  BY <1>1 DEF CheckIns, Replies

LEMMA SeqWider == ASSUME NEW S, NEW T, S \subseteq T PROVE Seq(S) \subseteq Seq(T)
<1>1. ASSUME NEW q \in Seq(S) PROVE q \in Seq(T)
  <2>1. \A i \in 1..Len(q) : q[i] \in T
    BY ElementOfSeq
  <2>2. QED  BY <2>1, LenProperties, SeqDef
<1>2. QED  BY <1>1

LEMMA DebugInvTypes == DebugInv => TypeOK
<1> SUFFICES ASSUME DebugInv PROVE TypeOK  OBVIOUS
<1>1. /\ Seq(CheckIns(cfgIdx)) \subseteq Seq(Observed)
      /\ Seq(Replies(cfgIdx)) \subseteq Seq(Expected)
      /\ Replies(cfgIdx) \subseteq Expected
  BY WiderSets, SeqWider DEF DebugInv
<1>2. WireTypeOK
  BY <1>1 DEF DebugInv, WireInv, WireTypeOK
<1>3. ClientTypeOK
  <2>1. told \in BOOLEAN /\ observed \in {"running", "stopping"}
    BY DEF DebugInv, ClientInv
  <2>2. cfgIdx \in Nat /\ newCfg \in AnyConfig /\ cfg \in AnyConfig
    BY DEF DebugInv, ConfigInv, AnyConfig
  <2>3. QED  BY <2>1, <2>2 DEF DebugInv, ClientInv, ClientTypeOK
<1>4. reply \in [Stream -> Expected \cup {None}]
  BY <1>1 DEF DebugInv, ReplyInv
<1>5. QED  BY <1>2, <1>3, <1>4 DEF DebugInv, ReplyInv, CommandInv, TypeOK

LEMMA InitDebug == Init => DebugInv
<1> SUFFICES ASSUME Init PROVE DebugInv  OBVIOUS
<1> USE DEF Init
<1>1. WireInv
  BY EmptySeq DEF WireInit, WireInv
<1>2. ReplyInv /\ CommandInv
  BY DEF ReplyInv, CommandInv, Command
<1>3. ConfigInv /\ ClientInv
  BY DEF ClientInit, ConfigInv, ClientInv
<1>4. QED  BY <1>1, <1>2, <1>3 DEF DebugInv

-----------------------------------------------------------------------------
(* Every step keeps it.                                                    *)

\* RunE, the writer, the servers and the interrupt touch the wire only to
\* break it.
LEMMA CommandKeeps ==
  ASSUME DebugInv, CommandStep \/ WriteInfo \/ Interrupt \/ Servers \/ PerformAction
  PROVE  DebugInv'
<1> USE DEF CommandStep, Servers, RunController, RunReceiver, WriteInfo, NewRunner,
            RunReturns, ReadErrChan, Interrupt, ServeController, StopController,
            ServeReceiver, StopReceiver, PerformAction
<1>1. UNCHANGED <<up, down, clientVars, handler, reply>>
  BY DEF wireVars
<1>2. link' \in [Stream -> {"none", "open", "broken"}]
  BY DEF DebugInv, WireInv, wireVars
<1>3. CommandInv'
  BY DEF DebugInv, CommandInv, Command
<1>4. WireInv' /\ ReplyInv' /\ ConfigInv' /\ ClientInv'
  BY <1>1, <1>2 DEF DebugInv, WireInv, ReplyInv, ConfigInv, ClientInv, clientVars
<1>5. QED  BY <1>3, <1>4 DEF DebugInv

LEMMA ReplyIs ==
  ASSUME NEW i, NEW m \in CheckIns(i)
  PROVE  Reply(m) \in Replies(i)
BY DEF CheckIns, Replies, Reply, Told1, Later

LEMMA HandlerKeeps ==
  ASSUME DebugInv, NEW s \in Stream, HandlerStep(s)
  PROVE  DebugInv'
<1> USE DEF Handle
<1>1. UNCHANGED <<clientVars, sends, command, ctx, failed, writer, serve, endpoint, crashed>>
  BY DEF HandlerStep, HandlerBegins, HandlerRecv, HandlerSend, HandlerFails
<1>2. ConfigInv' /\ ClientInv' /\ CommandInv' /\ cfgIdx' = cfgIdx
  BY <1>1 DEF DebugInv, ConfigInv, ClientInv, CommandInv, clientVars
<1>3. WireInv' /\ ReplyInv'
  <2> USE DEF DebugInv, WireInv, ReplyInv
  <2>1. CASE HandlerBegins(s)
    BY <1>2, <2>1 DEF HandlerBegins, wireVars
  <2>2. CASE HandlerRecv(s)
    <3>1. Head(up[s]) \in CheckIns(cfgIdx) /\ Tail(up[s]) \in Seq(CheckIns(cfgIdx))
      BY <2>2, AppendTail DEF HandlerRecv
    <3>2. Reply(Head(up[s])) \in Replies(cfgIdx)
      BY <3>1, ReplyIs
    <3>3. QED  BY <1>2, <2>2, <3>1, <3>2 DEF HandlerRecv
  <2>3. CASE HandlerSend(s)
    <3>1. Append(down[s], reply[s]) \in Seq(Replies(cfgIdx))
      BY <2>3, AppendTail DEF HandlerSend
    <3>2. QED  BY <1>2, <2>3, <3>1 DEF HandlerSend, SendDown
  <2>4. CASE HandlerFails(s)
    BY <1>2, <2>4 DEF HandlerFails, wireVars
  <2>5. QED  BY <2>1, <2>2, <2>3, <2>4 DEF HandlerStep
<1>4. QED  BY <1>2, <1>3 DEF DebugInv

\* A client that connects, leaves, sends or loses its stream.
LEMMA StreamKeeps ==
  ASSUME DebugInv, ClientLoop \/ Client(SendingStep) \/ Break
  PROVE  DebugInv'
<1> USE DEF Client
<1>1. UNCHANGED <<debugVars, cfgIdx, newCfg, cfg, told, observed>>
  BY DEF ClientLoop, Connect, CancelStream, Dial, LoopEnd, SendingStep, ClientSend,
     ClientSendFails, ClientSendQuit, Break, clientVars
<1>2. ReplyInv' /\ CommandInv' /\ cfgIdx' = cfgIdx
  BY <1>1 DEF DebugInv, ReplyInv, CommandInv, debugVars
<1>3. ConfigInv'
  <2>1. crecv' = "config" => crecv = "config"
    BY DEF ClientLoop, Connect, CancelStream, Dial, LoopEnd, SendingStep, ClientSend,
       ClientSendFails, ClientSendQuit, Break, clientVars
  <2>2. QED  BY <1>1, <2>1 DEF DebugInv, ConfigInv
<1>4. WireInv' /\ ClientInv'
  <2> USE DEF DebugInv, WireInv, ClientInv
  <2>1. ASSUME NEW s \in Stream, Connect(s) PROVE WireInv' /\ ClientInv'
    BY <1>2, <2>1, ConfigAssumption DEF Connect, Dial
  <2>2. CASE LoopEnd
    BY <1>2, <2>2 DEF LoopEnd, wireVars
  <2>3. CASE ClientSend
    <3>1. Current \in CheckIns(cfgIdx) /\ Current \in Observed
      BY DEF Current, CheckIns, Observed, ConfigInv
    <3>2. cstream \in Stream /\ Append(up[cstream], Current) \in Seq(CheckIns(cfgIdx))
      BY <2>3, <3>1, AppendTail DEF ClientSend
    <3>3. QED  BY <1>2, <2>3, <3>1, <3>2 DEF ClientSend, SendUp
  <2>4. CASE ClientSendFails \/ ClientSendQuit
    BY <1>2, <2>4 DEF ClientSendFails, ClientSendQuit, wireVars
  <2>5. CASE (\E s \in Stream : NetBreak(s)) /\ UNCHANGED clientVars
    BY <1>2, <2>5 DEF NetBreak, Close, clientVars
  <2>6. QED
    BY <2>1, <2>2, <2>3, <2>4, <2>5 DEF ClientLoop, CancelStream, SendingStep, Break
<1>5. QED  BY <1>2, <1>3, <1>4 DEF DebugInv

\* What a client that has no configuration reads is the configuration; one
\* that has it finds no news.
LEMMA ReadsOnce ==
  ASSUME DebugInv, ClientRecv
  PROVE  /\ down' \in [Stream -> Seq(Replies(cfgIdx))] /\ told' = FALSE
         /\ \/ cfgIdx = 0 /\ cfgIdx' = 1 /\ newCfg' = InitConfig /\ crecv' = "config"
            \/ cfgIdx = 1 /\ UNCHANGED <<cfgIdx, newCfg, crecv>>
<1> USE DEF DebugInv, WireInv, ClientInv
<1> DEFINE m == Head(down[cstream])
<1>1. cstream \in Stream /\ m \in Replies(cfgIdx) /\ Tail(down[cstream]) \in Seq(Replies(cfgIdx))
  BY AppendTail DEF ClientRecv
<1>2. m.state = "running" /\ m.idx = 1 /\ (cfgIdx # 1 => m.cfg = InitConfig)
  BY <1>1 DEF Replies, Told1, Later
<1>3. told' = FALSE
  BY <1>2 DEF ClientRecv
<1>4. News(m) <=> cfgIdx # 1
  BY <1>2, <1>3 DEF News
<1>5. CASE cfgIdx = 0
  BY <1>1, <1>2, <1>3, <1>4, <1>5 DEF ClientRecv, Accept
<1>6. CASE cfgIdx = 1
  BY <1>1, <1>3, <1>4, <1>6 DEF ClientRecv
<1>7. QED  BY <1>5, <1>6 DEF ConfigInv

LEMMA ReceiveKeeps ==
  ASSUME DebugInv, ClientReceives
  PROVE  DebugInv'
<1> USE DEF Client, DebugInv
<1>1. CASE ClientRecv /\ UNCHANGED debugVars
  <2>1. /\ CheckIns(cfgIdx) \subseteq CheckIns(cfgIdx')
        /\ Replies(cfgIdx) \subseteq Replies(cfgIdx')
    BY <1>1, ReadsOnce, WiderSets
  <2>2. /\ Seq(CheckIns(cfgIdx)) \subseteq Seq(CheckIns(cfgIdx'))
        /\ Seq(Replies(cfgIdx)) \subseteq Seq(Replies(cfgIdx'))
    BY <2>1, SeqWider
  <2>3. WireInv'
    BY <1>1, <2>2, ReadsOnce DEF ClientRecv, WireInv
  <2>4. ReplyInv' /\ CommandInv'
    BY <1>1, <2>1 DEF ReplyInv, CommandInv, debugVars
  <2>5. ConfigInv'
    <3>1. cfg' = cfg /\ crecv # "config"
      BY <1>1 DEF ClientRecv
    <3>2. CASE cfgIdx = 0 /\ cfgIdx' = 1 /\ newCfg' = InitConfig
      BY <3>1, <3>2 DEF ConfigInv
    <3>3. CASE UNCHANGED <<cfgIdx, newCfg, crecv>>
      BY <3>1, <3>3 DEF ConfigInv
    <3>4. QED  BY <1>1, <3>2, <3>3, ReadsOnce
  <2>6. ClientInv'
    BY <1>1, ReadsOnce DEF ClientRecv, ClientInv
  <2>7. QED  BY <2>3, <2>4, <2>5, <2>6
<1>2. CASE ConfigDone /\ UNCHANGED debugVars
  BY <1>2 DEF ConfigDone, WireInv, ReplyInv, ConfigInv, ClientInv, CommandInv, debugVars, wireVars
<1>3. CASE ClientRecvFail /\ UNCHANGED debugVars
  BY <1>3, EmptySeq DEF ClientRecvFail, WireInv, ReplyInv, ConfigInv, ClientInv, CommandInv,
     debugVars
<1>4. CASE ConfigFails
  BY <1>4 DEF ConfigFails, WireInv, ReplyInv, ConfigInv, ClientInv, CommandInv, wireVars
<1>5. QED  BY <1>1, <1>2, <1>3, <1>4 DEF ClientReceives, ReceivingStep

LEMMA NextDebug == DebugInv /\ [Next]_vars => DebugInv'
<1> SUFFICES ASSUME DebugInv, [Next]_vars PROVE DebugInv'
  OBVIOUS
<1>1. CASE Next
  BY <1>1, CommandKeeps, HandlerKeeps, StreamKeeps, ReceiveKeeps DEF Next, Go
<1>2. CASE UNCHANGED vars
  BY <1>2 DEF vars, wireVars, clientVars, debugVars, DebugInv, WireInv, ReplyInv, ConfigInv,
     ClientInv, CommandInv
<1>3. QED  BY <1>1, <1>2

LEMMA DebugInvariant == Spec => []DebugInv
BY InitDebug, NextDebug, PTL DEF Spec

\* Every variable of the command, the controller and the client keeps its type.
THEOREM DebugTypeCorrect == Spec => []TypeOK
BY DebugInvariant, DebugInvTypes, PTL

\* OnConfig is called with the debug configuration and once, over any number of
\* streams and of check-ins that are answered late.
THEOREM DebugConfiguresOnce == Spec => []ConfiguredOnce
<1>1. DebugInv => ConfiguredOnce
  BY DEF DebugInv, ConfigInv, ConfiguredOnce
<1>2. QED  BY <1>1, DebugInvariant, PTL

-----------------------------------------------------------------------------
(* The same promise as the agent's.                                        *)

LEMMA ReceiveObeys ==
  ASSUME DebugInv, ClientReceives
  PROVE  [Told!Next]_(Told!vars)
<1> USE DEF Client, Told!vars
<1>1. CASE ClientRecv
  <2>1. CASE cfgIdx = 0 /\ cfgIdx' = 1 /\ newCfg' = InitConfig
    <3>1. ~told
      BY DEF DebugInv, ClientInv
    <3>2. UNCHANGED <<cfg, told>>
      BY <1>1, ReadsOnce DEF ClientRecv, DebugInv, ClientInv
    <3>3. Told!Take
      BY <2>1, <3>1, <3>2 DEF Told!Take
    <3>4. QED  BY <3>3 DEF Told!Next
  <2>2. CASE UNCHANGED <<cfgIdx, newCfg>>
    BY <1>1, <2>2, ReadsOnce DEF ClientRecv, DebugInv, ClientInv
  <2>3. QED  BY <1>1, <2>1, <2>2, ReadsOnce
<1>2. CASE ConfigDone
  <2>1. Told!Apply
    BY <1>2 DEF ConfigDone, DebugInv, ConfigInv, Told!Apply
  <2>2. QED  BY <2>1 DEF Told!Next
<1>3. CASE ClientRecvFail \/ ConfigFails
  BY <1>3 DEF ClientRecvFail, ConfigFails
<1>4. QED  BY <1>1, <1>2, <1>3 DEF ClientReceives, ReceivingStep

\* The controller and the client implement Instructions, with one configuration
\* and nobody to stop it: what the component runs with is what it was given
\* (control.go:124-142, client.go:222-249).
THEOREM DebugObeys == Spec => Obeys
<1>1. Init => Told!Init
  BY DEF Init, ClientInit, Told!Init
<1>2. DebugInv /\ [Next]_vars => [Told!Next]_(Told!vars)
  <2> SUFFICES ASSUME DebugInv, [Next]_vars PROVE [Told!Next]_(Told!vars)
    OBVIOUS
  <2>1. CASE ClientReceives
    BY <2>1, ReceiveObeys
  <2>2. CASE UNCHANGED <<cfgIdx, newCfg, cfg, told>>
    BY <2>2 DEF Told!vars
  <2>3. CASE CommandStep \/ WriteInfo \/ Interrupt \/ Servers \/ PerformAction
    BY <2>2, <2>3 DEF CommandStep, Servers, RunController, RunReceiver, WriteInfo, NewRunner,
       RunReturns, ReadErrChan, Interrupt, ServeController, StopController, ServeReceiver,
       StopReceiver, PerformAction, clientVars
  <2>4. CASE \E s \in Stream : HandlerStep(s)
    BY <2>2, <2>4 DEF HandlerStep, HandlerBegins, HandlerRecv, HandlerSend, HandlerFails,
       Handle, clientVars
  <2>5. CASE ClientLoop \/ Client(SendingStep) \/ Break
    BY <2>2, <2>5 DEF Client, ClientLoop, Connect, CancelStream, Dial, LoopEnd, SendingStep,
       ClientSend, ClientSendFails, ClientSendQuit, Break, clientVars
  <2>6. CASE UNCHANGED vars
    BY <2>2, <2>6 DEF vars, clientVars
  <2>7. QED  BY <2>1, <2>3, <2>4, <2>5, <2>6 DEF Next, Go
<1>3. QED  BY <1>1, <1>2, DebugInvariant, PTL DEF Spec, Obeys, Told!Spec
=============================================================================

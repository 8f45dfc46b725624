----------------------------- MODULE NodesProof -----------------------------
(***************************************************************************)
(* What holds of the nodes of every chain, however long it is and whatever *)
(* configurations its nodes are sent and refuse.                           *)
(***************************************************************************)
EXTENDS Nodes, TLAPS

USE RunnerAssumption DEF Node

(* The functions over the nodes keep their types when one of them changes. *)
LEMMA OneChanges ==
    ASSUME NEW S, NEW f \in [Node -> S], NEW n \in Node, NEW v \in S
    PROVE  [f EXCEPT ![n] = v] \in [Node -> S]
OBVIOUS

(***************************************************************************)
(* A chain that NewPipeline has accepted loads: the first node sends to    *)
(* the second, the last receives from the one before it.                   *)
(***************************************************************************)
LEMMA PipelineLoads ==
    ASSUME NEW ks \in [Node -> Kind], NewPipeline(ks), NEW n \in Node
    PROVE  Load(ks[n], ConnInfo(ks, n))
<1>1. Last \in Nat /\ Last >= 2
  OBVIOUS
<1>2. Len(ks) = Last
  <2>1. ks \in Seq(Kind)
    BY <1>1
  <2> QED
    BY <1>1, <2>1
<1>3. CASE n = 1
  BY <1>1, <1>2, <1>3 DEF Load, ConnInfo, NewPipeline, Kind
<1>4. CASE n = Last
  BY <1>1, <1>2, <1>4 DEF Load, ConnInfo, NewPipeline, Kind
<1>5. CASE n # 1 /\ n # Last
  BY <1>1, <1>2, <1>5 DEF Load, ConnInfo, NewPipeline, Kind
<1> QED
  BY <1>3, <1>4, <1>5

(* Between processes the chain has been accepted by NewPipeline. *)
Accepted == mode = "process" => NewPipeline(kinds)

Process == [Node -> IF InProcess THEN Proc \ {"loading"} ELSE Proc \ {"ended"}]

TypeInv == NodesTypes /\ Accepted

LEMMA InitTypes == Init => TypeInv
<1> SUFFICES ASSUME Init PROVE TypeInv
  OBVIOUS
<1>1. RunnerTypes
  BY DEF Init, RunnerInit, RunnerTypes, Step, Endpoint, NoConfig
<1>2. proc \in Process
  BY DEF Init, Process, Proc
<1>3. Accepted
  BY DEF Init, RunnerInit, Accepted
<1>4. /\ agent \in {"up", "over"} /\ starting \in 0 .. Last
      /\ wanted \in [Node -> 1 .. MaxConfig] /\ due \in [Node -> BOOLEAN]
      /\ stop \in [Node -> BOOLEAN] /\ stopping \in [Node -> BOOLEAN]
      /\ faults \in 0 .. MaxFaults
  BY NodesAssumption DEF Init
<1> QED
  BY <1>1, <1>2, <1>3, <1>4 DEF TypeInv, NodesTypes, Process
-----------------------------------------------------------------------------
(* What a runner does by itself keeps its types. *)
RunnerStep(n) ==
    \/ \E c \in Nat : IF mode = "direct" THEN DirectOnConfig(n, c) ELSE OnConfig(n, c)
    \/ RunReceiver(n)
    \/ ListenFails(n)
    \/ RunSender(n)
    \/ RunComponent(n)
    \/ Reload(n)
    \/ Cancel(n)
    \/ Serve(n)
    \/ StopReceiver(n)

LEMMA RunnerStepTypes ==
    ASSUME RunnerTypes, NEW n \in Node, RunnerStep(n)
    PROVE  RunnerTypes' /\ UNCHANGED chain
<1> USE DEF Proceed, Fail, chain
<1>1. /\ live \in [Node -> BOOLEAN] /\ failed \in [Node -> BOOLEAN]
      /\ given \in [Node -> Nat] /\ cfg \in [Node -> Nat]
      /\ applying \in [Node -> Step] /\ receiver \in [Node -> Endpoint]
      /\ dialled \in [Node -> BOOLEAN] /\ comp \in [Node -> BOOLEAN]
      /\ mode \in Modes /\ kinds \in [Node -> Kind]
  BY DEF RunnerTypes
<1>2. ASSUME NEW c \in Nat, OnConfig(n, c) PROVE RunnerTypes' /\ UNCHANGED chain
  BY <1>1, <1>2 DEF OnConfig, AfterReceiver, RunnerTypes, Step
<1>3. ASSUME NEW c \in Nat, DirectOnConfig(n, c) PROVE RunnerTypes' /\ UNCHANGED chain
  BY <1>1, <1>3 DEF DirectOnConfig, RunnerTypes, Step
<1>4. CASE RunReceiver(n)
  BY <1>1, <1>4 DEF RunReceiver, AfterReceiver, RunnerTypes, Step, Endpoint
<1>5. CASE ListenFails(n)
  BY <1>1, <1>5 DEF ListenFails, RunnerTypes, Step
<1>6. CASE RunSender(n)
  <2>1. (dialled[n] \/ live[n]) \in BOOLEAN /\ (failed[n] /\ live[n]) \in BOOLEAN
    OBVIOUS
  <2>2. dialled' \in [Node -> BOOLEAN]
    BY <1>1, <1>6, <2>1, OneChanges DEF RunSender
  <2>3. failed' \in [Node -> BOOLEAN]
    BY <1>1, <1>6, <2>1, OneChanges DEF RunSender
  <2>4. applying' \in [Node -> Step]
    BY <1>1, <1>6 DEF RunSender, Step
  <2>5. UNCHANGED <<mode, kinds, live, given, cfg, receiver, comp>>
    BY <1>6 DEF RunSender
  <2> QED
    BY <1>1, <2>2, <2>3, <2>4, <2>5 DEF RunnerTypes
<1>7. CASE RunComponent(n)
  BY <1>1, <1>7 DEF RunComponent, RunnerTypes, Step
<1>8. CASE Reload(n)
  BY <1>1, <1>8 DEF Reload, RunnerTypes, Step
<1>9. CASE Cancel(n)
  BY <1>1, <1>9 DEF Cancel, RunnerTypes
<1>10. CASE Serve(n)
  BY <1>1, <1>10 DEF Serve, RunnerTypes, Endpoint
<1>11. CASE StopReceiver(n)
  BY <1>1, <1>11 DEF StopReceiver, RunnerTypes, Endpoint
<1> QED
  BY <1>2, <1>3, <1>4, <1>5, <1>6, <1>7, <1>8, <1>9, <1>10, <1>11 DEF RunnerStep

(* A new process, or another run of the old runner in the agent's own. *)
Anew(n) ==
    /\ UNCHANGED chain
    /\ ResetRunner(n) \/ (mode # "process" /\ RunAgain(n))

LEMMA AnewTypes ==
    ASSUME RunnerTypes, NEW n \in Node, Anew(n)
    PROVE  RunnerTypes' /\ UNCHANGED chain
<1>1. CASE ResetRunner(n)
  BY <1>1 DEF Anew, ResetRunner, RunnerTypes, Step, Endpoint, NoConfig, chain
<1>2. CASE RunAgain(n)
  BY <1>2 DEF Anew, RunAgain, RunnerTypes, chain
<1> QED
  BY <1>1, <1>2 DEF Anew

(***************************************************************************)
(* The actions of Nodes by what they do to runners: nothing, a step of a   *)
(* runner, or a new run.                                                   *)
(***************************************************************************)
LEMMA NextByRunner ==
    ASSUME TypeInv, [Next]_vars
    PROVE  \/ UNCHANGED <<chain, runnerVars>>
           \/ \E n \in Node : RunnerStep(n)
           \/ \E n \in Node : Anew(n)
<1>1. ASSUME NEW n \in Node, Work(n) PROVE RunnerStep(n)
  BY <1>1 DEF Work, RunnerStep
<1>2. ASSUME NEW n \in Node, TakeConfig(n) PROVE RunnerStep(n)
  <2>1. wanted[n] \in Nat
    BY NodesAssumption DEF TypeInv, NodesTypes
  <2> QED
    BY <1>2, <2>1 DEF TakeConfig, RunnerStep
<1>3. ASSUME NEW n \in Node, TakeStop(n) \/ Linger(n) \/ Interrupt(n) \/ CannotListen(n)
      PROVE  RunnerStep(n)
  BY <1>3 DEF TakeStop, Linger, Interrupt, CannotListen, RunnerStep
<1>4. ASSUME NEW n \in Node, Again(n) \/ InsideAgain(n)
      PROVE  Anew(n)
  BY <1>4 DEF Anew, Again, InsideAgain, InProcess
<1>5. ASSUME NEW n \in Node, \/ Start(n) \/ StartInside(n) \/ StartDirect(n) \/ LoadConn(n)
                            \/ RunReturns(n) \/ InsideReturns(n) \/ ServePanics(n)
                            \/ EarlyCall(n) \/ Die(n) \/ UpdateConfig(n) \/ Stop(n) \/ Kill(n)
                            \/ Reconnect(n)
      PROVE  UNCHANGED <<chain, runnerVars>>
  BY <1>5 DEF Start, StartInside, StartDirect, StartWith, LoadConn, RunReturns, InsideReturns,
              ServePanics, EarlyCall, Die, UpdateConfig, Stop, Kill, Reconnect
<1>6. ASSUME StartFails \/ AgentEnds PROVE UNCHANGED <<chain, runnerVars>>
  BY <1>6 DEF StartFails, AgentEnds
<1>7. ASSUME UNCHANGED vars PROVE UNCHANGED <<chain, runnerVars>>
  BY <1>7 DEF vars
<1> QED
  BY <1>1, <1>2, <1>3, <1>4, <1>5, <1>6, <1>7 DEF Next, Progress
(* A node's process is of those its chain can have. *)
LEMMA SetProcTypes ==
    ASSUME proc \in Process, NEW n \in Node, UNCHANGED chain, NEW p, SetProc(n, p),
           \/ p \in {"running", "exited"}
           \/ mode = "process" /\ p = "loading"
           \/ mode # "process" /\ p = "ended"
    PROVE  proc' \in Process'
BY DEF SetProc, Process, Proc, InProcess, chain

LEMMA NextTypes == TypeInv /\ [Next]_vars => TypeInv'
<1> SUFFICES ASSUME TypeInv, [Next]_vars PROVE TypeInv'
  OBVIOUS
<1>1. /\ RunnerTypes /\ proc \in Process
      /\ agent \in {"up", "over"} /\ starting \in 0 .. Last
      /\ wanted \in [Node -> 1 .. MaxConfig] /\ due \in [Node -> BOOLEAN]
      /\ stop \in [Node -> BOOLEAN] /\ stopping \in [Node -> BOOLEAN]
      /\ faults \in 0 .. MaxFaults
      /\ MaxConfig \in Nat /\ MaxFaults \in Nat
  BY NodesAssumption DEF TypeInv, NodesTypes, Process
<1>2. RunnerTypes' /\ UNCHANGED chain
  <2>1. CASE UNCHANGED <<chain, runnerVars>>
    BY <1>1, <2>1 DEF RunnerTypes, chain, runnerVars
  <2>2. ASSUME NEW n \in Node, RunnerStep(n) PROVE RunnerTypes' /\ UNCHANGED chain
    BY <1>1, <2>2, RunnerStepTypes
  <2>3. ASSUME NEW n \in Node, Anew(n)
        PROVE  RunnerTypes' /\ UNCHANGED chain
    BY <1>1, <2>3, AnewTypes
  <2> QED
    BY <2>1, <2>2, <2>3, NextByRunner
<1>3. Accepted'
  BY <1>2 DEF TypeInv, Accepted, chain
<1> DEFINE Others == /\ agent' \in {"up", "over"} /\ starting' \in 0 .. Last
                     /\ wanted' \in [Node -> 1 .. MaxConfig] /\ due' \in [Node -> BOOLEAN]
                     /\ stop' \in [Node -> BOOLEAN] /\ stopping' \in [Node -> BOOLEAN]
                     /\ faults' \in 0 .. MaxFaults
           Kept == proc' \in Process' /\ Others
<1>4. Process' = Process
  BY <1>2 DEF Process, InProcess, chain
<1>5. ASSUME NEW n \in Node, UNCHANGED nodesVars PROVE Kept
  BY <1>1, <1>4, <1>5 DEF nodesVars
<1>6. ASSUME NEW n \in Node, TakeConfig(n) \/ Work(n) \/ Linger(n) PROVE Kept
  <2>1. CASE TakeConfig(n)
    <3>1. due' \in [Node -> BOOLEAN]
      BY <1>1, <2>1 DEF TakeConfig
    <3> QED
      BY <1>1, <1>4, <2>1, <3>1 DEF TakeConfig
  <2>2. CASE Work(n) \/ Linger(n)
    BY <1>5, <2>2 DEF Work, Linger
  <2> QED
    BY <1>6, <2>1, <2>2
<1>7. ASSUME NEW n \in Node, Start(n) \/ StartInside(n) \/ StartDirect(n) PROVE Kept
  <2>1. n - 1 \in 0 .. Last
    OBVIOUS
  <2>2. CASE Start(n)
    BY <1>1, <1>2, <2>1, <2>2, SetProcTypes DEF Start
  <2>3. ASSUME NEW loads, StartWith(n, loads) PROVE Kept
    BY <1>1, <1>2, <1>4, <2>1, <2>3, SetProcTypes DEF StartWith
  <2> QED
    BY <1>7, <2>2, <2>3 DEF StartInside, StartDirect
<1>8. ASSUME NEW n \in Node, LoadConn(n) \/ RunReturns(n) \/ InsideReturns(n) PROVE Kept
  <2>1. CASE LoadConn(n)
    BY <1>1, <1>2, <2>1, SetProcTypes DEF LoadConn
  <2>2. CASE RunReturns(n)
    BY <1>1, <1>2, <2>2, SetProcTypes DEF RunReturns
  <2>3. CASE InsideReturns(n)
    BY <1>1, <1>2, <2>3, SetProcTypes DEF InsideReturns, InProcess
  <2> QED
    BY <1>8, <2>1, <2>2, <2>3
<1>9. ASSUME NEW n \in Node, Again(n) \/ InsideAgain(n) PROVE Kept
  <2>o. due' \in [Node -> BOOLEAN]
    BY <1>1, <1>9 DEF Again, InsideAgain, Offer
  <2>1. CASE Again(n)
    BY <1>1, <1>2, <2>o, <2>1, SetProcTypes DEF Again
  <2>2. CASE InsideAgain(n)
    BY <1>1, <1>2, <2>o, <2>2, SetProcTypes DEF InsideAgain
  <2> QED
    BY <1>9, <2>1, <2>2
<1>10. ASSUME NEW n \in Node, ServePanics(n) \/ Kill(n) PROVE Kept
  <2>1. CASE ServePanics(n)
    BY <1>1, <1>2, <1>4, <2>1, SetProcTypes DEF ServePanics
  <2>2. CASE Kill(n)
    BY <1>1, <1>2, <2>2, SetProcTypes DEF Kill
  <2> QED
    BY <1>10, <2>1, <2>2
<1>11. ASSUME NEW n \in Node, \/ EarlyCall(n) \/ Die(n) \/ Interrupt(n) \/ CannotListen(n)
                             \/ Reconnect(n)
       PROVE  Kept
  <2>1. faults' \in 0 .. MaxFaults
    BY <1>1, <1>11 DEF EarlyCall, Die, Interrupt, CannotListen, Reconnect, Fault
  <2>2. CASE EarlyCall(n)
    BY <1>1, <1>2, <1>4, <2>1, <2>2, SetProcTypes DEF EarlyCall
  <2>3. CASE Die(n)
    BY <1>1, <1>2, <2>1, <2>3, SetProcTypes DEF Die
  <2>4. CASE Interrupt(n) \/ CannotListen(n)
    BY <1>1, <1>4, <2>1, <2>4 DEF Interrupt, CannotListen
  <2>5. CASE Reconnect(n)
    BY <1>1, <1>4, <2>1, <2>5 DEF Reconnect, Offer
  <2> QED
    BY <1>11, <2>2, <2>3, <2>4, <2>5
<1>12. ASSUME NEW n \in Node, TakeStop(n) \/ UpdateConfig(n) \/ Stop(n) PROVE Kept
  <2>1. CASE TakeStop(n)
    BY <1>1, <1>4, <2>1 DEF TakeStop
  <2>2. CASE UpdateConfig(n)
    <3>1. wanted[n] + 1 \in 1 .. MaxConfig
      BY <1>1, <2>2 DEF UpdateConfig
    <3>2. wanted' \in [Node -> 1 .. MaxConfig]
      BY <1>1, <2>2, <3>1 DEF UpdateConfig
    <3>3. due' \in [Node -> BOOLEAN]
      BY <1>1, <2>2 DEF UpdateConfig, Offer
    <3> QED
      BY <1>1, <1>4, <2>2, <3>2, <3>3 DEF UpdateConfig
  <2>3. CASE Stop(n)
    BY <1>1, <1>4, <2>3 DEF Stop
  <2> QED
    BY <1>12, <2>1, <2>2, <2>3
<1>13. ASSUME StartFails \/ AgentEnds PROVE Kept
  BY <1>1, <1>4, <1>13 DEF StartFails, AgentEnds
<1>14. ASSUME UNCHANGED vars PROVE Kept
  BY <1>1, <1>4, <1>14 DEF vars, nodesVars
<1>15. Kept
  BY <1>6, <1>7, <1>8, <1>9, <1>10, <1>11, <1>12, <1>13, <1>14 DEF Next, Progress
<1> QED
  BY <1>2, <1>3, <1>15 DEF TypeInv, NodesTypes, Process

(***************************************************************************)
(* The runner of every node, and its process, are what the code can make   *)
(* of them.                                                                *)
(***************************************************************************)
THEOREM NodesTypeCorrect == Spec => []TypeOK
<1>1. TypeInv => TypeOK
  BY DEF TypeInv, TypeOK
<1> QED
  BY <1>1, InitTypes, NextTypes, PTL DEF Spec

(***************************************************************************)
(* No process of an accepted chain, of whatever components and length,     *)
(* lacks connection information.                                           *)
(***************************************************************************)
THEOREM NodesLoad == Spec => []AcceptedLoads
<1>1. TypeInv => AcceptedLoads
  BY PipelineLoads DEF TypeInv, NodesTypes, RunnerTypes, Accepted, AcceptedLoads, Loads,
                       InProcess, Proc
<1> QED
  BY <1>1, InitTypes, NextTypes, PTL DEF Spec
-----------------------------------------------------------------------------
(***************************************************************************)
(* Why a configured process is equipped: what OnConfig has done before the *)
(* step it is at is still there, because only a context that is done takes *)
(* anything away and a process has one context.                            *)
(***************************************************************************)
Open(n) == HasReceiver(n) => receiver[n] \in {"opened", "on"}

Ordered(n) ==
    live[n] =>
        /\ receiver[n] # "doomed"
        /\ applying[n] = "nothing" => given[n] = cfg[n]
        /\ applying[n] \in {"sender", "component"} => Open(n)
        /\ applying[n] = "component" => (HasSender(n) => dialled[n])
        /\ applying[n] = "reload" => cfg[n] # NoConfig
        /\ cfg[n] # NoConfig => Equipped(n)

OrderInv == mode = "process" => \A n \in Node : Ordered(n)

LEMMA InitOrder == Init => OrderInv
BY DEF Init, RunnerInit, OrderInv, Ordered

(* A step of one runner leaves what the others have. *)
LEMMA RunnerStepLocal ==
    ASSUME RunnerTypes, NEW n \in Node, RunnerStep(n) \/ (UNCHANGED chain /\ ResetRunner(n)),
           NEW m \in Node, m # n, Ordered(m)
    PROVE  Ordered(m)'
<1>1. /\ live \in [Node -> BOOLEAN] /\ given \in [Node -> Nat] /\ cfg \in [Node -> Nat]
      /\ applying \in [Node -> Step] /\ receiver \in [Node -> Endpoint]
      /\ dialled \in [Node -> BOOLEAN] /\ comp \in [Node -> BOOLEAN]
  BY DEF RunnerTypes
<1> DEFINE Same == /\ live'[m] = live[m] /\ given'[m] = given[m] /\ cfg'[m] = cfg[m]
                   /\ applying'[m] = applying[m] /\ receiver'[m] = receiver[m]
                   /\ dialled'[m] = dialled[m] /\ comp'[m] = comp[m]
                   /\ UNCHANGED <<mode, kinds>>
<1> USE DEF Proceed, Fail, chain
<1>2. ASSUME NEW c \in Nat, OnConfig(n, c) \/ DirectOnConfig(n, c) PROVE Same
  BY <1>1, <1>2 DEF OnConfig, DirectOnConfig
<1>3. ASSUME RunReceiver(n) \/ ListenFails(n) PROVE Same
  BY <1>1, <1>3 DEF RunReceiver, ListenFails
<1>4. ASSUME RunSender(n) PROVE Same
  BY <1>1, <1>4 DEF RunSender
<1>5. ASSUME RunComponent(n) \/ Reload(n) PROVE Same
  BY <1>1, <1>5 DEF RunComponent, Reload
<1>6. ASSUME Cancel(n) \/ Serve(n) \/ StopReceiver(n) PROVE Same
  BY <1>1, <1>6 DEF Cancel, Serve, StopReceiver
<1>7. ASSUME UNCHANGED chain /\ ResetRunner(n) PROVE Same
  BY <1>1, <1>7 DEF ResetRunner
<1>8. Same
  BY <1>2, <1>3, <1>4, <1>5, <1>6, <1>7 DEF RunnerStep
<1> QED
  BY <1>8 DEF Ordered, Open, Equipped, HasReceiver, HasSender

(* A step of a runner between processes keeps its own order. *)
LEMMA RunnerStepOrdered ==
    ASSUME RunnerTypes, NEW n \in Node, RunnerStep(n), mode = "process", Ordered(n)
    PROVE  Ordered(n)'
<1>1. /\ live \in [Node -> BOOLEAN] /\ given \in [Node -> Nat] /\ cfg \in [Node -> Nat]
      /\ applying \in [Node -> Step] /\ receiver \in [Node -> Endpoint]
      /\ dialled \in [Node -> BOOLEAN] /\ comp \in [Node -> BOOLEAN]
  BY DEF RunnerTypes
<1> USE DEF Ordered, Open, Equipped, HasReceiver, HasSender, Proceed, Fail, chain
<1>2. ASSUME NEW c \in Nat, OnConfig(n, c) PROVE Ordered(n)'
  BY <1>1, <1>2 DEF OnConfig, AfterReceiver
<1>3. CASE RunReceiver(n)
  <2>1. receiver[n] \in Endpoint
    BY <1>1
  <2> QED
    BY <1>1, <1>3, <2>1 DEF RunReceiver, AfterReceiver, Endpoint
<1>4. CASE ListenFails(n)
  BY <1>1, <1>4 DEF ListenFails
<1>5. CASE RunSender(n)
  <2>1. CASE ~ live[n]
    BY <1>5, <2>1 DEF RunSender
  <2>2. CASE live[n]
    <3>1. applying' = [applying EXCEPT ![n] = "component"] /\ applying[n] = "sender"
      BY <1>5, <2>2 DEF RunSender
    <3>2. dialled'[n] /\ UNCHANGED <<mode, kinds, live, given, cfg, receiver, comp>>
      BY <1>1, <1>5, <2>2 DEF RunSender
    <3> QED
      BY <1>1, <2>2, <3>1, <3>2
  <2> QED
    BY <2>1, <2>2
<1>6. CASE RunComponent(n)
  BY <1>1, <1>6 DEF RunComponent
<1>7. CASE Reload(n)
  BY <1>1, <1>7 DEF Reload
<1>8. CASE Cancel(n)
  BY <1>1, <1>8 DEF Cancel
<1>9. CASE Serve(n)
  BY <1>1, <1>9 DEF Serve
<1>10. CASE StopReceiver(n)
  BY <1>1, <1>10 DEF StopReceiver
<1> QED
  BY <1>2, <1>3, <1>4, <1>5, <1>6, <1>7, <1>8, <1>9, <1>10 DEF RunnerStep

LEMMA NextOrder == TypeInv /\ OrderInv /\ [Next]_vars => OrderInv'
<1> SUFFICES ASSUME TypeInv, OrderInv, [Next]_vars, mode' = "process", NEW m \in Node
             PROVE  Ordered(m)'
  BY DEF OrderInv
<1>1. RunnerTypes /\ UNCHANGED chain
  <2>1. RunnerTypes
    BY DEF TypeInv, NodesTypes
  <2>2. ASSUME NEW n \in Node, RunnerStep(n) PROVE UNCHANGED chain
    BY <2>1, <2>2, RunnerStepTypes
  <2>3. ASSUME NEW n \in Node, Anew(n) PROVE UNCHANGED chain
    BY <2>3 DEF Anew
  <2> QED
    BY <2>1, <2>2, <2>3, NextByRunner
<1>2. mode = "process" /\ Ordered(m)
  BY <1>1 DEF OrderInv, chain
<1>3. CASE UNCHANGED <<chain, runnerVars>>
  BY <1>2, <1>3 DEF Ordered, Open, Equipped, HasReceiver, HasSender, chain, runnerVars
<1>4. ASSUME NEW n \in Node, RunnerStep(n) PROVE Ordered(m)'
  BY <1>1, <1>2, <1>4, RunnerStepOrdered, RunnerStepLocal
<1>5. ASSUME NEW n \in Node, Anew(n) PROVE Ordered(m)'
  <2>1. CASE m # n
    BY <1>1, <1>2, <1>5, <2>1, RunnerStepLocal DEF Anew
  <2>2. CASE m = n
    BY <1>1, <1>2, <1>5, <2>2 DEF Anew, ResetRunner, RunnerTypes, Ordered
  <2> QED
    BY <2>1, <2>2
<1> QED
  BY <1>2, <1>3, <1>4, <1>5, NextByRunner

LEMMA OrderInvariant == Spec => []OrderInv
BY InitTypes, NextTypes, InitOrder, NextOrder, PTL DEF Spec

(***************************************************************************)
(* A process with a configuration has what its component needs.            *)
(***************************************************************************)
THEOREM NodesEquipped == Spec => []ConfiguredIsEquipped
<1>1. OrderInv => ConfiguredIsEquipped
  BY DEF OrderInv, Ordered, ConfiguredIsEquipped, EquippedOnceConfigured
<1> QED
  BY <1>1, OrderInvariant, PTL

(***************************************************************************)
(* The index that a process reports is that of what its component runs     *)
(* with.                                                                   *)
(***************************************************************************)
THEOREM NodesReportApplied == Spec => []ProcessReportsApplied
<1>1. OrderInv => ProcessReportsApplied
  BY DEF OrderInv, Ordered, ProcessReportsApplied, ReportedIsApplied
<1> QED
  BY <1>1, OrderInvariant, PTL
-----------------------------------------------------------------------------
(***************************************************************************)
(* Between processes a runner's context, once over, is over for good, and  *)
(* the word to stop comes when OnConfig is at nothing.                     *)
(***************************************************************************)
Quiet(n) == ~ live[n] /\ applying[n] = "nothing"

StopInv == mode = "process" => \A n \in Node : stopping[n] => Quiet(n)

LEMMA InitStop == Init => StopInv
BY DEF Init, StopInv

(* What a runner is at does not begin by itself. *)
LEMMA WorkStaysQuiet ==
    ASSUME RunnerTypes, NEW n \in Node, Work(n) \/ Interrupt(n) \/ CannotListen(n),
           NEW m \in Node, Quiet(m)
    PROVE  Quiet(m)'
<1>1. live \in [Node -> BOOLEAN] /\ applying \in [Node -> Step]
  BY DEF RunnerTypes
<1> USE DEF Quiet, Proceed, Fail
<1>2. CASE RunReceiver(n) \/ ListenFails(n)
  BY <1>1, <1>2 DEF RunReceiver, ListenFails
<1>3. CASE RunSender(n)
  BY <1>1, <1>3 DEF RunSender
<1>4. CASE RunComponent(n) \/ Reload(n)
  BY <1>1, <1>4 DEF RunComponent, Reload
<1>5. CASE Cancel(n) \/ Serve(n) \/ StopReceiver(n)
  BY <1>1, <1>5 DEF Cancel, Serve, StopReceiver
<1> QED
  BY <1>2, <1>3, <1>4, <1>5 DEF Work, Interrupt, CannotListen

LEMMA NextStop == TypeInv /\ StopInv /\ [Next]_vars => StopInv'
<1> SUFFICES ASSUME TypeInv, StopInv, [Next]_vars, mode' = "process", NEW m \in Node,
                    stopping'[m]
             PROVE  Quiet(m)'
  BY DEF StopInv
<1>1. /\ RunnerTypes /\ stopping \in [Node -> BOOLEAN]
      /\ live \in [Node -> BOOLEAN] /\ applying \in [Node -> Step]
  BY DEF TypeInv, NodesTypes, RunnerTypes
<1>2. mode = "process"
  <2>1. ASSUME NEW n \in Node, RunnerStep(n) PROVE UNCHANGED chain
    BY <1>1, <2>1, RunnerStepTypes
  <2>2. ASSUME NEW n \in Node, Anew(n) PROVE UNCHANGED chain
    BY <2>2 DEF Anew
  <2> QED
    BY <2>1, <2>2, NextByRunner DEF chain
<1>3. stopping[m] => Quiet(m)
  BY <1>2 DEF StopInv
<1>4. ASSUME NEW n \in Node, TakeConfig(n) PROVE Quiet(m)'
  <2>1. stopping' = stopping /\ ~ stopping[n]
    BY <1>4 DEF TakeConfig
  <2>2. m # n
    BY <2>1
  <2>3. live'[m] = live[m] /\ applying'[m] = applying[m]
    BY <1>1, <1>2, <1>4, <2>2 DEF TakeConfig, OnConfig, Proceed, Fail
  <2> QED
    BY <1>3, <2>1, <2>3 DEF Quiet
<1>5. ASSUME NEW n \in Node, TakeStop(n) PROVE Quiet(m)'
  <2>1. CASE m = n
    BY <1>1, <1>5, <2>1 DEF TakeStop, Cancel, Quiet
  <2>2. CASE m # n
    BY <1>1, <1>3, <1>5, <2>2 DEF TakeStop, Cancel, Quiet
  <2> QED
    BY <2>1, <2>2
<1>6. ASSUME NEW n \in Node, Work(n) \/ Interrupt(n) \/ CannotListen(n) PROVE Quiet(m)'
  <2>1. stopping' = stopping
    BY <1>6 DEF Work, Interrupt, CannotListen, nodesVars
  <2> QED
    BY <1>1, <1>3, <1>6, <2>1, WorkStaysQuiet
<1>7. ASSUME NEW n \in Node, Again(n) PROVE Quiet(m)'
  <2>1. m # n
    BY <1>1, <1>7 DEF Again
  <2> QED
    BY <1>1, <1>3, <1>7, <2>1 DEF Again, ResetRunner, Quiet
<1>8. ASSUME NEW n \in Node, \/ Start(n) \/ LoadConn(n) \/ RunReturns(n) \/ ServePanics(n)
                            \/ EarlyCall(n) \/ Die(n) \/ UpdateConfig(n) \/ Stop(n) \/ Kill(n)
                            \/ Reconnect(n)
      PROVE  Quiet(m)'
  BY <1>3, <1>8 DEF Start, LoadConn, RunReturns, ServePanics, EarlyCall, Die, UpdateConfig,
                    Stop, Kill, Reconnect, runnerVars, Quiet
<1>9. ASSUME NEW n \in Node, \/ StartInside(n) \/ StartDirect(n) \/ InsideReturns(n)
                            \/ InsideAgain(n) \/ Linger(n)
      PROVE  FALSE
  BY <1>2, <1>9 DEF StartInside, StartDirect, InsideReturns, InsideAgain, Linger, InProcess
<1>10. CASE StartFails \/ AgentEnds \/ UNCHANGED vars
  BY <1>3, <1>10 DEF StartFails, AgentEnds, vars, runnerVars, nodesVars, Quiet
<1> QED
  BY <1>4, <1>5, <1>6, <1>7, <1>8, <1>9, <1>10 DEF Next, Progress

(***************************************************************************)
(* A process that has been told to stop runs no further and takes no       *)
(* configuration.                                                          *)
(***************************************************************************)
THEOREM NodesStop == Spec => []ProcessStopIsFinal
<1>1. StopInv => ProcessStopIsFinal
  BY DEF StopInv, Quiet, ProcessStopIsFinal, StopIsFinal
<1> QED
  BY <1>1, InitTypes, NextTypes, InitStop, NextStop, PTL DEF Spec
=============================================================================

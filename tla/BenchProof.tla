----------------------------- MODULE BenchProof -----------------------------
(***************************************************************************)
(* The servers of one process after each other, for any number of them:    *)
(* one that starts alone finds nothing in its way and keeps its socket,    *)
(* and no server of a benchmark is gone before it is served.               *)
(***************************************************************************)
EXTENDS Bench, TLAPS

USE ServerAssumption, BenchAssumption DEF Session, Node

-----------------------------------------------------------------------------
(* Types. *)

\* Run starts the goroutine that waits for the context with the one that serves.
Together == \A k \in Session : serve[k] # "off" => closing[k] # "off"

TypeInv == TypeOK /\ Together

LEMMA InitTypes == Init => TypeInv
BY DEF Init, ServerInit, TypeOK, ServerTypes, None, Stale, Main, Listen, Step, Batch, TypeInv,
       Together

(* What the nodes do, and the end of the process, leaves the servers alone. *)
NodeMoves(k, n) ==
    \/ Connect(k, n) \/ Config(k, n)
    \/ Send(k) \/ SendFails(k) \/ SendEarly(k) \/ QuickStep(k) \/ ReceiveStores(k)
    \/ Exit(k)

LEMMA NodesKeepServers ==
    ASSUME NEW k \in Session, NEW n \in Node, NodeMoves(k, n)
    PROVE  /\ UNCHANGED <<file, listening, main, at, apps, serve, watchdog, closing>>
           /\ UNCHANGED <<mode, overlap, got>>
           /\ crashed' \in {crashed, "early", "exit"}
BY DEF NodeMoves, Connect, Config, ConfigDirect, OpenReceiver, RunSender, RunComponent, Send,
       SendFails, SendEarly, QuickStep, RunAgain, Sent, ReceiveStores, To, serverVars, benchVars,
       Go, Exit

(* What a manager does, and the goroutines of its server. *)
ManagerMoves(k) ==
    \/ Begin(k) \/ Start(k) \/ Interrupt(k) \/ InterruptServer(k)
    \/ DoneReads(k) \/ Signal(k) \/ DoneReturns(k)

ServerMoves(k) ==
    \/ Starting(k) /\ UNCHANGED benchVars
    \/ Serve(k) /\ UNCHANGED benchVars
    \/ WatchdogQuit(k) /\ UNCHANGED benchVars
    \/ Closing(k) /\ UNCHANGED benchVars

LEMMA NextMoves ==
    ASSUME Next
    PROVE  \E k \in Session : \/ \E n \in Node : NodeMoves(k, n)
                              \/ ManagerMoves(k)
                              \/ ServerMoves(k)
<1>1. PICK k \in Session :
        \/ MainStep(k)
        \/ Go(Interrupt(k)) \/ Go(InterruptServer(k)) \/ Go(Exit(k))
        \/ ServerStep(Serve(k)) \/ ServerStep(WatchdogQuit(k)) \/ ServerStep(Closing(k))
        \/ \E n \in Node : NodeStep(k, n)
        \/ Go(Send(k)) \/ Go(SendFails(k)) \/ Go(SendEarly(k))
        \/ QuickStep(k)
        \/ ReceiveStep(k)
  BY DEF Next
<1>2. 1 \in Node
  OBVIOUS
<1> QED
  BY <1>1, <1>2 DEF MainStep, Go, ServerStep, NodeStep, ReceiveStep, NodeMoves, ManagerMoves,
                    ServerMoves

LEMMA NodeTypes ==
    ASSUME node \in [Session -> [Node -> Step]], NEW k \in Session, NEW n \in Node, NodeMoves(k, n)
    PROVE  node' \in [Session -> [Node -> Step]]
<1>1. ASSUME NEW m \in Node, NEW from, NEW to \in Step, To(k, m, from, to)
      PROVE  node' \in [Session -> [Node -> Step]]
  <2>1. node' = [node EXCEPT ![k] = [node[k] EXCEPT ![m] = to]]
    BY <1>1 DEF To
  <2> QED
    BY <1>1, <2>1
<1>2. /\ {"connected", "sending", "ready", "opened", "dialled", "failed", "dialing", "waiting"}
           \subseteq Step
      /\ Quick \in Node
  BY DEF Step, Quick
<1>3. CASE Connect(k, n)
  BY <1>1, <1>2, <1>3 DEF Connect
<1>4. CASE ConfigDirect(k, n)
  <2>1. (IF n = Quick THEN "sending" ELSE "ready") \in Step
    BY <1>2
  <2> QED
    BY <1>1, <1>4, <2>1 DEF ConfigDirect
<1>5. CASE OpenReceiver(k, n)
  BY <1>1, <1>2, <1>5 DEF OpenReceiver
<1>6. CASE RunSender(k, n)
  BY <1>1, <1>2, <1>6 DEF RunSender
<1>7. CASE RunComponent(k, n)
  <2>1. (IF n = Quick THEN "sending" ELSE "ready") \in Step
    BY <1>2
  <2> QED
    BY <1>1, <1>7, <2>1 DEF RunComponent
<1>8. CASE Send(k)
  <2>1. node' = [node EXCEPT ![k] = [node[k] EXCEPT ![Quick] = "waiting"]]
    BY <1>8 DEF Send
  <2> QED
    BY <1>2, <2>1
<1>9. CASE SendFails(k) \/ RunAgain(k) \/ Sent(k)
  BY <1>1, <1>2, <1>9 DEF SendFails, RunAgain, Sent
<1>10. CASE SendEarly(k) \/ ReceiveStores(k) \/ Exit(k)
  BY <1>10 DEF SendEarly, ReceiveStores, Exit, benchVars
<1> QED
  BY <1>3, <1>4, <1>5, <1>6, <1>7, <1>8, <1>9, <1>10 DEF NodeMoves, Config, QuickStep, Go

LEMMA NextTypes == TypeInv /\ [Next]_vars => TypeInv'
<1> SUFFICES ASSUME TypeInv, [Next]_vars PROVE TypeOK' /\ Together'
  BY DEF TypeInv
<1>0. /\ file \in Session \cup {None, Stale}
      /\ listening \in SUBSET Session
      /\ main \in [Session -> Main]
      /\ at \in [Session -> Node]
      /\ apps \in [Session -> SUBSET Node]
      /\ serve \in [Session -> {"off", "pending", "on", "over"}]
      /\ watchdog \in [Session -> {"off", "on", "over"}]
      /\ closing \in [Session -> {"off", "waiting", "closed", "stopped", "cleared", "over"}]
      /\ crashed \in {"no", "serve", "early", "exit"}
      /\ mode \in [Session -> Modes]
      /\ overlap \in SUBSET Session
      /\ node \in [Session -> [Node -> Step]]
      /\ recv \in [Session -> {"none", "offer", "signalled", "stored"}]
      /\ batch \in [Session -> Batch]
      /\ got \in [Session -> Batch]
  BY DEF TypeInv, TypeOK, ServerTypes
<1>1. ASSUME NEW k \in Session, NEW n \in Node, NodeMoves(k, n) PROVE TypeOK'
  <2>1. ServerTypes' /\ mode' \in [Session -> Modes] /\ overlap' \in SUBSET Session
        /\ got' \in [Session -> Batch]
    BY <1>0, <1>1, NodesKeepServers DEF ServerTypes
  <2>2. node' \in [Session -> [Node -> Step]]
    BY <1>0, <1>1, NodeTypes
  <2>3. /\ recv' \in [Session -> {"none", "offer", "signalled", "stored"}]
        /\ batch' \in [Session -> Batch]
    <3>1. ASSUME NEW m \in Node, NEW from, NEW to, To(k, m, from, to)
          PROVE  UNCHANGED <<recv, batch>>
      BY <3>1 DEF To
    <3>2. Quick \in Node
      BY DEF Quick
    <3>3. CASE Connect(k, n) \/ Config(k, n) \/ SendFails(k) \/ QuickStep(k)
      <4>1. UNCHANGED <<recv, batch>>
        BY <3>1, <3>2, <3>3 DEF Connect, Config, ConfigDirect, OpenReceiver, RunSender,
               RunComponent, SendFails, QuickStep, RunAgain, Sent, Go
      <4> QED
        BY <1>0, <4>1
    <3>4. CASE SendEarly(k) \/ Exit(k)
      BY <1>0, <3>4 DEF SendEarly, Exit, benchVars
    <3>5. CASE Send(k)
      <4>1. recv' = [recv EXCEPT ![k] = "offer"]
        BY <3>5 DEF Send
      <4>2. \E b \in Batch : batch' = [batch EXCEPT ![k] = b]
        BY <3>5 DEF Send, Batch
      <4> QED
        BY <1>0, <4>1, <4>2
    <3>6. CASE ReceiveStores(k)
      BY <1>0, <3>6 DEF ReceiveStores
    <3> QED
      BY <1>1, <3>3, <3>4, <3>5, <3>6 DEF NodeMoves
  <2> QED
    BY <2>1, <2>2, <2>3 DEF TypeOK
<1>2. ASSUME NEW k \in Session, Begin(k) \/ Interrupt(k) \/ InterruptServer(k) \/ DoneReads(k)
      PROVE  TypeOK'
  <2>1. CASE Begin(k)
    BY <1>0, <2>1 DEF TypeOK, ServerTypes, Begin, Goto, Main, Listen
  <2>2. CASE Interrupt(k)
    BY <1>0, <2>2 DEF TypeOK, ServerTypes, Interrupt, Goto, benchVars, Main, Over
  <2>3. CASE InterruptServer(k)
    BY <1>0, <2>3 DEF TypeOK, ServerTypes, InterruptServer, ToClosing, benchVars
  <2>4. CASE DoneReads(k)
    BY <1>0, <2>4 DEF TypeOK, ServerTypes, DoneReads, Goto, benchVars, Main
  <2> QED
    BY <1>2, <2>1, <2>2, <2>3, <2>4
<1>3. ASSUME NEW k \in Session, Start(k) PROVE TypeOK'
  <2>1. at[k] \in Node /\ (at[k] # 1 => at[k] - 1 \in Node)
    BY <1>0
  <2>2. at' \in [Session -> Node] /\ apps' \in [Session -> SUBSET Node]
    BY <1>0, <1>3, <2>1 DEF Start, RegisterStore
  <2>3. main' \in [Session -> Main]
    BY <1>0, <1>3 DEF Start, RegisterStore, Goto, Main
  <2>4. node' \in [Session -> [Node -> Step]]
    BY <1>0, <1>3, <2>1 DEF Start, Step
  <2> QED
    BY <1>0, <1>3, <2>2, <2>3, <2>4 DEF TypeOK, ServerTypes, Start, RegisterStore
<1>4. ASSUME NEW k \in Session, Signal(k) PROVE TypeOK'
  BY <1>0, <1>4 DEF TypeOK, ServerTypes, Signal, Goto, Main
<1>5. ASSUME NEW k \in Session, DoneReturns(k) PROVE TypeOK'
  <2>1. Events(k) \in Batch
    BY <1>0 DEF Events, Batch
  <2>2. [n \in Node |-> "over"] \in [Node -> Step]
    BY DEF Step
  <2>3. main' \in [Session -> Main] /\ got' \in [Session -> Batch]
        /\ node' \in [Session -> [Node -> Step]]
    BY <1>0, <1>5, <2>1, <2>2 DEF DoneReturns, Goto, Main, Over
  <2> QED
    BY <1>0, <1>5, <2>3 DEF TypeOK, ServerTypes, DoneReturns
<1>6. ASSUME NEW k \in Session, ServerMoves(k) PROVE TypeOK'
  <2>1. ServerTypes'
    <3>1. CASE Starting(k)
      <4>1. CASE ListenStat(k) \/ ListenRemove(k) \/ ListenChmod(k)
        <5>1. CASE ListenStat(k)
          BY <1>0, <5>1 DEF ServerTypes, ListenStat, Goto, Main, Listen
        <5>2. CASE ListenRemove(k)
          BY <1>0, <5>2 DEF ServerTypes, ListenRemove, Goto, Main, Over, Listen
        <5>3. CASE ListenChmod(k)
          BY <1>0, <5>3 DEF ServerTypes, ListenChmod, Goto, Main, Over
        <5> QED
          BY <4>1, <5>1, <5>2, <5>3
      <4>2. CASE ListenBind(k)
        <5>1. main' \in [Session -> Main]
          <6>1. \E pc \in Main : main' = [main EXCEPT ![k] = pc]
            BY <4>2 DEF ListenBind, Goto, Main, Over, Listen
          <6> QED
            BY <1>0, <6>1
        <5>2. file' \in Session \cup {None, Stale} /\ listening' \in SUBSET Session
          <6>1. \/ file' = k /\ listening' = listening \cup {k}
                \/ UNCHANGED <<file, listening>>
            BY <4>2 DEF ListenBind
          <6>2. listening \in SUBSET Session /\ file \in Session \cup {None, Stale}
            BY <1>0
          <6> QED
            BY <6>1, <6>2
        <5> QED
          BY <1>0, <4>2, <5>1, <5>2 DEF ServerTypes, ListenBind
      <4>3. CASE Run(k)
        BY <1>0, <4>3 DEF ServerTypes, Run, Goto, Main
      <4>4. CASE RegisterLookup(k)
        BY <1>0, <4>4 DEF ServerTypes, RegisterLookup, Goto, Main, Over
      <4> QED
        BY <3>1, <4>1, <4>2, <4>3, <4>4 DEF Starting
    <3>2. CASE Serve(k)
      <4>1. closing[k] \in {"waiting", "closed", "stopped", "cleared", "over"}
        BY <1>0, <3>2 DEF Serve, TypeInv, Together
      <4>2. UNCHANGED <<main, at, apps, watchdog, closing>>
        BY <3>2 DEF Serve
      <4>3. /\ serve' = serve \/ serve' = [serve EXCEPT ![k] = "on"]
               \/ serve' = [serve EXCEPT ![k] = "over"]
            /\ file' = file \/ file' = None
            /\ listening' = listening \/ listening' = listening \ {k}
            /\ crashed' \in {crashed, "serve"}
        <5>1. CASE closing[k] \in {"waiting", "closed"}
          BY <3>2, <5>1 DEF Serve
        <5>2. CASE closing[k] = "stopped"
          BY <3>2, <5>2 DEF Serve, CloseListener
        <5>3. CASE closing[k] \in {"cleared", "over"}
          BY <3>2, <5>3 DEF Serve
        <5> QED
          BY <4>1, <5>1, <5>2, <5>3
      <4> QED
        BY <1>0, <4>2, <4>3 DEF ServerTypes
    <3>3. CASE WatchdogQuit(k)
      BY <1>0, <3>3 DEF ServerTypes, WatchdogQuit
    <3>4. CASE Closing(k)
      <4>1. /\ UNCHANGED <<main, at, apps, watchdog, crashed>>
            /\ \E to \in {"closed", "stopped", "cleared", "over"} :
                 closing' = [closing EXCEPT ![k] = to]
        BY <3>4 DEF Closing, CloseDone, Stop, Clear, WaitWatchdog, ToClosing
      <4>2. /\ file' = file \/ file' = None
            /\ listening' = listening \/ listening' = listening \ {k}
            /\ serve' = serve \/ serve' = [serve EXCEPT ![k] = "over"]
        BY <3>4 DEF Closing, CloseDone, Stop, Clear, WaitWatchdog, CloseListener
      <4>3. /\ closing' \in [Session -> {"off", "waiting", "closed", "stopped", "cleared", "over"}]
            /\ serve' \in [Session -> {"off", "pending", "on", "over"}]
        BY <1>0, <4>1, <4>2
      <4> QED
        BY <1>0, <4>1, <4>2, <4>3 DEF ServerTypes
    <3> QED
      BY <1>6, <3>1, <3>2, <3>3, <3>4 DEF ServerMoves
  <2> QED
    BY <1>0, <1>6, <2>1 DEF TypeOK, ServerMoves, benchVars
<1>7. ASSUME UNCHANGED vars PROVE TypeOK'
  <2>1. /\ UNCHANGED <<file, listening, main, at, apps, serve, watchdog, closing, crashed>>
        /\ UNCHANGED <<mode, overlap, node, recv, batch, got>>
    BY <1>7 DEF vars, serverVars, benchVars
  <2>2. ServerTypes'
    BY <1>0, <2>1 DEF ServerTypes
  <2>3. /\ mode' \in [Session -> Modes] /\ overlap' \in SUBSET Session
        /\ node' \in [Session -> [Node -> Step]]
        /\ recv' \in [Session -> {"none", "offer", "signalled", "stored"}]
        /\ batch' \in [Session -> Batch] /\ got' \in [Session -> Batch]
    BY <1>0, <2>1
  <2> QED
    BY <2>2, <2>3 DEF TypeOK
<1>8. TypeOK'
  BY <1>1, <1>2, <1>3, <1>4, <1>5, <1>6, <1>7, NextMoves DEF ManagerMoves
<1>9. Together'
  <2>0. \A k \in Session : serve[k] # "off" => closing[k] # "off"
    BY DEF TypeInv, Together
  <2>1. ASSUME NEW k \in Session, NEW n \in Node, NodeMoves(k, n) PROVE Together'
    BY <2>0, <2>1, NodesKeepServers DEF Together
  <2>2. ASSUME NEW k \in Session, ManagerMoves(k) PROVE Together'
    <3>1. /\ serve' = serve
          /\ closing' = closing \/ closing' = [closing EXCEPT ![k] = "closed"]
      BY <2>2 DEF ManagerMoves, Begin, Start, RegisterStore, Interrupt, InterruptServer,
             ToClosing, DoneReads, Signal, DoneReturns
    <3> QED
      BY <1>0, <2>0, <3>1 DEF Together
  <2>3. ASSUME NEW k \in Session, ServerMoves(k) PROVE Together'
    <3>1. CASE Run(k)
      BY <1>0, <2>0, <3>1 DEF Run, Together
    <3>2. CASE ListenStat(k) \/ ListenRemove(k) \/ ListenBind(k) \/ ListenChmod(k)
               \/ RegisterLookup(k) \/ WatchdogQuit(k)
      BY <2>0, <3>2 DEF ListenStat, ListenRemove, ListenBind, ListenChmod, RegisterLookup,
             WatchdogQuit, Together
    <3>3. CASE Serve(k)
      <4>1. closing' = closing /\ closing[k] # "off"
        BY <2>0, <3>3 DEF Serve
      <4>2. \A j \in Session \ {k} : serve'[j] = serve[j]
        BY <1>0, <1>8, <3>3, <4>1 DEF Serve
      <4> QED
        BY <2>0, <4>1, <4>2 DEF Together
    <3>4. CASE Closing(k)
      BY <1>0, <2>0, <3>4 DEF Closing, CloseDone, Stop, Clear, WaitWatchdog, ToClosing, Together
    <3> QED
      BY <2>3, <3>1, <3>2, <3>3, <3>4 DEF ServerMoves, Starting
  <2>4. CASE UNCHANGED vars
    BY <2>0, <2>4 DEF vars, serverVars, Together
  <2> QED
    BY <2>1, <2>2, <2>3, <2>4, NextMoves
<1> QED
  BY <1>8, <1>9

(***************************************************************************)
(* Managers, servers and nodes keep their types, for any number of         *)
(* sessions.                                                               *)
(***************************************************************************)
THEOREM BenchTypeCorrect == Spec => []TypeOK
<1>1. TypeInv => TypeOK
  BY DEF TypeInv
<1> QED
  BY <1>1, InitTypes, NextTypes, PTL DEF Spec

-----------------------------------------------------------------------------
(* What a session has at a place of its manager. *)

Early == {"idle", "run"} \cup Listen

Life == \A k \in Session :
    /\ main[k] \in Early => apps[k] = {} /\ serve[k] = "off" /\ closing[k] = "off"
    /\ main[k] \in {"idle", "stat", "remove", "bind"} => k \notin listening
    /\ main[k] \in {"lookup", "store"} => \A n \in apps[k] : n > at[k]
    /\ main[k] = "failed" => closing[k] = "off"

LEMMA LifeNext == TypeInv /\ Life /\ [Next]_vars => Life'
<1> SUFFICES ASSUME TypeInv, Life, [Next]_vars PROVE Life'
  OBVIOUS
<1>0. /\ main \in [Session -> Main]
      /\ at \in [Session -> Node]
      /\ apps \in [Session -> SUBSET Node]
      /\ serve \in [Session -> {"off", "pending", "on", "over"}]
      /\ closing \in [Session -> {"off", "waiting", "closed", "stopped", "cleared", "over"}]
      /\ \A k \in Session : serve[k] # "off" => closing[k] # "off"
  BY DEF TypeInv, TypeOK, ServerTypes, Together
<1> USE DEF Life, Early, Listen
<1>1. ASSUME NEW k \in Session, NEW n \in Node, NodeMoves(k, n) PROVE Life'
  BY <1>1, NodesKeepServers
<1>2. ASSUME NEW k \in Session, ManagerMoves(k) PROVE Life'
  <2>1. CASE Begin(k)
    BY <1>0, <2>1 DEF Begin, Goto
  <2>2. CASE Start(k)
    <3>1. /\ main[k] = "store" /\ UNCHANGED <<listening, serve, closing>>
          /\ \/ main'[k] \in {"parked", "done"}
             \/ main'[k] = "lookup" /\ at'[k] = at[k] - 1 /\ apps'[k] = apps[k] \cup {at[k]}
          /\ \A j \in Session \ {k} : main'[j] = main[j] /\ at'[j] = at[j] /\ apps'[j] = apps[j]
      BY <1>0, <2>2 DEF Start, RegisterStore, Goto
    <3>2. ASSUME main'[k] = "lookup", NEW n \in apps'[k] PROVE n > at'[k]
      <4>1. at'[k] = at[k] - 1 /\ (n \in apps[k] \/ n = at[k])
        BY <3>1, <3>2
      <4>2. at[k] \in Nat /\ (n \in apps[k] => n \in Nat /\ n > at[k])
        BY <1>0, <3>1
      <4> QED
        BY <4>1, <4>2
    <3> QED
      BY <1>0, <3>1, <3>2
  <2>3. CASE InterruptServer(k)
    BY <1>0, <2>3 DEF InterruptServer, ToClosing
  <2>4. CASE Interrupt(k) \/ DoneReads(k) \/ Signal(k) \/ DoneReturns(k)
    <3>1. /\ main[k] \notin Early \cup {"lookup", "store"}
          /\ UNCHANGED <<listening, apps, serve, closing, at>>
          /\ \/ main' = [main EXCEPT ![k] = "returned"] \/ main' = [main EXCEPT ![k] = "await"]
             \/ main' = [main EXCEPT ![k] = "fetch"]
      BY <2>4 DEF Interrupt, DoneReads, Signal, DoneReturns, Goto
    <3> QED
      BY <1>0, <3>1
  <2> QED
    BY <1>2, <2>1, <2>2, <2>3, <2>4 DEF ManagerMoves
<1>3. ASSUME NEW k \in Session, ServerMoves(k) PROVE Life'
  <2>1. CASE ListenStat(k) \/ ListenRemove(k) \/ ListenChmod(k)
    <3>1. CASE ListenStat(k)
      BY <1>0, <3>1 DEF ListenStat, Goto
    <3>2. CASE ListenRemove(k)
      BY <1>0, <3>2 DEF ListenRemove, Goto
    <3>3. CASE ListenChmod(k)
      BY <1>0, <3>3 DEF ListenChmod, Goto
    <3> QED
      BY <2>1, <3>1, <3>2, <3>3
  <2>2. CASE ListenBind(k)
    BY <1>0, <2>2 DEF ListenBind, Goto
  <2>3. CASE Run(k)
    BY <1>0, <2>3 DEF Run, Goto
  <2>4. CASE RegisterLookup(k)
    <3>1. at[k] \notin apps[k]
      BY <1>0, <2>4 DEF RegisterLookup
    <3> QED
      BY <1>0, <2>4, <3>1 DEF RegisterLookup, Goto
  <2>5. CASE Serve(k)
    <3>1. /\ UNCHANGED <<main, at, apps, closing>> /\ listening' \subseteq listening
          /\ closing[k] # "off"
          /\ \A j \in Session \ {k} : serve'[j] = serve[j]
      <4>1. serve[k] = "pending" /\ closing[k] # "off"
        BY <1>0, <2>5 DEF Serve
      <4>2. CASE closing[k] \in {"waiting", "closed"}
        BY <1>0, <2>5, <4>1, <4>2 DEF Serve
      <4>3. CASE closing[k] = "stopped"
        BY <1>0, <2>5, <4>1, <4>3 DEF Serve, CloseListener
      <4>4. CASE closing[k] \in {"cleared", "over"}
        BY <1>0, <2>5, <4>1, <4>4 DEF Serve
      <4> QED
        BY <1>0, <4>1, <4>2, <4>3, <4>4
    <3> QED
      BY <1>0, <3>1
  <2>6. CASE WatchdogQuit(k)
    BY <2>6 DEF WatchdogQuit
  <2>7. CASE Closing(k)
    <3>1. /\ UNCHANGED <<main, at, apps>> /\ listening' \subseteq listening
          /\ closing[k] # "off"
          /\ \A j \in Session \ {k} : serve'[j] = serve[j] /\ closing'[j] = closing[j]
      BY <1>0, <2>7 DEF Closing, CloseDone, Stop, Clear, WaitWatchdog, ToClosing, CloseListener
    <3> QED
      BY <1>0, <3>1
  <2> QED
    BY <1>3, <2>1, <2>2, <2>3, <2>4, <2>5, <2>6, <2>7 DEF ServerMoves, Starting
<1>4. CASE UNCHANGED vars
  BY <1>4 DEF vars, serverVars
<1> QED
  BY <1>1, <1>2, <1>3, <1>4, NextMoves

-----------------------------------------------------------------------------
(***************************************************************************)
(* Unless it is a process's, a server has been served before the first of  *)
(* its nodes is connected, and before anything is sent, received, returned *)
(* or closed.                                                              *)
(***************************************************************************)
Served == \A k \in Session : mode[k] # "process" =>
    /\ main[k] # "parked"
    /\ \/ serve[k] \in {"on", "over"}
       \/ /\ closing[k] \in {"off", "waiting"}
          /\ main[k] \notin {"fetch", "returned"}
          /\ recv[k] = "none"
          /\ \A n \in Node : node[k][n] \in {"none", "dialing"}

ServedInv == TypeInv /\ Life /\ Served /\ ServerThere

LEMMA ServedInit == Init => ServedInv
<1> SUFFICES ASSUME Init PROVE Life /\ Served /\ ServerThere
  BY InitTypes DEF ServedInv
<1>1. Life
  BY DEF Init, ServerInit, Life
<1> QED
  BY <1>1 DEF Init, ServerInit, Served, ServerThere

LEMMA ServedNext == ServedInv /\ [Next]_vars => ServedInv'
<1> SUFFICES ASSUME ServedInv, [Next]_vars PROVE Served' /\ ServerThere'
  BY NextTypes, LifeNext DEF ServedInv
<1>0. /\ main \in [Session -> Main]
      /\ serve \in [Session -> {"off", "pending", "on", "over"}]
      /\ closing \in [Session -> {"off", "waiting", "closed", "stopped", "cleared", "over"}]
      /\ node \in [Session -> [Node -> Step]]
      /\ recv \in [Session -> {"none", "offer", "signalled", "stored"}]
      /\ Served /\ ServerThere /\ Life
  BY DEF ServedInv, TypeInv, TypeOK, ServerTypes
<1>1. ASSUME NEW k \in Session, NEW n \in Node, NodeMoves(k, n) PROVE Served' /\ ServerThere'
  <2>1. /\ \A j \in Session \ {k} : recv'[j] = recv[j] /\ node'[j] = node[j]
        /\ \/ UNCHANGED <<recv, node>>
           \/ mode[k] = "process"
           \/ serve[k] \in {"on", "over"}
    <3>1. CASE Connect(k, n)
      BY <1>0, <3>1 DEF Connect, Reaches, To
    <3>2. Quick \in Node
      BY DEF Quick
    <3>3. ASSUME NEW m \in Node, NEW from, NEW to, To(k, m, from, to),
                 from \notin {"none", "dialing"}
          PROVE  /\ node[k][m] \notin {"none", "dialing"}
                 /\ recv' = recv /\ \A j \in Session \ {k} : node'[j] = node[j]
      BY <1>0, <3>3 DEF To
    <3>4. CASE Config(k, n) \/ SendFails(k) \/ QuickStep(k)
      <4>1. /\ \E m \in Node : node[k][m] \notin {"none", "dialing"}
            /\ recv' = recv /\ \A j \in Session \ {k} : node'[j] = node[j]
        BY <3>2, <3>3, <3>4 DEF Config, ConfigDirect, OpenReceiver, RunSender, RunComponent,
               SendFails, QuickStep, RunAgain, Sent, Go
      <4> QED
        BY <1>0, <4>1 DEF Served
    <3>5. CASE Send(k)
      <4>1. /\ node[k][Quick] = "sending"
            /\ \A j \in Session \ {k} : recv'[j] = recv[j] /\ node'[j] = node[j]
        BY <1>0, <3>5 DEF Send
      <4> QED
        BY <1>0, <3>2, <4>1 DEF Served
    <3>6. CASE SendEarly(k) \/ Exit(k)
      BY <3>6 DEF SendEarly, Exit, benchVars
    <3>7. CASE ReceiveStores(k)
      <4>1. /\ recv[k] # "none" /\ node' = node
            /\ \A j \in Session \ {k} : recv'[j] = recv[j]
        BY <1>0, <3>7 DEF ReceiveStores
      <4> QED
        BY <1>0, <4>1 DEF Served
    <3> QED
      BY <1>1, <3>1, <3>4, <3>5, <3>6, <3>7 DEF NodeMoves
  <2>2. Served'
    BY <1>0, <1>1, <2>1, NodesKeepServers DEF Served
  <2>3. ServerThere'
    BY <1>0, <1>1, NodesKeepServers DEF ServerThere
  <2> QED
    BY <2>2, <2>3
<1>2. ASSUME NEW k \in Session, ManagerMoves(k) PROVE Served' /\ ServerThere'
  <2>1. UNCHANGED <<mode, serve, crashed>>
    BY <1>2 DEF ManagerMoves, Begin, Start, RegisterStore, Interrupt, InterruptServer, ToClosing,
           DoneReads, Signal, DoneReturns, benchVars
  <2>2. ServerThere'
    BY <1>0, <2>1 DEF ServerThere
  <2>3. CASE Begin(k)
    BY <1>0, <2>1, <2>2, <2>3 DEF Begin, Goto, Served
  <2>4. CASE Start(k)
    <3>1. /\ UNCHANGED <<closing, recv>>
          /\ main'[k] \in {"lookup", "done"} \/ mode[k] = "process"
          /\ \A n \in Node : node'[k][n] = node[k][n] \/ node'[k][n] = "dialing"
                             \/ mode[k] = "process"
          /\ \A j \in Session \ {k} : main'[j] = main[j] /\ node'[j] = node[j]
      BY <1>0, <2>4 DEF Start, RegisterStore, Goto
    <3> DEFINE Late(j) == /\ closing[j] \in {"off", "waiting"}
                          /\ main[j] \notin {"fetch", "returned"}
                          /\ recv[j] = "none"
                          /\ \A n \in Node : node[j][n] \in {"none", "dialing"}
               Behind(j) == /\ main[j] # "parked"
                            /\ serve[j] \in {"on", "over"} \/ Late(j)
    <3>2. \A j \in Session : mode[j] # "process" => Behind(j)
      BY <1>0 DEF Served
    <3>3. ASSUME NEW j \in Session \ {k}, mode'[j] # "process" PROVE Behind(j)'
      BY <2>1, <3>1, <3>2, <3>3
    <3>4. ASSUME mode'[k] # "process" PROVE Behind(k)'
      <4>1. CASE serve[k] \in {"on", "over"}
        BY <2>1, <3>1, <3>4, <4>1
      <4>2. CASE Late(k)
        <5>1. \A n \in Node : node'[k][n] \in {"none", "dialing"}
          BY <2>1, <3>1, <3>4, <4>2
        <5> QED
          BY <2>1, <3>1, <3>4, <4>2, <5>1
      <4> QED
        BY <2>1, <3>2, <3>4, <4>1, <4>2
    <3>5. Served'
      BY <3>3, <3>4 DEF Served
    <3> QED
      BY <2>2, <3>5
  <2>5. CASE Interrupt(k)
    BY <1>0, <2>1, <2>2, <2>5 DEF Interrupt, Goto, benchVars, Served
  <2>6. CASE InterruptServer(k)
    BY <1>0, <2>1, <2>2, <2>6 DEF InterruptServer, ToClosing, benchVars, Served
  <2>7. CASE DoneReads(k)
    BY <1>0, <2>1, <2>2, <2>7 DEF DoneReads, Goto, benchVars, Served
  <2>8. CASE Signal(k)
    BY <1>0, <2>1, <2>2, <2>8 DEF Signal, Goto, Served
  <2>9. CASE DoneReturns(k)
    <3>1. /\ main[k] = "fetch" /\ main'[k] = "returned" /\ UNCHANGED <<closing, recv>>
          /\ \A j \in Session \ {k} : main'[j] = main[j] /\ node'[j] = node[j]
      BY <1>0, <2>9 DEF DoneReturns, Goto
    <3>2. mode[k] # "process" => serve[k] \in {"on", "over"}
      BY <1>0, <3>1 DEF Served
    <3>3. ASSUME NEW j \in Session, j # k, mode'[j] # "process"
          PROVE  /\ main'[j] # "parked"
                 /\ \/ serve'[j] \in {"on", "over"}
                    \/ /\ closing'[j] \in {"off", "waiting"}
                       /\ main'[j] \notin {"fetch", "returned"}
                       /\ recv'[j] = "none"
                       /\ \A n \in Node : node'[j][n] \in {"none", "dialing"}
      BY <1>0, <2>1, <3>1, <3>3 DEF Served
    <3>4. Served'
      BY <2>1, <3>1, <3>2, <3>3 DEF Served
    <3> QED
      BY <2>2, <3>4
  <2> QED
    BY <1>2, <2>2, <2>3, <2>4, <2>5, <2>6, <2>7, <2>8, <2>9 DEF ManagerMoves
<1>3. ASSUME NEW k \in Session, ServerMoves(k) PROVE Served' /\ ServerThere'
  <2>1. UNCHANGED <<mode, recv, node>>
    BY <1>3 DEF ServerMoves, benchVars
  <2>2. CASE ListenStat(k) \/ ListenRemove(k) \/ ListenBind(k) \/ ListenChmod(k)
             \/ RegisterLookup(k)
    <3>1. /\ UNCHANGED <<serve, closing, crashed>>
          /\ main'[k] \notin {"parked", "fetch", "returned"}
          /\ \A j \in Session \ {k} : main'[j] = main[j]
      BY <1>0, <2>2 DEF ListenStat, ListenRemove, ListenBind, ListenChmod, RegisterLookup, Goto
    <3> QED
      BY <1>0, <2>1, <3>1 DEF Served, ServerThere
  <2>3. CASE Run(k)
    <3>1. serve[k] = "off" /\ closing'[k] = "waiting" /\ main'[k] = "lookup" /\ crashed' = crashed
          /\ \A j \in Session \ {k} : /\ main'[j] = main[j] /\ serve'[j] = serve[j]
                                      /\ closing'[j] = closing[j]
      BY <1>0, <2>3 DEF Run, Goto, Life, Early
    <3> QED
      BY <1>0, <2>1, <3>1 DEF Served, ServerThere
  <2>4. CASE Serve(k)
    <3>1. serve[k] = "pending" /\ UNCHANGED <<main, closing>>
      BY <2>4 DEF Serve
    <3>2. CASE closing[k] \in {"waiting", "closed", "stopped"}
      <4>1. serve'[k] \in {"on", "over"} /\ crashed' = crashed
            /\ \A j \in Session \ {k} : serve'[j] = serve[j]
        BY <1>0, <2>4, <3>2 DEF Serve
      <4> QED
        BY <1>0, <2>1, <3>1, <4>1 DEF Served, ServerThere
    <3>3. CASE closing[k] \in {"cleared", "over"}
      <4>1. mode[k] = "process"
        BY <1>0, <3>1, <3>3 DEF Served
      <4>2. serve' = serve
        BY <2>4, <3>3 DEF Serve
      <4> QED
        BY <1>0, <2>1, <3>1, <4>1, <4>2 DEF Served, ServerThere
    <3>4. closing[k] # "off"
      BY <3>1 DEF ServedInv, TypeInv, Together
    <3> QED
      BY <1>0, <3>2, <3>3, <3>4
  <2>5. CASE WatchdogQuit(k)
    BY <1>0, <2>1, <2>5 DEF WatchdogQuit, Served, ServerThere
  <2>6. CASE Closing(k)
    <3>1. /\ UNCHANGED <<main, crashed>>
          /\ closing[k] = "waiting" => Cancelled(k)
          /\ closing[k] # "off"
          /\ serve'[k] \in {serve[k], "over"}
          /\ \A j \in Session \ {k} : serve'[j] = serve[j] /\ closing'[j] = closing[j]
      BY <1>0, <2>6 DEF Closing, CloseDone, Stop, Clear, WaitWatchdog, ToClosing, CloseListener
    <3>2. mode[k] = "process" \/ serve[k] \in {"on", "over"}
      BY <1>0, <3>1 DEF Served, Cancelled, Over, Life
    <3>3. Served'
      BY <1>0, <2>1, <3>1, <3>2 DEF Served
    <3> QED
      BY <1>0, <2>1, <3>1, <3>3 DEF ServerThere
  <2> QED
    BY <1>3, <2>2, <2>3, <2>4, <2>5, <2>6 DEF ServerMoves, Starting
<1>4. ASSUME UNCHANGED vars PROVE Served' /\ ServerThere'
  BY <1>0, <1>4 DEF vars, serverVars, benchVars, Served, ServerThere
<1> QED
  BY <1>1, <1>2, <1>3, <1>4, NextMoves

(***************************************************************************)
(* The server of a benchmark is there when its goroutine serves it, for    *)
(* any number of sessions: Done waits for an event, the event for a node   *)
(* that is connected, and the node for a server that serves.               *)
(***************************************************************************)
THEOREM BenchServes == Spec => []ServerThere
<1>1. ServedInv => ServerThere
  BY DEF ServedInv
<1> QED
  BY <1>1, ServedInit, ServedNext, PTL DEF Spec

-----------------------------------------------------------------------------
(* What a step of one session leaves alone of the others. *)

Moves(a) == ManagerMoves(a) \/ ServerMoves(a)

LEMMA Others ==
    ASSUME TypeInv, NEW a \in Session, Moves(a), NEW j \in Session, j # a
    PROVE  /\ main'[j] = main[j] /\ closing'[j] = closing[j]
           /\ j \in listening' <=> j \in listening
           /\ j \in overlap' <=> j \in overlap
<1>0. /\ main \in [Session -> Main]
      /\ closing \in [Session -> {"off", "waiting", "closed", "stopped", "cleared", "over"}]
      /\ \A k \in Session : serve[k] # "off" => closing[k] # "off"
  BY DEF TypeInv, TypeOK, ServerTypes, Together
<1>1. CASE ManagerMoves(a)
  <2>1. CASE Begin(a)
    BY <1>0, <2>1 DEF Begin, Goto
  <2>2. CASE Start(a)
    BY <1>0, <2>2 DEF Start, RegisterStore, Goto
  <2>3. CASE Interrupt(a) \/ InterruptServer(a) \/ DoneReads(a) \/ Signal(a) \/ DoneReturns(a)
    BY <1>0, <2>3 DEF Interrupt, InterruptServer, ToClosing, DoneReads, Signal, DoneReturns, Goto,
           benchVars
  <2> QED
    BY <1>1, <2>1, <2>2, <2>3 DEF ManagerMoves
<1>2. CASE Starting(a) /\ UNCHANGED benchVars
  BY <1>0, <1>2 DEF Starting, ListenStat, ListenRemove, ListenBind, ListenChmod, Run,
         RegisterLookup, Goto, benchVars
<1>3. CASE Serve(a) /\ UNCHANGED benchVars
  <2>1. closing[a] \in {"waiting", "closed", "stopped", "cleared", "over"}
    BY <1>0, <1>3 DEF Serve
  <2>2. CASE closing[a] \in {"waiting", "closed"}
    BY <1>3, <2>2 DEF Serve, benchVars
  <2>3. CASE closing[a] = "stopped"
    BY <1>3, <2>3 DEF Serve, CloseListener, benchVars
  <2>4. CASE closing[a] \in {"cleared", "over"}
    BY <1>3, <2>4 DEF Serve, benchVars
  <2> QED
    BY <2>1, <2>2, <2>3, <2>4
<1>4. CASE (WatchdogQuit(a) \/ Closing(a)) /\ UNCHANGED benchVars
  BY <1>0, <1>4 DEF WatchdogQuit, Closing, CloseDone, Stop, Clear, WaitWatchdog, ToClosing,
         CloseListener, benchVars
<1> QED
  BY <1>1, <1>2, <1>3, <1>4 DEF Moves, ServerMoves

(* One that has not begun, or that is over and has let go, does nothing to the socket. *)
LEMMA QuietLeaves ==
    ASSUME TypeInv, Life, NEW a \in Session, Moves(a),
           main[a] = "idle" \/ (main[a] \in Over /\ ~ Lingers(a))
    PROVE  UNCHANGED <<file, listening, closing>>
<1>0. /\ closing[a] \in {"off", "over"}
      /\ serve[a] # "off" => closing[a] = "over"
  BY DEF TypeInv, Together, Life, Early, Lingers
<1>1. CASE ManagerMoves(a)
  BY <1>0, <1>1 DEF ManagerMoves, Begin, Start, RegisterStore, Interrupt, InterruptServer,
         ToClosing, DoneReads, Signal, DoneReturns, Over
<1>2. CASE Starting(a)
  BY <1>2 DEF Starting, ListenStat, ListenRemove, ListenBind, ListenChmod, Run, RegisterLookup,
         Over
<1>3. CASE Serve(a)
  BY <1>0, <1>3 DEF Serve
<1>4. CASE WatchdogQuit(a) \/ Closing(a)
  BY <1>0, <1>4 DEF WatchdogQuit, Closing, CloseDone, Stop, Clear, WaitWatchdog, ToClosing
<1> QED
  BY <1>1, <1>2, <1>3, <1>4 DEF Moves, ServerMoves

-----------------------------------------------------------------------------
(***************************************************************************)
(* The file at the path is the socket of a listener that is open, or none  *)
(* of a session; the sessions come one after the other; and one that began *)
(* when no server lingered has at each of its steps the file it needs.     *)
(***************************************************************************)
Owned == file \in Session => file \in listening

Order == \A j, k \in Session : j < k /\ main[k] # "idle" => main[j] \in Over

Needs(k) ==
    /\ main[k] = "stat" => file \in {None, Stale}
    /\ main[k] = "remove" => file = Stale
    /\ main[k] = "bind" => file = None
    /\ main[k] \in {"chmod", "run"} => file = k
    /\ closing[k] = "waiting" => file = k

Undisturbed(k) == Alone(k) =>
    /\ \A j \in Session : j < k => ~ Lingers(j)
    /\ main[k] # "failed"
    /\ ~ Cancelled(k) => Needs(k)

SocketInv ==
    /\ TypeInv /\ Life
    /\ Owned /\ Order
    /\ \A k \in Session : Undisturbed(k)

LEMMA SocketInit == Init => SocketInv
<1> SUFFICES ASSUME Init PROVE Life /\ Owned /\ Order /\ \A k \in Session : Undisturbed(k)
  BY InitTypes DEF SocketInv
<1>1. Life
  BY DEF Init, ServerInit, Life
<1>2. Owned
  BY DEF Init, ServerInit, Owned, None, Stale
<1> QED
  BY <1>1, <1>2 DEF Init, ServerInit, Order, Undisturbed, Alone

LEMMA OwnedNext ==
    ASSUME TypeInv, Owned, NEW a \in Session, Moves(a)
    PROVE  Owned'
<1>0. file \in Session \cup {None, Stale} /\ listening \in SUBSET Session
  BY DEF TypeInv, TypeOK, ServerTypes
<1>1. None \notin Session
  BY DEF None
<1>2. CASE UNCHANGED <<file, listening>>
  BY <1>2 DEF Owned
<1>3. CASE ListenRemove(a)
  BY <1>1, <1>3 DEF ListenRemove, Owned
<1>4. CASE ListenBind(a)
  BY <1>4 DEF ListenBind, Owned
<1>5. CASE CloseListener(a)
  BY <1>0, <1>1, <1>5 DEF CloseListener, Owned
<1>6. CASE ManagerMoves(a)
  <2>1. UNCHANGED <<file, listening>>
    BY <1>6 DEF ManagerMoves, Begin, Start, RegisterStore, Interrupt, InterruptServer, DoneReads,
           Signal, DoneReturns
  <2> QED
    BY <1>2, <2>1
<1>7. CASE Starting(a)
  BY <1>2, <1>3, <1>4, <1>7 DEF Starting, ListenStat, ListenChmod, Run, RegisterLookup
<1>8. CASE Serve(a)
  <2>1. closing[a] \in {"waiting", "closed", "stopped", "cleared", "over"}
    BY <1>8 DEF Serve, TypeInv, TypeOK, ServerTypes, Together
  <2>2. UNCHANGED <<file, listening>> \/ CloseListener(a)
    <3>1. CASE closing[a] \in {"waiting", "closed"}
      BY <1>8, <3>1 DEF Serve
    <3>2. CASE closing[a] = "stopped"
      BY <1>8, <3>2 DEF Serve
    <3>3. CASE closing[a] \in {"cleared", "over"}
      BY <1>8, <3>3 DEF Serve
    <3> QED
      BY <2>1, <3>1, <3>2, <3>3
  <2> QED
    BY <1>2, <1>5, <2>2
<1>9. CASE WatchdogQuit(a) \/ Closing(a)
  BY <1>2, <1>5, <1>9 DEF WatchdogQuit, Closing, CloseDone, Stop, Clear, WaitWatchdog
<1> QED
  BY <1>6, <1>7, <1>8, <1>9 DEF Moves, ServerMoves

LEMMA OrderNext ==
    ASSUME TypeInv, Order, NEW a \in Session, Moves(a)
    PROVE  Order'
<1>0. main \in [Session -> Main]
  BY DEF TypeInv, TypeOK, ServerTypes
<1>1. \A j \in Session \ {a} : main'[j] = main[j]
  BY Others
<1>2. ASSUME NEW j \in Session, j < a, main'[a] # "idle" PROVE main'[j] \in Over
  <2>1. CASE main[a] # "idle"
    BY <1>1, <1>2, <2>1 DEF Order
  <2>2. CASE main[a] = "idle"
    <3>1. CASE Begin(a)
      <4>1. a > 1 /\ a - 1 \in Session /\ main[a - 1] \in Over
        BY <1>2, <3>1 DEF Begin
      <4>2. j = a - 1 \/ j < a - 1
        BY <1>2
      <4> QED
        BY <1>1, <1>2, <4>1, <4>2 DEF Order, Over
    <3>2. CASE ~ Begin(a)
      <4>1. CASE ManagerMoves(a)
        BY <1>2, <2>2, <3>2, <4>1 DEF ManagerMoves, Start, RegisterStore, Interrupt,
               InterruptServer, ToClosing, DoneReads, Signal, DoneReturns
      <4>2. CASE ServerMoves(a)
        BY <1>2, <2>2, <4>2 DEF ServerMoves, Starting, ListenStat, ListenRemove, ListenBind,
               ListenChmod, Run, RegisterLookup, Serve, WatchdogQuit, Closing, CloseDone, Stop,
               Clear, WaitWatchdog, ToClosing
      <4> QED
        BY <4>1, <4>2 DEF Moves
    <3> QED
      BY <3>1, <3>2
  <2> QED
    BY <2>1, <2>2
<1>3. main[a] \in Over => main'[a] \in Over
  <2>1. CASE ManagerMoves(a)
    BY <1>0, <2>1 DEF ManagerMoves, Begin, Start, RegisterStore, Interrupt, InterruptServer,
           ToClosing, DoneReads, Signal, DoneReturns, Over
  <2>2. CASE ServerMoves(a)
    BY <1>0, <2>2 DEF ServerMoves, Starting, ListenStat, ListenRemove, ListenBind, ListenChmod, Run,
           RegisterLookup, Serve, WatchdogQuit, Closing, CloseDone, Stop, Clear, WaitWatchdog,
           ToClosing, Over
  <2> QED
    BY <2>1, <2>2 DEF Moves
<1> QED
  BY <1>1, <1>2, <1>3 DEF Order

(* What another session does. *)
LEMMA UndisturbedByOthers ==
    ASSUME SocketInv, NEW a \in Session, Moves(a), NEW k \in Session, k # a, Undisturbed(k)
    PROVE  Undisturbed(k)'
<1> SUFFICES ASSUME Alone(k)'
             PROVE  /\ \A j \in Session : j < k => ~ Lingers(j)'
                    /\ main'[k] # "failed"
                    /\ ~ Cancelled(k)' => Needs(k)'
  BY DEF Undisturbed
<1>1. main'[k] = main[k] /\ closing'[k] = closing[k] /\ Alone(k)
  BY Others DEF SocketInv, Alone
<1>2. ASSUME NEW j \in Session, j < k PROVE ~ Lingers(j)'
  <2>1. main[j] \in Over /\ ~ Lingers(j)
    BY <1>1, <1>2 DEF SocketInv, Order, Undisturbed, Alone
  <2>2. CASE j = a
    BY <2>1, <2>2, QuietLeaves DEF SocketInv, Lingers
  <2>3. CASE j # a
    BY <2>1, <2>3, Others DEF SocketInv, Lingers
  <2> QED
    BY <2>2, <2>3
<1>3. ~ Cancelled(k)' => Needs(k)'
  <2> SUFFICES ASSUME ~ Cancelled(k)' PROVE Needs(k)'
    OBVIOUS
  <2>1. ~ Cancelled(k)
    BY <1>1 DEF Cancelled
  <2>2. main[a] = "idle" \/ (main[a] \in Over /\ ~ Lingers(a))
    <3>1. CASE a < k
      BY <1>1, <3>1 DEF SocketInv, Order, Undisturbed, Alone
    <3>2. CASE k < a
      BY <2>1, <3>2 DEF SocketInv, Order, Cancelled
    <3> QED
      BY <3>1, <3>2
  <2>3. file' = file
    BY <2>2, QuietLeaves DEF SocketInv
  <2> QED
    BY <1>1, <2>1, <2>3 DEF Undisturbed, Needs
<1> QED
  BY <1>1, <1>2, <1>3 DEF Undisturbed

(* What the session and its server do themselves. *)
LEMMA UndisturbedByItself ==
    ASSUME SocketInv, NEW k \in Session, Moves(k), Undisturbed(k)
    PROVE  Undisturbed(k)'
<1> SUFFICES ASSUME Alone(k)'
             PROVE  /\ \A j \in Session : j < k => ~ Lingers(j)'
                    /\ main'[k] # "failed"
                    /\ ~ Cancelled(k)' => Needs(k)'
  BY DEF Undisturbed
<1>0. /\ file \in Session \cup {None, Stale}
      /\ main \in [Session -> Main]
      /\ at \in [Session -> Node]
      /\ apps \in [Session -> SUBSET Node]
      /\ closing \in [Session -> {"off", "waiting", "closed", "stopped", "cleared", "over"}]
      /\ \A j \in Session : serve[j] # "off" => closing[j] # "off"
      /\ Life /\ Owned
  BY DEF SocketInv, TypeInv, TypeOK, ServerTypes, Together
<1>1. ASSUME \A j \in Session : j < k => ~ Lingers(j)
      PROVE  \A j \in Session : j < k => ~ Lingers(j)'
  BY <1>1, Others DEF SocketInv, Lingers
<1>2. CASE Begin(k)
  <2>1. \A j \in Session : ~ Lingers(j)
    BY <1>0, <1>2 DEF Begin, Alone
  <2>2. file \in {None, Stale}
    BY <1>0, <2>1 DEF Owned, Lingers
  <2>3. /\ main'[k] = "stat" /\ closing'[k] = closing[k] /\ closing[k] = "off"
        /\ file' = file
    BY <1>0, <1>2 DEF Begin, Goto, Life, Early
  <2> QED
    BY <1>1, <2>1, <2>2, <2>3 DEF Needs
<1>3. CASE ~ Begin(k)
  <2>1. Alone(k)
    <3>1. CASE ManagerMoves(k)
      BY <1>0, <1>3, <3>1 DEF ManagerMoves, Start, RegisterStore, Interrupt, InterruptServer,
             ToClosing, DoneReads, Signal, DoneReturns, benchVars, Alone
    <3>2. CASE ServerMoves(k)
      BY <1>0, <3>2 DEF ServerMoves, Starting, ListenStat, ListenRemove, ListenBind, ListenChmod,
             Run, RegisterLookup, Serve, WatchdogQuit, Closing, CloseDone, Stop, Clear,
             WaitWatchdog, ToClosing, benchVars, Alone
    <3> QED
      BY <3>1, <3>2 DEF Moves
  <2>2. /\ \A j \in Session : j < k => ~ Lingers(j)
        /\ main[k] # "failed"
        /\ ~ Cancelled(k) => Needs(k)
    BY <2>1 DEF Undisturbed
  <2>3. main'[k] # "failed" /\ (~ Cancelled(k)' => Needs(k)')
    <3>1. CASE ManagerMoves(k)
      <4>1. /\ file' = file /\ main'[k] \notin Early
            /\ main'[k] # "failed"
            /\ closing'[k] = "waiting" => closing[k] = "waiting"
            /\ main[k] \in Over => main'[k] \in Over
        BY <1>0, <1>3, <2>2, <3>1 DEF ManagerMoves, Start, RegisterStore, Interrupt, InterruptServer,
               ToClosing, DoneReads, Signal, DoneReturns, Goto, Early, Listen, Over, benchVars, Life
      <4> QED
        BY <2>2, <4>1 DEF Needs, Cancelled, Early, Listen
    <3>2. CASE ListenStat(k)
      BY <1>0, <2>2, <3>2 DEF ListenStat, Goto, Needs, Cancelled, Over, Life, Early, Listen
    <3>3. CASE ListenRemove(k)
      BY <1>0, <2>2, <3>3 DEF ListenRemove, Goto, Needs, Cancelled, Over, Life, Early, Listen,
             None, Stale
    <3>4. CASE ListenBind(k)
      BY <1>0, <2>2, <3>4 DEF ListenBind, Goto, Needs, Cancelled, Over, Life, Early, Listen
    <3>5. CASE ListenChmod(k)
      BY <1>0, <2>2, <3>5 DEF ListenChmod, Goto, Needs, Cancelled, Over, Life, Early, Listen, None
    <3>6. CASE Run(k)
      BY <1>0, <2>2, <3>6 DEF Run, Goto, Needs, Cancelled, Over
    <3>7. CASE RegisterLookup(k)
      <4>1. at[k] \notin apps[k]
        BY <1>0, <3>7 DEF RegisterLookup, Life
      <4> QED
        BY <1>0, <2>2, <3>7, <4>1 DEF RegisterLookup, Goto, Needs, Cancelled, Over
    <3>8. CASE Serve(k) \/ Closing(k)
      <4>1. /\ main' = main
            /\ closing'[k] = "waiting" => closing[k] = "waiting" /\ file' = file
            /\ closing[k] # "off"
        BY <1>0, <3>8 DEF Serve, Closing, CloseDone, Stop, Clear, WaitWatchdog, ToClosing
      <4>2. main[k] \notin Early
        BY <1>0, <4>1 DEF Life
      <4> QED
        BY <2>2, <4>1, <4>2 DEF Needs, Cancelled, Early, Listen
    <3>9. CASE WatchdogQuit(k)
      BY <2>2, <3>9 DEF WatchdogQuit, Needs, Cancelled
    <3> QED
      BY <3>1, <3>2, <3>3, <3>4, <3>5, <3>6, <3>7, <3>8, <3>9 DEF Moves, ServerMoves, Starting
  <2> QED
    BY <1>1, <2>2, <2>3
<1> QED
  BY <1>2, <1>3

LEMMA SocketNext == SocketInv /\ [Next]_vars => SocketInv'
<1> SUFFICES ASSUME SocketInv, [Next]_vars
             PROVE  Owned' /\ Order' /\ \A k \in Session : Undisturbed(k)'
  BY NextTypes, LifeNext DEF SocketInv
<1>1. ASSUME NEW a \in Session, Moves(a)
      PROVE  Owned' /\ Order' /\ \A k \in Session : Undisturbed(k)'
  BY <1>1, OwnedNext, OrderNext, UndisturbedByOthers, UndisturbedByItself DEF SocketInv
<1>2. ASSUME UNCHANGED <<file, listening, main, closing, overlap>>
      PROVE  Owned' /\ Order' /\ \A k \in Session : Undisturbed(k)'
  BY <1>2 DEF SocketInv, Owned, Order, Undisturbed, Alone, Lingers, Cancelled, Needs
<1>3. ASSUME NEW k \in Session, NEW n \in Node, NodeMoves(k, n)
      PROVE  UNCHANGED <<file, listening, main, closing, overlap>>
  BY <1>3, NodesKeepServers
<1>4. CASE UNCHANGED vars
  BY <1>2, <1>4 DEF vars, serverVars, benchVars
<1> QED
  BY <1>1, <1>2, <1>3, <1>4, NextMoves DEF Moves

(***************************************************************************)
(* A session that begins when no server is left of another one starts, and *)
(* the socket at the path is its own until its context is done, for any    *)
(* number of sessions and whatever file it finds there.                    *)
(***************************************************************************)
THEOREM BenchKeepsSocket == Spec => []AloneKeepsSocket
<1>1. SocketInv => AloneKeepsSocket
  BY DEF SocketInv, Undisturbed, AloneKeepsSocket, Needs, Hears
<1> QED
  BY <1>1, SocketInit, SocketNext, PTL DEF Spec
=============================================================================

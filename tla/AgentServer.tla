---------------------------- MODULE AgentServer ----------------------------
(***************************************************************************)
(* The life of the agent's control servers that listen, one after the      *)
(* other, on the same unix socket of one process                           *)
(* (elastic-agent/server/server.go, sdk pkg/utils/listener/listener.go):   *)
(* New and Run with the goroutines it leaves behind, and the registry of   *)
(* the nodes that may connect.  Session k has server k.                    *)
(*                                                                         *)
(* net.UnixListener and grpc.Server are not under src/.  What is relied on *)
(* here: closing a listener removes the file at its path, whichever socket *)
(* the file is by then; Stop closes the listeners that are served; Serve   *)
(* on a server that was stopped closes the listener it is given.           *)
(***************************************************************************)
EXTENDS Naturals

CONSTANTS
    Sessions,   \* how many servers are made
    Last        \* the number of nodes that are registered with each

ASSUME ServerAssumption == Sessions \in Nat \ {0} /\ Last \in Nat \ {0}

Session == 1 .. Sessions
Node == 1 .. Last
None == 0                   \* no file
Stale == Sessions + 1       \* the file of a process that was killed

VARIABLES
    file,       \* the session whose socket is at the path, None or Stale
    listening,  \* the sessions whose listener is open
    main,       \* where the goroutine is that runs the session
    at,         \* the node it registers
    apps,       \* Server.apps: the nodes with a token and a certificate
    serve,      \* the goroutine that calls Serve
    watchdog,   \* the watchdog's
    closing,    \* the one that waits for the context
    crashed     \* what the process died of, "exit" when it just ended

serverVars == <<file, listening, main, at, apps, serve, watchdog, closing, crashed>>

Listen == {"stat", "remove", "bind", "chmod"}
Over == {"returned", "failed"}
Main == {"idle", "run", "lookup", "store", "parked", "done", "await", "fetch"} \cup Listen \cup Over

ServerTypes ==
    /\ file \in Session \cup {None, Stale}
    /\ listening \in SUBSET Session
    /\ main \in [Session -> Main]
    /\ at \in [Session -> Node]
    /\ apps \in [Session -> SUBSET Node]
    /\ serve \in [Session -> {"off", "pending", "on", "over"}]
    /\ watchdog \in [Session -> {"off", "on", "over"}]
    /\ closing \in [Session -> {"off", "waiting", "closed", "stopped", "cleared", "over"}]
    /\ crashed \in {"no", "serve", "early", "exit"}

ServerInit ==
    /\ file \in {None, Stale}
    /\ listening = {}
    /\ main = [k \in Session |-> "idle"]
    /\ at = [k \in Session |-> Last]
    /\ apps = [k \in Session |-> {}]
    /\ serve = [k \in Session |-> "off"]
    /\ watchdog = [k \in Session |-> "off"]
    /\ closing = [k \in Session |-> "off"]
    /\ crashed = "no"

Goto(k, pc) == main' = [main EXCEPT ![k] = pc]

(* The session's context is done when its Run has returned (defer cancel). *)
Cancelled(k) == main[k] \in Over
-----------------------------------------------------------------------------
(***************************************************************************)
(* listener.New.  The file may go away between its steps.                  *)
(***************************************************************************)
BadListenStat(k) ==
    /\ main[k] = "stat"
    /\ Goto(k, "bind")
    /\ UNCHANGED <<file, listening, at, apps, serve, watchdog, closing, crashed>>

ListenStat(k) ==
    /\ main[k] = "stat"
    /\ Goto(k, IF file = None THEN "bind" ELSE "remove")
    /\ UNCHANGED <<file, listening, at, apps, serve, watchdog, closing, crashed>>

ListenRemove(k) ==
    /\ main[k] = "remove"
    /\ file' = None
    /\ Goto(k, IF file = None THEN "failed" ELSE "bind")
    /\ UNCHANGED <<listening, at, apps, serve, watchdog, closing, crashed>>

(* The address is in use as long as there is a file. *)
ListenBind(k) ==
    /\ main[k] = "bind"
    /\ IF file = None
       THEN file' = k /\ listening' = listening \cup {k} /\ Goto(k, "chmod")
       ELSE UNCHANGED <<file, listening>> /\ Goto(k, "failed")
    /\ UNCHANGED <<at, apps, serve, watchdog, closing, crashed>>

ListenChmod(k) ==
    /\ main[k] = "chmod"
    /\ Goto(k, IF file = None THEN "failed" ELSE "run")
    /\ UNCHANGED <<file, listening, at, apps, serve, watchdog, closing, crashed>>

(* What is left of Run: the server is made and its goroutines are started. *)
Run(k) ==
    /\ main[k] = "run"
    /\ serve' = [serve EXCEPT ![k] = "pending"]
    /\ watchdog' = [watchdog EXCEPT ![k] = "on"]
    /\ closing' = [closing EXCEPT ![k] = "waiting"]
    /\ Goto(k, "lookup")
    /\ UNCHANGED <<file, listening, at, apps, crashed>>
-----------------------------------------------------------------------------
(* Register: Get and Store are two steps. *)
RegisterLookup(k) ==
    /\ main[k] = "lookup"
    /\ Goto(k, IF at[k] \in apps[k] THEN "failed" ELSE "store")
    /\ UNCHANGED <<file, listening, at, apps, serve, watchdog, closing, crashed>>

(* The token of the head of the chain is not stored, used as a mutant. *)
BadRegisterStore(k, next) ==
    /\ main[k] = "store"
    /\ apps' = [apps EXCEPT ![k] = @ \cup ({at[k]} \ {1})]
    /\ Goto(k, IF at[k] = 1 THEN next ELSE "lookup")
    /\ at' = [at EXCEPT ![k] = IF @ = 1 THEN @ ELSE @ - 1]
    /\ UNCHANGED <<file, listening, serve, watchdog, closing, crashed>>

(***************************************************************************)
(* From here on the node has a token and a certificate of its own.  A      *)
(* chain is started from its tail; then the manager goes on with "next".   *)
(***************************************************************************)
RegisterStore(k, next) ==
    /\ main[k] = "store"
    /\ apps' = [apps EXCEPT ![k] = @ \cup {at[k]}]
    /\ Goto(k, IF at[k] = 1 THEN next ELSE "lookup")
    /\ at' = [at EXCEPT ![k] = IF @ = 1 THEN @ ELSE @ - 1]
    /\ UNCHANGED <<file, listening, serve, watchdog, closing, crashed>>

(***************************************************************************)
(* A client reaches a server through the file, and the one it reaches has  *)
(* its certificate (getCertificate) and its token (getByToken).            *)
(***************************************************************************)
Reaches(k, n) ==
    /\ file = k /\ k \in listening /\ serve[k] = "on"
    /\ n \in apps[k]
-----------------------------------------------------------------------------
(* The listener is closed, and with it the file goes away. *)
CloseListener(k) ==
    /\ file' = IF k \in listening THEN None ELSE file
    /\ listening' = listening \ {k}

(***************************************************************************)
(* The goroutine looks s.server up when it runs: it may be gone, or may    *)
(* have been stopped.                                                      *)
(***************************************************************************)
Serve(k) ==
    /\ serve[k] = "pending"
    /\ CASE closing[k] \in {"waiting", "closed"} ->
              /\ serve' = [serve EXCEPT ![k] = "on"]
              /\ UNCHANGED <<file, listening, crashed>>
         [] closing[k] = "stopped" ->
              /\ serve' = [serve EXCEPT ![k] = "over"]
              /\ CloseListener(k)
              /\ UNCHANGED crashed
         [] closing[k] \in {"cleared", "over"} ->
              /\ crashed' = "serve"
              /\ UNCHANGED <<serve, file, listening>>
    /\ UNCHANGED <<main, at, apps, watchdog, closing>>

BadHears(k) == closing[k] = "over"

Hears(k) == closing[k] # "waiting"

(* watchdogDone is closed. *)
WatchdogQuit(k) ==
    /\ watchdog[k] = "on" /\ Hears(k)
    /\ watchdog' = [watchdog EXCEPT ![k] = "over"]
    /\ UNCHANGED <<file, listening, main, at, apps, serve, closing, crashed>>

ToClosing(k, from, to) ==
    /\ closing[k] = from
    /\ closing' = [closing EXCEPT ![k] = to]
    /\ UNCHANGED <<main, at, apps, watchdog, crashed>>

CloseDone(k) ==
    /\ Cancelled(k)
    /\ ToClosing(k, "waiting", "closed")
    /\ UNCHANGED <<file, listening, serve>>

Stop(k) ==
    /\ ToClosing(k, "closed", "stopped")
    /\ IF serve[k] = "on"
       THEN CloseListener(k) /\ serve' = [serve EXCEPT ![k] = "over"]
       ELSE UNCHANGED <<file, listening, serve>>

Clear(k) ==
    /\ ToClosing(k, "stopped", "cleared")
    /\ UNCHANGED <<file, listening, serve>>

WaitWatchdog(k) ==
    /\ watchdog[k] = "over"
    /\ ToClosing(k, "cleared", "over")
    /\ UNCHANGED <<file, listening, serve>>

Starting(k) ==
    \/ ListenStat(k) \/ ListenRemove(k) \/ ListenBind(k) \/ ListenChmod(k)
    \/ Run(k)
    \/ RegisterLookup(k)

Closing(k) == CloseDone(k) \/ Stop(k) \/ Clear(k) \/ WaitWatchdog(k)
=============================================================================

----------------------------- MODULE ActionCall -----------------------------
(***************************************************************************)
(* What PerformAction promises its callers, with no stream, channel or     *)
(* goroutine in it: a call returns at most once, an action is executed at  *)
(* most once and never before it is asked for, and an answer of the        *)
(* application is only ever returned for an action that it has seen.       *)
(***************************************************************************)
EXTENDS Naturals

CONSTANTS Call, Undefined

VARIABLES
  phase,      \* "idle", "called", "returned"
  outcome,    \* what the call returned
  executed    \* how often the application executed the action

callVars == <<phase, outcome, executed>>

Init ==
  /\ phase    = [c \in Call |-> "idle"]
  /\ outcome  = [c \in Call |-> "none"]
  /\ executed = [c \in Call |-> 0]

Invoke(c) ==
  /\ phase[c] = "idle"
  /\ phase' = [phase EXCEPT ![c] = "called"]
  /\ UNCHANGED <<outcome, executed>>

\* The application is being destroyed: the call is not even accepted.
Reject(c) ==
  /\ phase[c] = "idle"
  /\ phase' = [phase EXCEPT ![c] = "returned"]
  /\ outcome' = [outcome EXCEPT ![c] = "cancelled"]
  /\ UNCHANGED executed

\* May happen after the call has timed out.
Execute(c) ==
  /\ phase[c] # "idle" /\ executed[c] = 0
  /\ executed' = [executed EXCEPT ![c] = 1]
  /\ UNCHANGED <<phase, outcome>>

Justified(c, r) ==
  \/ r \in {"timedout", "cancelled"}
  \/ r \in {"success", "failed"} /\ executed[c] = 1
  \/ r = "failed" /\ c \in Undefined

\* The watchdog and Destroy answer several calls at once.
Return(C, r) ==
  /\ \A c \in C : phase[c] = "called" /\ Justified(c, r)
  /\ phase'   = [c \in Call |-> IF c \in C THEN "returned" ELSE phase[c]]
  /\ outcome' = [c \in Call |-> IF c \in C THEN r ELSE outcome[c]]
  /\ UNCHANGED executed

Next ==
  \/ \E c \in Call : Invoke(c) \/ Reject(c) \/ Execute(c)
  \/ \E C \in SUBSET Call, r \in {"success", "failed", "timedout", "cancelled"} :
       Return(C, r)

Spec == Init /\ [][Next]_callVars
=============================================================================

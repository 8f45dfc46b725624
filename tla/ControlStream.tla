--------------------------- MODULE ControlStream ----------------------------
(***************************************************************************)
(* The bidirectional gRPC streams one application opens to the agent, as   *)
(* the server (elastic-agent/server/server.go) and the client              *)
(* (elastic-agent-sdk/pkg/control/client.go) use them.  Every stream is    *)
(* used once; the client opens the next one when it reconnects.  gRPC is   *)
(* not under src/, so this module states what the code relies on:          *)
(*   - each direction delivers in order and never duplicates;              *)
(*   - a stream that is broken (by the network, by a cancelled context or  *)
(*     by the handler's return) may deliver what was sent before, or fail; *)
(*   - Send on a broken stream either fails, and then the message is not   *)
(*     delivered, or is accepted into a buffer and lost.                   *)
(***************************************************************************)
EXTENDS Naturals, Sequences

CONSTANTS
  Stream,     \* the streams the client can open
  None        \* nil

VARIABLES
  link,       \* link[s]: "none" before it is opened, "open", then "broken"
  up,         \* up[s]: what the client sent and the server has not read
  down        \* down[s]: what the server sent and the client has not read

wireVars == <<link, up, down>>

WireInit ==
  /\ link = [s \in Stream |-> "none"]
  /\ up   = [s \in Stream |-> <<>>]
  /\ down = [s \in Stream |-> <<>>]

-----------------------------------------------------------------------------

\* Send returned nil: m is on its way, or lost if the stream was broken.
SendUp(s, m) ==
  /\ up' = IF link[s] = "open" THEN [up EXCEPT ![s] = Append(@, m)] ELSE up
  /\ UNCHANGED <<link, down>>

SendDown(s, m) ==
  /\ down' = IF link[s] = "open" THEN [down EXCEPT ![s] = Append(@, m)] ELSE down
  /\ UNCHANGED <<link, up>>

\* Send and Recv return an error only on a broken stream.
Fails(s) == link[s] = "broken"

Close(s) == link' = [link EXCEPT ![s] = "broken"]

\* The network breaks a stream that is open.
NetBreak(s) ==
  /\ link[s] = "open"
  /\ Close(s)
  /\ UNCHANGED <<up, down>>
=============================================================================

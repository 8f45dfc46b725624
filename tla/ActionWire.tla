----------------------------- MODULE ActionWire -----------------------------
(***************************************************************************)
(* What the Actions streams of one application carry: requests, which are  *)
(* action ids, down to the client and responses up to the server.          *)
(***************************************************************************)
EXTENDS ControlStream

CONSTANT Call       \* the action ids, one per call of PerformAction

ASSUME NoneAssumption == None \notin Call \cup Stream

\* The first message of a stream carries the token under the id "init".
InitMsg == [call |-> None, status |-> "success"]

Response == [call : Call, status : {"success", "failed"}]

WireTypeOK ==
  /\ link \in [Stream -> {"none", "open", "broken"}]
  /\ up   \in [Stream -> Seq(Response \cup {InitMsg})]
  /\ down \in [Stream -> Seq(Call)]
=============================================================================

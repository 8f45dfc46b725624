---------------------------- MODULE CheckinWire -----------------------------
(***************************************************************************)
(* What the check-in streams of one application carry                      *)
(* (elastic-agent-sdk/proto/control.proto): StateObserved up to the server *)
(* and StateExpected down to the client.  Messages and payloads of a       *)
(* status are left out; a status is "stopping" or anything else.           *)
(***************************************************************************)
EXTENDS ControlStream

CONSTANTS
  Config,           \* the configurations UpdateConfig may be called with
  InitConfig        \* the configuration the application is registered with

ASSUME ConfigAssumption == InitConfig \notin Config /\ None \notin Stream

AnyConfig == Config \cup {InitConfig, None}     \* None is the empty string

Observed == [idx : Nat, status : {"running", "stopping"}]
Expected == [state : {"running", "stopping"}, idx : Nat, cfg : AnyConfig]

WireTypeOK ==
  /\ link \in [Stream -> {"none", "open", "broken"}]
  /\ up   \in [Stream -> Seq(Observed)]
  /\ down \in [Stream -> Seq(Expected)]
=============================================================================

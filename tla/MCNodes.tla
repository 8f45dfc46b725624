------------------------------ MODULE MCNodes ------------------------------
(* Instances of Nodes: chains, and which node refuses which configuration. *)
EXTENDS Nodes

Sends == [receiver |-> FALSE, sender |-> TRUE]
Receives == [receiver |-> TRUE, sender |-> FALSE]
Both == [receiver |-> TRUE, sender |-> TRUE]

(* Input, processor, output; and a chain whose end would send. *)
SomeChains == {<<Sends, Both, Receives>>, <<Sends, Both, Both>>}

(***************************************************************************)
(* The second node is refused its first configuration, when its receiver   *)
(* is open already, then has a good one, one that cannot be read and at    *)
(* last a good one again; any of them may be missed.                       *)
(***************************************************************************)
SomeUnusable == {<<2, 1>>}
SomeMalformed == {<<2, 3>>}
None == {}
=============================================================================

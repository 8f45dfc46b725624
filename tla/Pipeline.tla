------------------------------ MODULE Pipeline ------------------------------
(***************************************************************************)
(* Which chains of components the agent accepts, the connection            *)
(* information it writes to each of them, and whether a runner can load it. *)
(*                                                                         *)
(* A component is what it can do: receive events, send them, both or       *)
(* neither.  A chain is a sequence of components, the input first.         *)
(***************************************************************************)
EXTENDS Naturals, Sequences

(***************************************************************************)
(* What `info` prints of a component and the agent reads back              *)
(* (components.go); in-process pipelines ask the component's interfaces    *)
(* instead, which is where `info` has it from.                             *)
(***************************************************************************)
Kind == [receiver : BOOLEAN, sender : BOOLEAN]

(* Nothing is asked of the last component either, used as a mutant. *)
BadNewPipeline(kinds) ==
    /\ Len(kinds) >= 2
    /\ ~ kinds[1].receiver
    /\ \A i \in 2 .. Len(kinds) - 1 : kinds[i].receiver /\ kinds[i].sender

(***************************************************************************)
(* Nothing is asked of the first component but that it does not receive,   *)
(* nor of the last but that it does not send.                              *)
(***************************************************************************)
NewPipeline(kinds) ==
    /\ Len(kinds) >= 2
    /\ ~ kinds[1].receiver
    /\ ~ kinds[Len(kinds)].sender
    /\ \A i \in 2 .. Len(kinds) - 1 : kinds[i].receiver /\ kinds[i].sender

NewInsidePipeline(kinds) == NewPipeline(kinds)

NewDirectPipeline(kinds) == NewPipeline(kinds)

(***************************************************************************)
(* writeConnInfo: every node but the first has a socket, every node but    *)
(* the last is told of the next one's.                                     *)
(***************************************************************************)
ConnInfo(kinds, i) == [receive |-> i > 1, send |-> i < Len(kinds)]

(* A runner does not load without the information its component needs. *)
Load(kind, info) ==
    /\ kind.sender => info.send
    /\ kind.receiver => info.receive

(***************************************************************************)
(* In direct mode the runner is given the next component, which has to     *)
(* receive: exec asserts its type.                                         *)
(***************************************************************************)
NewDirectRunner(kinds, i) ==
    IF i < Len(kinds) THEN kinds[i + 1].receiver ELSE ~ kinds[i].sender
=============================================================================

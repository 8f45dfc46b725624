---------------------------- MODULE Instructions ----------------------------
(***************************************************************************)
(* What an application takes from whoever runs it, no stream in it: the    *)
(* configurations it is to have, each under an index, and the word to      *)
(* stop.  It need not see every configuration, nor the newest one last,    *)
(* but what it is given under an index was wanted under it, it runs with   *)
(* what it was given, and once told to stop it takes nothing.              *)
(***************************************************************************)
EXTENDS Naturals

CONSTANTS
  Configs,      \* the configurations that can be wanted
  First,        \* the one that is wanted to begin with
  Nothing       \* no configuration

VARIABLES
  wanted,       \* the configurations that were wanted, each with its index
  stopping,     \* it is to stop
  has,          \* the index of the configuration it was given last, or 0
  given,        \* that configuration
  runs,         \* the configuration it runs with, or Nothing
  told          \* it knows that it is to stop

vars == <<wanted, stopping, has, given, runs, told>>

Init ==
  /\ wanted = {<<1, First>>} /\ stopping = FALSE
  /\ has = 0 /\ given = Nothing /\ runs = Nothing /\ told = FALSE

\* An index may be given a second configuration; nobody takes the first back.
Want ==
  /\ wanted \subseteq wanted'
  /\ wanted' \ wanted \subseteq (Nat \ {0}) \X (Configs \cup {First})
  /\ UNCHANGED <<stopping, has, given, runs, told>>

Stop ==
  /\ stopping' = TRUE
  /\ UNCHANGED <<wanted, has, given, runs, told>>

Take ==
  /\ ~told
  /\ \E w \in wanted : w[1] # has /\ has' = w[1] /\ given' = w[2]
  /\ UNCHANGED <<wanted, stopping, runs, told>>

Apply ==
  /\ has > 0
  /\ runs' = given
  /\ UNCHANGED <<wanted, stopping, has, given, told>>

Learn ==
  /\ stopping /\ told' = TRUE
  /\ UNCHANGED <<wanted, stopping, has, given, runs>>

\* Another process takes its place.
Again ==
  /\ has' = 0 /\ given' = Nothing /\ runs' = Nothing /\ told' = FALSE
  /\ UNCHANGED <<wanted, stopping>>

Next == Want \/ Stop \/ Take \/ Apply \/ Learn \/ Again

Spec == Init /\ [][Next]_vars
=============================================================================

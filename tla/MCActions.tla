----------------------------- MODULE MCActions ------------------------------
(* Small instances of Actions for TLC.                                     *)
EXTENDS Actions, TLC

\* Streams are opened in any order and differ in nothing else.
StreamSymmetry == Permutations(Stream)
=============================================================================

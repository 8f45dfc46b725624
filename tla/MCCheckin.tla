----------------------------- MODULE MCCheckin ------------------------------
(* Small instances of Checkin for TLC.                                     *)
EXTENDS Checkin, TLC

\* Streams are opened in any order and differ in nothing else, and so do the
\* threads that call UpdateConfig.
Symmetry == Permutations(Stream) \cup Permutations(Updater) \cup Permutations(Config)
=============================================================================

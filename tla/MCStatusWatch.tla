--------------------------- MODULE MCStatusWatch ----------------------------
(* Small instances of StatusWatch for TLC.                                 *)
EXTENDS StatusWatch, TLC

\* Receivers differ in nothing but their names, and so do the setters.
Symmetry == Permutations(Receiver) \cup Permutations(Setter)
=============================================================================

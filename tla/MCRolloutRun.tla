---------------------------- MODULE MCRolloutRun ----------------------------
(* Small instances of RolloutRun for TLC. *)
EXTENDS RolloutRun, TLC

\* Processes are interchangeable.
Symmetry == Permutations(Workers)
=============================================================================

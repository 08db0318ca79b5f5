----------------------------- MODULE MCJobQueue -----------------------------
(* Small instances of JobQueue for TLC. *)
EXTENDS JobQueue, TLC

\* Jobs and processes are interchangeable within their kind.
Symmetry == Permutations(Rollouts \ BadPayload) \cup Permutations(BadPayload)
              \cup Permutations(Jobs \ Rollouts) \cup Permutations(Workers)
=============================================================================

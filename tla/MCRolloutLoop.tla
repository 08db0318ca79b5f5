--------------------------- MODULE MCRolloutLoop ---------------------------
(***************************************************************************)
(* Small answers of the policy and of the bridge for TLC.  With a budget of *)
(* two tokens the first answer exceeds it in the first turn, the second     *)
(* never does, and the third does when it finishes the second turn.         *)
(***************************************************************************)
EXTENDS RolloutLoop

CONSTANT c  \* the success criterion

MCAnswers ==
  {[tool |-> "test",   run |-> "exit0", says |-> {c}, tokens |-> 3],
   [tool |-> "test",   run |-> "hangs", says |-> {},  tokens |-> 1],
   [tool |-> "finish", run |-> "exit0", says |-> {},  tokens |-> 2]}

Read == [actor |-> "environment", tool |-> "read", rc |-> 0, says |-> {c}]

MCOutcomes ==
  {[steps |-> <<Read, Read, Read, Read, Read>>, tokens |-> 1, errors |-> 0, reward |-> 15000],
   [steps |-> <<Read>>, tokens |-> 4, errors |-> 1, reward |-> -3333]}
\* Two disturbances in one behaviour, or an overlap alone.
MCTogether == {{a, b} : a, b \in Disturbances \ {"overlap"}} \cup {{"overlap"}}
=============================================================================

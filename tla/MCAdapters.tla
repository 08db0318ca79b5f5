----------------------------- MODULE MCAdapters -----------------------------
(***************************************************************************)
(* Bounds of the Adapters model: disturbances of one kind, or of two kinds   *)
(* that meet.                                                                *)
(***************************************************************************)
EXTENDS Adapters

CONSTANTS e1, e2, s1

MCActors == {e1, e2, s1}
MCOutcomes == {[status |-> "completed", reward |-> 1, cost |-> 1],
               [status |-> "failed", reward |-> 0, cost |-> 0],
               [status |-> "cancelled", reward |-> 0, cost |-> 1]}
MCTogether ==
  {{d} : d \in Disturbances}
    \cup {{"finish", "crash"}, {"finish", "trainer"}, {"save", "trainer"}, {"cancel", "store"}}
    \cup {{"again", d} : d \in {"register", "hangup", "store"}}
=============================================================================

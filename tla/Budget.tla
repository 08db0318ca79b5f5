------------------------------- MODULE Budget -------------------------------
(***************************************************************************)
(* The daily budget of the Coordinator.  Every rollout, of the job runner   *)
(* or of the eval harness, looks at the cost recorded in the window before  *)
(* it starts; its own cost is recorded when it ends.  Between the two it is *)
(* running, and the check of another one does not see it.                   *)
(*                                                                          *)
(* An actor executes one rollout at a time: a slot of the job runner or an  *)
(* eval request.  Costs are natural numbers of some unit.                   *)
(***************************************************************************)
EXTENDS Integers, FiniteSets

CONSTANTS
  Actors,   \* who executes rollouts at the same time
  Cap,      \* settings.daily_budget_usd, not 0: a budget is set
  MaxCost   \* what one rollout costs at most

ASSUME BudgetAssumption ==
  /\ IsFiniteSet(Actors)
  /\ Cap \in Nat \ {0} /\ MaxCost \in Nat

VARIABLES
  spent,    \* total_cost_since: the recorded cost of the runs in the window
  running   \* the actors between the check and the save of a rollout

bvars == <<spent, running>>

BInit == spent = 0 /\ running = {}

AdmitAtCap(a) ==
  /\ a \notin running /\ spent <= Cap
  /\ running' = running \cup {a}
  /\ UNCHANGED spent

\* reject_if_over_budget lets the rollout start.
Admit(a) ==
  /\ a \notin running /\ spent < Cap
  /\ running' = running \cup {a}
  /\ UNCHANGED spent

\* It fails the rollout, which costs nothing.
Reject(a) == a \notin running /\ spent >= Cap /\ UNCHANGED bvars

\* finish: the manifest with the cost of this execution replaces the one that an
\* earlier attempt of the run may have left.
Record(a, before, cost) ==
  /\ a \in running
  /\ running' = running \ {a}
  /\ spent' = spent - before + cost

\* The execution goes away with its process or its request: no cost is saved.
Vanish(a) == a \in running /\ running' = running \ {a} /\ UNCHANGED spent

\* The server is restarted: no rollout is running.
Restart == running' = {} /\ UNCHANGED spent

\* A run falls out of the window, or a late cancel saves its manifest as it was
\* before it ran.
Age(cost) == spent' = spent - cost /\ UNCHANGED running

BNext ==
  \/ \E a \in Actors :
       \/ Admit(a) \/ Reject(a) \/ Vanish(a)
       \/ \E cost \in 0..MaxCost, before \in 0..spent : Record(a, before, cost)
  \/ \E cost \in 0..spent : Age(cost)
  \/ Restart

BSpec == BInit /\ [][BNext]_bvars
-----------------------------------------------------------------------------
\* The recorded cost is a natural number, and only actors run.
BTypeOK == spent \in Nat /\ running \in SUBSET Actors

\* Check-then-act on the recorded cost overshoots the budget by less than one
\* rollout per actor, not by more: what is recorded, and what the rollouts that
\* run may still add, stays below the cap plus MaxCost for every actor.
OvershootBounded ==
  spent + MaxCost * Cardinality(running) < Cap + MaxCost * Cardinality(Actors)
=============================================================================

---------------------------- MODULE JobContract ----------------------------
(***************************************************************************)
(* What the job queue promises to the rest of horizon, without rows,       *)
(* leases, heartbeats or processes: jobs start in the order in which they  *)
(* were submitted, may be started again while they are active, settle once *)
(* and for all, and are never started after they were withdrawn.           *)
(***************************************************************************)
EXTENDS Naturals

CONSTANTS Jobs, Rollouts

VARIABLES phase, starts, withdrawn, arrival

vars == <<phase, starts, withdrawn, arrival>>

Init ==
  /\ phase = [j \in Jobs |-> "absent"]
  /\ starts = [j \in Jobs |-> 0]
  /\ withdrawn = [j \in Jobs |-> FALSE]
  /\ arrival = [j \in Jobs |-> 0]

Submit(j) ==
  /\ phase[j] = "absent"
  /\ phase' = [phase EXCEPT ![j] = "pending"]
  /\ arrival' \in [Jobs -> Nat]
  /\ \A i \in Jobs : arrival[i] < arrival'[j]
  /\ \A i \in Jobs \ {j} : arrival'[i] = arrival[i]
  /\ UNCHANGED <<starts, withdrawn>>

\* The first start: the oldest pending job of its kind.
Begin(j) ==
  /\ phase[j] = "pending" /\ ~withdrawn[j]
  /\ \A i \in Jobs : phase[i] = "pending" /\ (i \in Rollouts <=> j \in Rollouts)
                     => arrival[j] <= arrival[i]
  /\ phase' = [phase EXCEPT ![j] = "active"]
  /\ starts' = [starts EXCEPT ![j] = 1]
  /\ UNCHANGED <<withdrawn, arrival>>

\* A later start, of a job whose attempt is given up for lost.
Again(j) ==
  /\ phase[j] = "active" /\ ~withdrawn[j]
  /\ starts' = [starts EXCEPT ![j] = @ + 1]
  /\ UNCHANGED <<phase, withdrawn, arrival>>

Settle(j) ==
  /\ phase[j] = "active"
  /\ phase' = [phase EXCEPT ![j] = "settled"]
  /\ UNCHANGED <<starts, withdrawn, arrival>>

\* A pending job settles at once, an active one at the latest when its attempt
\* settles it; a settled one stays settled.
Withdraw(j) ==
  /\ phase[j] # "absent"
  /\ withdrawn' = [withdrawn EXCEPT ![j] = TRUE]
  /\ \/ phase[j] # "pending" /\ UNCHANGED phase
     \/ phase' = [phase EXCEPT ![j] = "settled"]
  /\ UNCHANGED <<starts, arrival>>

Next ==
  \E j \in Jobs : Submit(j) \/ Begin(j) \/ Again(j) \/ Settle(j) \/ Withdraw(j)

Spec == Init /\ [][Next]_vars
=============================================================================

--------------------------- MODULE AdaptersProofs ---------------------------
(***************************************************************************)
(* Proofs about Budget and Adapters, for any actors, slots, evals and        *)
(* limits: the overshoot of the budget is bounded, and the rollouts of eval  *)
(* requests and of the job runner, over crashes and dropped requests, are    *)
(* rollouts as Budget knows them.                                            *)
(***************************************************************************)
EXTENDS Adapters, FiniteSetTheorems, SequenceTheorems, WellFoundedInduction, TLAPS

\* What the steps of Budget keep.
BInv == BTypeOK /\ OvershootBounded

\* The number of rollouts that run: at most one per actor, and one less or more
\* with the step of an actor.
LEMMA RunningCounts ==
  ASSUME BTypeOK
  PROVE  /\ IsFiniteSet(running)
         /\ Cardinality(running) \in Nat /\ Cardinality(Actors) \in Nat
         /\ Cardinality(running) <= Cardinality(Actors)
         /\ \A a \in Actors \ running :
              Cardinality(running \cup {a}) = Cardinality(running) + 1
                /\ Cardinality(running) + 1 <= Cardinality(Actors)
         /\ \A a \in running : Cardinality(running \ {a}) = Cardinality(running) - 1
<1>1. IsFiniteSet(running) /\ running \subseteq Actors /\ IsFiniteSet(Actors)
  BY FS_Subset, BudgetAssumption DEF BTypeOK
<1>2. Cardinality(running) \in Nat /\ Cardinality(Actors) \in Nat
  BY <1>1, FS_CardinalityType
<1>3. Cardinality(running) <= Cardinality(Actors)
  BY <1>1, FS_Subset
<1>4. ASSUME NEW a \in Actors \ running
      PROVE  /\ Cardinality(running \cup {a}) = Cardinality(running) + 1
             /\ Cardinality(running) + 1 <= Cardinality(Actors)
  <2>1. Cardinality(running \cup {a}) = Cardinality(running) + 1
    BY <1>1, FS_AddElement
  <2>2. running \cup {a} \subseteq Actors
    BY <1>1
  <2>3. Cardinality(running \cup {a}) <= Cardinality(Actors)
    BY <1>1, <2>2, FS_Subset
  <2> QED BY <2>1, <2>3
<1>5. \A a \in running : Cardinality(running \ {a}) = Cardinality(running) - 1
  BY <1>1, FS_RemoveElement
<1> QED BY <1>1, <1>2, <1>3, <1>4, <1>5

\* Multiplication by MaxCost respects the order and steps of one.
LEMMA CostGrows ==
  /\ \A m, n \in Nat : m <= n => MaxCost * m <= MaxCost * n
  /\ \A n \in Nat : MaxCost * n \in Nat /\ MaxCost * (n + 1) = MaxCost * n + MaxCost
<1>1. MaxCost \in Nat
  BY BudgetAssumption
<1>2. ASSUME NEW m \in Nat, NEW n \in Nat, m <= n
      PROVE  MaxCost * m <= MaxCost * n
  BY <1>1, <1>2
<1>3. \A n \in Nat : MaxCost * n \in Nat /\ MaxCost * (n + 1) = MaxCost * n + MaxCost
  BY <1>1
<1> QED BY <1>2, <1>3

\* Less spent and less running keeps a sum below a bound.
LEMMA Below ==
  \A s, t, m, p, q, c \in Nat : s + (p + m) < c + q /\ t <= s + m => t + p < c + q
OBVIOUS

\* Nothing is spent, and nobody runs, at first.
LEMMA BInitInv == BInit => BInv
<1> SUFFICES ASSUME BInit PROVE BInv
  OBVIOUS
<1>1. BTypeOK
  BY DEF BInit, BTypeOK
<1>2. Cardinality(running) = 0
  BY FS_EmptySet DEF BInit
<1>3. spent = 0 /\ Cap \in Nat \ {0} /\ MaxCost \in Nat
  BY BudgetAssumption DEF BInit
<1>4. MaxCost * Cardinality(Actors) \in Nat
  BY <1>1, RunningCounts, CostGrows
<1>5. MaxCost * 0 = 0
  BY <1>3
<1> QED BY <1>1, <1>2, <1>3, <1>4, <1>5 DEF BInv, OvershootBounded

\* Every step of Budget keeps the types and the bound.
LEMMA BStepInv == BInv /\ [BNext]_bvars => BInv'
<1> SUFFICES ASSUME BInv, [BNext]_bvars PROVE BInv'
  OBVIOUS
<1> DEFINE r == Cardinality(running)
           n == Cardinality(Actors)
           used == MaxCost * r
           most == MaxCost * n
<1>1. /\ spent \in Nat /\ running \in SUBSET Actors /\ BTypeOK
      /\ spent + used < Cap + most
  BY DEF BInv, BTypeOK, OvershootBounded
<1>2. Cap \in Nat /\ MaxCost \in Nat /\ r \in Nat /\ n \in Nat
  BY <1>1, RunningCounts, BudgetAssumption
<1>3. used \in Nat /\ most \in Nat
  BY <1>2, CostGrows
<1>4. ASSUME NEW a \in Actors, Admit(a) PROVE BInv'
  <2>1. spent' = spent /\ spent < Cap /\ running' = running \cup {a} /\ a \in Actors \ running
    BY <1>4 DEF Admit
  <2>2. BTypeOK'
    BY <1>1, <2>1 DEF BTypeOK
  <2>3. Cardinality(running') = r + 1 /\ r + 1 <= n
    BY <1>1, <2>1, RunningCounts
  <2> DEFINE next == MaxCost * Cardinality(running')
  <2>4. next <= most
    BY <1>2, <2>3, CostGrows
  <2>5. next \in Nat
    BY <1>2, <2>3, CostGrows
  <2>6. spent' + next < Cap + most
    <3> HIDE DEF next, most, used
    <3> QED BY <1>1, <1>2, <1>3, <2>1, <2>4, <2>5
  <2> QED BY <2>2, <2>6 DEF BInv, OvershootBounded
<1>5. ASSUME NEW a \in Actors, a \in running, running' = running \ {a},
             spent' \in Nat, spent' <= spent + MaxCost
      PROVE  BInv'
  <2>1. BTypeOK'
    BY <1>1, <1>5 DEF BTypeOK
  <2>2. Cardinality(running') = r - 1
    BY <1>1, <1>5, RunningCounts
  <2>3. r - 1 \in Nat
    <3>1. Cardinality(running') \in Nat
      BY <2>1, RunningCounts, FS_CardinalityType, FS_Subset, BudgetAssumption DEF BTypeOK
    <3> QED BY <2>2, <3>1
  <2> DEFINE next == MaxCost * (r - 1)
  <2>4. used = next + MaxCost /\ next \in Nat
    <3>1. \E p \in Nat : p = r - 1 /\ p + 1 = r
      BY <1>2, <2>3
    <3> QED BY <3>1, CostGrows
  <2>5. spent' + next < Cap + most
    <3> HIDE DEF next, most, used
    <3>1. spent + (next + MaxCost) < Cap + most
      BY <1>1, <2>4
    <3> QED BY <1>1, <1>2, <1>3, <1>5, <2>4, <3>1, Below
  <2> QED BY <2>1, <2>2, <2>5 DEF BInv, OvershootBounded
<1>6. ASSUME spent' \in Nat, spent' <= spent, running' = running PROVE BInv'
  <2>1. BTypeOK'
    BY <1>1, <1>6 DEF BTypeOK
  <2>2. spent' + used < Cap + most
    <3> HIDE DEF most, used
    <3>1. spent + (used + 0) < Cap + most /\ spent' <= spent + 0
      BY <1>1, <1>3, <1>6
    <3> QED BY <1>1, <1>2, <1>3, <1>6, <3>1, Below
  <2> QED BY <1>6, <2>1, <2>2 DEF BInv, OvershootBounded
<1>7. ASSUME NEW a \in Actors, Reject(a) PROVE BInv'
  BY <1>1, <1>6, <1>7 DEF Reject, bvars
<1>8. ASSUME NEW a \in Actors, NEW cost \in 0..MaxCost, NEW before \in 0..spent, Record(a, before, cost)
      PROVE  BInv'
  <2>1. spent' = spent - before + cost /\ a \in running /\ running' = running \ {a}
    BY <1>8 DEF Record
  <2>2. spent' \in Nat /\ spent' <= spent + MaxCost
    BY <1>1, <1>2, <1>8, <2>1
  <2> QED BY <1>5, <2>1, <2>2
<1>9. ASSUME NEW a \in Actors, Vanish(a) PROVE BInv'
  <2>1. spent' = spent /\ a \in running /\ running' = running \ {a}
    BY <1>9 DEF Vanish
  <2>2. spent' \in Nat /\ spent' <= spent + MaxCost
    BY <1>1, <1>2, <2>1
  <2> QED BY <1>5, <2>1, <2>2
<1>10. ASSUME NEW cost \in 0..spent, Age(cost) PROVE BInv'
  <2>1. spent' = spent - cost /\ running' = running
    BY <1>10 DEF Age
  <2>2. spent' \in Nat /\ spent' <= spent
    BY <1>1, <1>10, <2>1
  <2> QED BY <1>6, <2>1, <2>2
<1>11. CASE Restart
  <2>1. spent' = spent /\ running' = {}
    BY <1>11 DEF Restart
  <2>2. BTypeOK'
    BY <1>1, <2>1 DEF BTypeOK
  <2>3. Cardinality(running') = 0
    BY <2>1, FS_EmptySet
  <2>4. MaxCost * 0 = 0
    BY <1>2
  <2>5. spent' + MaxCost * 0 < Cap + most
    <3> HIDE DEF most, used
    <3> QED BY <1>1, <1>2, <1>3, <2>1, <2>4
  <2> QED BY <2>2, <2>3, <2>5 DEF BInv, OvershootBounded
<1>12. CASE UNCHANGED bvars
  BY <1>1, <1>6, <1>12 DEF bvars
<1> QED BY <1>4, <1>7, <1>8, <1>9, <1>10, <1>11, <1>12 DEF BNext

\* Type correctness of the budget, for any actors that act like Budget.
THEOREM BudgetTypeCorrect == BSpec => []BTypeOK
<1>1. BInit /\ [][BNext]_bvars => []BInv
  BY BInitInv, BStepInv, PTL
<1>2. BInv => BTypeOK
  BY DEF BInv
<1> QED BY <1>1, <1>2, PTL DEF BSpec

\* Check-then-act on the recorded cost overshoots the cap by less than one rollout
\* per actor (reject_if_over_budget, coordinator.rs).
THEOREM BudgetOvershoot == BSpec => []OvershootBounded
<1>1. BInit /\ [][BNext]_bvars => []BInv
  BY BInitInv, BStepInv, PTL
<1>2. BInv => OvershootBounded
  BY DEF BInv
<1> QED BY <1>1, <1>2, PTL DEF BSpec
-----------------------------------------------------------------------------
\* A task of the job runner is a step of Budget: what it records replaces at most
\* what is recorded.
LEMMA SlotIsBudget ==
  ASSUME BTypeOK, NEW s \in Slots, SlotStep(s)
  PROVE  BNext
<1>1. s \in Actors
  BY AdaptersAssumption
<1>2. Earlier \subseteq 0..spent
  BY DEF Earlier, BTypeOK
<1>3. \A o \in Outcomes : o.cost \in 0..MaxCost
  BY AdaptersAssumption
<1> QED BY <1>1, <1>2, <1>3 DEF SlotStep, BNext

\* So is a step of an eval request.
LEMMA EvalIsBudget ==
  ASSUME BTypeOK, NEW e \in Evals, EvalStep(e) \/ Hangup(e)
  PROVE  [BNext]_bvars
<1>1. e \in Actors
  BY AdaptersAssumption
<1>2. \A o \in Outcomes : o.cost \in 0..MaxCost
  BY AdaptersAssumption
<1>3. CASE StartRun(e)
  BY <1>1, <1>3 DEF StartRun, BNext
<1>4. CASE EndRun(e)
  <2>1. 0 \in 0..spent
    BY DEF BTypeOK
  <2> QED BY <1>1, <1>2, <1>4, <2>1 DEF EndRun, BNext
<1>5. CASE Hangup(e)
  BY <1>1, <1>5 DEF Hangup, BNext
<1>6. CASE Submit(e) \/ Unregister(e) \/ StampBegin(e) \/ Stamp(e)
  BY <1>6 DEF Submit, Unregister, StampBegin, Stamp
<1>7. ASSUME NEW k \in 1..Tasks, CancelAct(e, k) PROVE [BNext]_bvars
  <2>1. \A cost : Within(cost) \subseteq 0..spent
    BY DEF Within
  <2> QED BY <1>7, <2>1 DEF CancelAct, BNext
<1> QED BY <1>3, <1>4, <1>5, <1>6, <1>7 DEF EvalStep

\* The budget sees every step of the composition as one of its own, or not at all.
LEMMA StepIsBudget == BTypeOK /\ [ANext]_avars => [BNext]_bvars
<1> SUFFICES ASSUME BTypeOK, [ANext]_avars PROVE [BNext]_bvars
  OBVIOUS
<1>1. ASSUME NEW n \in Attempts, TrainStep(n) PROVE UNCHANGED bvars
  BY <1>1 DEF TrainStep, TrainBegin, Metric, TrainerEnds, Truncate, Write, SaveTrained, PublishAdapter,
              SaveFailed, FinishTraining
<1>2. CASE SaveQueuedRecord \/ EnqueueTraining \/ LeaseAgain \/ Exhausted \/ LoseLease \/ Reload
  BY <1>2 DEF SaveQueuedRecord, EnqueueTraining, LeaseAgain, Exhausted, LoseLease, Reload
<1>3. CASE Window
  <2>1. 1..spent \subseteq 0..spent
    BY DEF BTypeOK
  <2> QED BY <1>3, <2>1 DEF Window, BNext
<1>4. CASE Crash
  BY <1>4 DEF Crash, BNext
<1>5. ASSUME NEW e \in Evals, EvalStep(e) \/ Hangup(e) PROVE [BNext]_bvars
  BY <1>5, EvalIsBudget
<1>6. ASSUME NEW e \in Evals, NEW id \in Requested, GetAdapter(e, id) PROVE UNCHANGED bvars
  BY <1>6 DEF GetAdapter
<1>7. ASSUME NEW e \in Evals, NEW k \in 1..Tasks, CancelRead(e, k) PROVE UNCHANGED bvars
  BY <1>7 DEF CancelRead
<1>8. ASSUME NEW s \in Slots, SlotStep(s) PROVE BNext
  BY <1>8, SlotIsBudget
<1>9. CASE UNCHANGED avars
  BY <1>9 DEF avars
<1> QED BY <1>1, <1>2, <1>3, <1>4, <1>5, <1>6, <1>7, <1>8, <1>9 DEF ANext

\* The composition implements Budget: evals, job runner, crashes and dropped
\* requests admit, record and vanish as it says.
THEOREM ImplementsBudget == ASpec => BSpec
<1>1. AInit => BInit
  BY DEF AInit
<1>2. BInv /\ [ANext]_avars => BInv'
  BY StepIsBudget, BStepInv DEF BInv
<1>3. BInv /\ [ANext]_avars => [BNext]_bvars
  BY StepIsBudget DEF BInv
<1> QED BY <1>1, <1>2, <1>3, BInitInv, PTL DEF ASpec, BSpec

\* In the composition too, concurrent rollouts overshoot the daily budget by less
\* than one rollout per actor.
THEOREM CompositionOvershoot == ASpec => []OvershootBounded
BY ImplementsBudget, BudgetOvershoot, PTL
-----------------------------------------------------------------------------
(***************************************************************************)
(* The training side: types of the record, the job, the attempts and the     *)
(* announcements.                                                            *)
(***************************************************************************)
RecordType == [status : {"absent", "queued", "running"} \cup Final, out : 0..MaxAttempts,
               error : BOOLEAN, metrics : [1..Steps -> 0..MaxAttempts]]

TrainPc == {"idle", "training", "registering", "writing", "saving", "publishing", "failing", "returned",
            "done", "dead"}

TrainType == [pc : TrainPc, points : SUBSET (1..Steps), out : 0..MaxAttempts, error : BOOLEAN,
              result : {"none"} \cup Final]

TInv ==
  /\ record \in RecordType
  /\ job \in NoJob \cup Leasable /\ leased \in 1..MaxAttempts + 2
  /\ train \in [Attempts -> TrainType]
  /\ \A n \in Attempts : TAt(n, "returned") => train[n].result \in Final

\* The announcements that wait in the channel were made.
PInv ==
  /\ published \subseteq Attempts /\ loaded \subseteq published
  /\ pending \in Seq(published) /\ Len(pending) <= EventBuffer

LEMMA Limits == {Tasks, Steps, MaxAttempts, EventBuffer} \subseteq Nat \ {0} /\ 1 \in Attempts
BY AdaptersAssumption DEF Attempts

LEMMA TInit == AInit => TInv /\ PInv
<1> SUFFICES ASSUME AInit PROVE TInv /\ PInv
  OBVIOUS
<1>1. record \in RecordType
  BY Limits DEF AInit, RecordType
<1>2. job \in NoJob \cup Leasable /\ leased \in 1..MaxAttempts + 2
  BY Limits DEF AInit, NoJob
<1>3. train \in [Attempts -> TrainType] /\ \A n \in Attempts : ~TAt(n, "returned")
  BY Limits DEF AInit, TrainType, TrainPc, Waiting, TAt
<1>4. PInv
  BY Limits DEF AInit, PInv
<1> QED BY <1>1, <1>2, <1>3, <1>4 DEF TInv

\* An attempt that moves on keeps its record's type; the other attempts stay.
LEMMA TrainMoves ==
  ASSUME TInv, NEW n \in Attempts, NEW r \in TrainType, train' = [train EXCEPT ![n] = r],
         r.pc = "returned" => r.result \in Final,
         record' \in RecordType, job' \in NoJob \cup Leasable, leased' \in 1..MaxAttempts + 2
  PROVE  TInv'
<1>1. train' \in [Attempts -> TrainType]
  BY DEF TInv
<1>2. ASSUME NEW m \in Attempts, TAt(m, "returned")' PROVE train'[m].result \in Final
  BY <1>2 DEF TInv, TAt
<1> QED BY <1>1, <1>2 DEF TInv, RecordType

\* Every step of an attempt keeps the types of the training side.
LEMMA TrainStepTypes ==
  ASSUME TInv, NEW n \in Attempts, TrainStep(n)
  PROVE  TInv'
<1> DEFINE t == train[n]
           Goto(pc, result) == [pc |-> pc, points |-> t.points, out |-> t.out, error |-> t.error, result |-> result]
<1>1. /\ t \in TrainType /\ train \in [Attempts -> TrainType] /\ record \in RecordType
      /\ job \in NoJob \cup Leasable /\ leased \in 1..MaxAttempts + 2
  BY DEF TInv
<1>2. /\ t = Goto(t.pc, t.result)
      /\ t.points \in SUBSET (1..Steps) /\ t.out \in 0..MaxAttempts /\ t.error \in BOOLEAN
      /\ t.result \in {"none"} \cup Final
  BY <1>1 DEF TrainType
<1>3. \A pc \in TrainPc, result \in {"none"} \cup Final : Goto(pc, result) \in TrainType
  BY <1>2 DEF TrainType
<1>4. \A pc \in TrainPc : TGoto(n, pc) => train' = [train EXCEPT ![n] = Goto(pc, t.result)]
  BY <1>1, <1>2 DEF TGoto, TrainType
<1>11. \A result \in Final : Returned(n, result) =>
          train' = [train EXCEPT ![n] = Goto("returned", result)] /\ Goto("returned", result).pc = "returned"
            /\ Goto("returned", result).result = result
  BY <1>1, <1>2 DEF Returned, TrainType
<1>5. CASE TrainBegin(n)
  <2>1. Begun \in TrainType /\ Begun.pc = "training"
    <3>1. record.out \in 0..MaxAttempts /\ record.error \in BOOLEAN
      BY <1>1 DEF RecordType
    <3> DEFINE out == record.out
               error == record.error
    <3>2. Begun = [pc |-> "training", points |-> {}, out |-> out, error |-> error, result |-> "none"]
      <4> HIDE DEF out, error
      <4>1. Begun = [Waiting EXCEPT !.pc = "training", !.out = out, !.error = error]
        BY DEF Begun, out, error
      <4> QED BY <4>1 DEF Waiting
    <3>3. [pc |-> "training", points |-> {}, out |-> out, error |-> error, result |-> "none"] \in TrainType
      BY <3>1, Limits DEF TrainType, TrainPc
    <3> QED BY <3>2, <3>3
  <2>2. record' \in RecordType /\ job' \in NoJob \cup Leasable /\ leased' = leased
    BY <1>1, <1>5 DEF TrainBegin, RecordType, Leasable
  <2>3. CASE train' = [train EXCEPT ![n] = Begun]
    BY <1>1, <2>1, <2>2, <2>3, TrainMoves
  <2>4. CASE Returned(n, "failed")
    BY <1>1, <1>3, <1>11, <2>2, <2>4, TrainMoves DEF TrainPc, Final
  <2> QED BY <1>5, <2>3, <2>4 DEF TrainBegin
<1>6. CASE Metric(n)
  <2>0. PICK s \in 1..Steps :
          /\ train' = [train EXCEPT ![n].points = @ \cup {s}]
          /\ record' = [record EXCEPT !.metrics[s] = n] \/ record' = record
    BY <1>6 DEF Metric
  <2> DEFINE points == t.points \cup {s}
             next == [pc |-> "training", points |-> points, out |-> t.out, error |-> t.error,
                      result |-> t.result]
  <2>1. next \in TrainType /\ next.pc = "training"
    BY <1>2 DEF TrainType, TrainPc
  <2>2. train' = [train EXCEPT ![n] = next]
    <3>1. [t EXCEPT !.points = points] = next
      <4> HIDE DEF points
      <4>1. t = Goto("training", t.result)
        BY <1>2, <1>6 DEF Metric, TAt
      <4> QED BY <4>1
    <3> QED BY <1>1, <2>0, <3>1
  <2>3. n \in 0..MaxAttempts
    BY Limits DEF Attempts
  <2>4. record' \in RecordType
    <3>1. [record EXCEPT !.metrics[s] = n] \in RecordType
      BY <1>1, <2>3 DEF RecordType
    <3> QED BY <1>1, <2>0, <3>1
  <2>5. job' = job /\ leased' = leased
    BY <1>6 DEF Metric
  <2> HIDE DEF next
  <2> QED BY <1>1, <2>1, <2>2, <2>4, <2>5, TrainMoves
<1>7. CASE TrainerEnds(n) \/ Truncate(n)
  <2>1. PICK pc \in TrainPc \ {"returned"} : TGoto(n, pc)
    BY <1>7 DEF TrainerEnds, Truncate, TrainPc
  <2>2. record' = record /\ job' = job /\ leased' = leased
    BY <1>7 DEF TrainerEnds, Truncate
  <2> QED BY <1>1, <1>2, <1>3, <1>4, <2>1, <2>2, TrainMoves
<1>8. CASE Write(n) \/ SaveTrained(n) \/ PublishAdapter(n) \/ SaveFailed(n)
  <2>1. PICK pc \in TrainPc, result \in {"none"} \cup Final :
          train' = [train EXCEPT ![n] = Goto(pc, result)] /\ (pc = "returned" => result \in Final)
    BY <1>1, <1>2, <1>4, <1>8, <1>11
       DEF Write, SaveTrained, PublishAdapter, SaveFailed, TrainPc, Final
  <2>2. job' = job /\ leased' = leased
    BY <1>8 DEF Write, SaveTrained, PublishAdapter, SaveFailed
  <2>3. SavedMetrics(n) \in [1..Steps -> 0..MaxAttempts] /\ n \in 0..MaxAttempts
    BY <1>1, Limits DEF SavedMetrics, RecordType, Attempts
  <2>4. record' \in RecordType
    <3>1. Trained(n) \in RecordType
      BY <1>2, <2>3 DEF Trained, RecordType, Final
    <3>2. [status |-> "failed", out |-> t.out, error |-> TRUE, metrics |-> SavedMetrics(n)] \in RecordType
      BY <1>2, <2>3 DEF RecordType, Final
    <3> QED BY <1>1, <1>8, <3>1, <3>2 DEF Write, SaveTrained, PublishAdapter, SaveFailed
  <2> QED BY <1>1, <1>3, <2>1, <2>2, <2>4, TrainMoves
<1>9. CASE FinishTraining(n)
  <2>1. TGoto(n, "done") /\ "done" \in TrainPc \ {"returned"}
    BY <1>9 DEF FinishTraining, TrainPc
  <2>2. record' = record /\ leased' = leased /\ job' \in {job, t.result} /\ t.result \in Final
    BY <1>9 DEF FinishTraining, TInv
  <2>3. job' \in NoJob \cup Leasable
    BY <1>1, <2>2 DEF Leasable
  <2> QED BY <1>1, <1>2, <1>3, <1>4, <2>1, <2>2, <2>3, TrainMoves
<1> QED BY <1>5, <1>6, <1>7, <1>8, <1>9 DEF TrainStep

\* The rest of the steps: the record is saved and enqueued, the job is leased again or
\* given up, the server dies.
LEMMA TrainTypes == TInv /\ [ANext]_avars => TInv'
<1> SUFFICES ASSUME TInv, [ANext]_avars PROVE TInv'
  OBVIOUS
<1>1. /\ record \in RecordType
      /\ job \in NoJob \cup Leasable /\ leased \in 1..MaxAttempts + 2 /\ MaxAttempts \in Nat \ {0}
      /\ train \in [Attempts -> TrainType]
  BY Limits DEF TInv
<1>2. ASSUME UNCHANGED tvars PROVE TInv'
  BY <1>1, <1>2 DEF tvars, TInv, TAt, RecordType
<1>3. ASSUME train' = train, record' \in RecordType, job' \in NoJob \cup Leasable,
             leased' \in 1..MaxAttempts + 2
      PROVE  TInv'
  BY <1>1, <1>3 DEF TInv, TAt, RecordType
<1>4. ASSUME NEW n \in Attempts, TrainStep(n) PROVE TInv'
  BY <1>4, TrainStepTypes
<1>5. CASE SaveQueuedRecord
  BY <1>1, <1>3, <1>5 DEF SaveQueuedRecord, RecordType, NoJob
<1>6. CASE EnqueueTraining
  BY <1>1, <1>3, <1>6 DEF EnqueueTraining, NoJob, Leasable
<1>7. CASE Exhausted
  BY <1>1, <1>3, <1>7 DEF Exhausted, Leasable, Final
<1>8. CASE LoseLease \/ LeaseAgain
  <2>1. leased' \in 1..MaxAttempts + 2
    BY <1>1, <1>8 DEF LoseLease, LeaseAgain
  <2> QED BY <1>1, <1>3, <1>8, <2>1 DEF LoseLease, LeaseAgain
<1>9. CASE Crash
  <2>1. train' \in [Attempts -> TrainType] /\ \A n \in Attempts : TAt(n, "returned")' => train'[n] = train[n]
    BY <1>1, <1>9 DEF Crash, TAt, TrainType, TrainPc
  <2>2. leased' \in 1..MaxAttempts + 2
    <3>1. CASE job = "running" /\ leased <= MaxAttempts
      <4>1. job \notin Final
        BY <3>1 DEF Final
      <4>2. leased' = leased + 1
        BY <1>9, <3>1, <4>1 DEF Crash
      <4> QED BY <1>1, <3>1, <4>2
    <3>2. CASE ~(job = "running" /\ leased <= MaxAttempts)
      <4>1. leased' \in {leased, MaxAttempts + 2}
        BY <1>1, <1>9, <3>2 DEF Crash
      <4> QED BY <1>1, <4>1
    <3> QED BY <3>1, <3>2
  <2>3. job' \in NoJob \cup Leasable /\ record' = record
    BY <1>1, <1>9 DEF Crash, NoJob
  <2> QED BY <1>1, <2>1, <2>2, <2>3 DEF TInv, TAt, RecordType
<1>10. ASSUME NEW e \in Evals, EvalStep(e) \/ Hangup(e) PROVE UNCHANGED tvars
  BY <1>10 DEF EvalStep, Hangup, Submit, StartRun, EndRun, Unregister, StampBegin, Stamp, CancelAct
<1>11. ASSUME NEW e \in Evals, NEW id \in Requested, GetAdapter(e, id) PROVE UNCHANGED tvars
  BY <1>11 DEF GetAdapter
<1>12. ASSUME NEW e \in Evals, NEW k \in 1..Tasks, CancelRead(e, k) PROVE UNCHANGED tvars
  BY <1>12 DEF CancelRead
<1>13. ASSUME NEW s \in Slots, SlotStep(s) PROVE UNCHANGED tvars
  BY <1>13 DEF SlotStep
<1>14. CASE Reload \/ Window \/ UNCHANGED avars
  BY <1>2, <1>14 DEF Reload, Window, avars
<1> QED
  BY <1>2, <1>4, <1>5, <1>6, <1>7, <1>8, <1>9, <1>10, <1>11, <1>12, <1>13, <1>14 DEF ANext

\* The channel holds announcements that were made, and never more than its capacity.
LEMMA ChannelTypes == PInv /\ [ANext]_avars => PInv'
<1> SUFFICES ASSUME PInv, [ANext]_avars PROVE PInv'
  OBVIOUS
<1>1. /\ published \subseteq Attempts /\ loaded \subseteq published
      /\ pending \in Seq(published) /\ Len(pending) <= EventBuffer
      /\ EventBuffer \in Nat \ {0}
  BY Limits DEF PInv
<1>2. ASSUME UNCHANGED pvars PROVE PInv'
  BY <1>1, <1>2 DEF pvars, PInv
<1>3. ASSUME NEW n \in Attempts, PublishAdapter(n) PROVE PInv'
  <2> DEFINE all == Append(pending, n)
  <2>1. published' = published \cup {n} /\ pending' = Queued(n) /\ loaded' = loaded
    BY <1>3 DEF PublishAdapter
  <2>2. pending \in Seq(published')
    BY <1>1, <2>1
  <2>3. all \in Seq(published') /\ Len(all) = Len(pending) + 1
    BY <2>1, <2>2
  <2>4. CASE Len(all) > EventBuffer
    <3>1. all # <<>>
      BY <2>1, <2>2, AppendProperties
    <3>2. Tail(all) \in Seq(published') /\ Len(Tail(all)) = Len(all) - 1
      BY <2>3, <3>1, HeadTailProperties
    <3> QED BY <1>1, <2>1, <2>3, <2>4, <3>2 DEF PInv, Queued
  <2>5. CASE ~(Len(all) > EventBuffer)
    BY <1>1, <2>1, <2>3, <2>5 DEF PInv, Queued
  <2> QED BY <2>4, <2>5
<1>4. CASE Reload
  <2>1. pending # <<>> /\ pending' = Tail(pending) /\ published' = published
    BY <1>4 DEF Reload
  <2>2. Tail(pending) \in Seq(published) /\ Len(Tail(pending)) = Len(pending) - 1 /\ Head(pending) \in published
    BY <1>1, <2>1, HeadTailProperties
  <2>3. loaded' \subseteq published
    BY <1>1, <1>4, <2>2 DEF Reload
  <2> QED BY <1>1, <2>1, <2>2, <2>3 DEF PInv
<1>5. CASE Crash
  <2>1. pending' = <<>> /\ published' = published /\ loaded' = loaded
    BY <1>5 DEF Crash
  <2>2. <<>> \in Seq(published) /\ Len(<<>>) = 0
    OBVIOUS
  <2> QED BY <1>1, <2>1, <2>2 DEF PInv
<1>6. ASSUME NEW n \in Attempts, TrainStep(n), ~PublishAdapter(n) PROVE UNCHANGED pvars
  BY <1>6 DEF TrainStep, TrainBegin, Metric, TrainerEnds, Truncate, Write, SaveTrained, SaveFailed, FinishTraining
<1>7. CASE SaveQueuedRecord \/ EnqueueTraining \/ LeaseAgain \/ Exhausted \/ LoseLease \/ Window \/ UNCHANGED avars
  BY <1>2, <1>7 DEF SaveQueuedRecord, EnqueueTraining, LeaseAgain, Exhausted, LoseLease, Window, avars
<1>8. ASSUME NEW e \in Evals, EvalStep(e) \/ Hangup(e) PROVE UNCHANGED pvars
  BY <1>8 DEF EvalStep, Hangup, Submit, StartRun, EndRun, Unregister, StampBegin, Stamp, CancelAct
<1>9. ASSUME NEW e \in Evals, NEW id \in Requested, GetAdapter(e, id) PROVE UNCHANGED pvars
  BY <1>9 DEF GetAdapter
<1>10. ASSUME NEW e \in Evals, NEW k \in 1..Tasks, CancelRead(e, k) PROVE UNCHANGED pvars
  BY <1>10 DEF CancelRead
<1>11. ASSUME NEW s \in Slots, SlotStep(s) PROVE UNCHANGED pvars
  BY <1>11 DEF SlotStep
<1> QED BY <1>2, <1>3, <1>4, <1>5, <1>6, <1>7, <1>8, <1>9, <1>10, <1>11 DEF ANext
-----------------------------------------------------------------------------
(***************************************************************************)
(* The eval side: manifests, requests and their runs.  A run is accounted    *)
(* for by the request at its task, or by what happened to the request; the    *)
(* runs of the other tasks have only the latter to excuse them.              *)
(***************************************************************************)
Files == [kind : {"file"}, scored : BOOLEAN, score : Int]
ManifestType == {Absent, Torn} \cup Files

EvalPc == {"idle", "submit", "register", "running", "ended", "broken", "stamp", "stamping", "done", "failed",
           "dropped"}

EvalType == [pc : EvalPc, id : 0..MaxAttempts, read : ManifestType, task : 1..Tasks, sum : Int]

InlineType == [status : {"absent", "queued", "running"} \cup Final, reward : Int,
               cost : Int, token : {"none", "live", "signalled"}, cancel : {"none", "queued", "running"}]

Accounted(happened, request, k, run) ==
  /\ run.token # "none" =>
       (request.task = k /\ request.pc \in {"running", "ended", "broken"}) \/ "hangup" \in happened
  /\ run.status \in {"queued", "running"} =>
       (request.task = k /\ request.pc \in {"register", "running"})
         \/ happened \cap {"hangup", "crash", "store"} # {}

EInv ==
  /\ eval \in [Evals -> EvalType] /\ inline \in [Evals -> [1..Tasks -> InlineType]]
  /\ \A e \in Evals, k \in 1..Tasks : Accounted(faults, eval[e], k, inline[e][k])

MInv ==
  /\ manifest \in [Attempts -> ManifestType]
  /\ \A e \in Evals : eval[e].pc \notin {"idle", "failed"} => eval[e].read \in Files
  /\ \A r \in reports : r.eval \in Evals

LEMMA EvalInit == AInit => EInv /\ MInv
<1> SUFFICES ASSUME AInit PROVE EInv /\ MInv
  OBVIOUS
<1>1. NoEval \in EvalType /\ NoEval.pc = "idle"
  BY Limits DEF NoEval, EvalType, EvalPc, ManifestType
<1>2. NoInline \in InlineType /\ NoInline.token = "none" /\ NoInline.status = "absent"
  BY DEF NoInline, InlineType
<1>3. EInv
  BY <1>1, <1>2 DEF AInit, EInv, Accounted
<1>4. MInv
  BY <1>1 DEF AInit, MInv, ManifestType
<1> QED BY <1>3, <1>4

\* A request that writes one of its runs, the one at its task if it moves on.
LEMMA Serves ==
  ASSUME EInv, NEW e \in Evals, NEW k \in 1..Tasks, NEW v \in EvalType, NEW r \in InlineType,
         v = eval[e] \/ k = eval[e].task,
         eval' = [eval EXCEPT ![e] = v], inline' = [inline EXCEPT ![e][k] = r],
         faults \subseteq faults', Accounted(faults', v, k, r)
  PROVE  EInv'
<1>1. eval' \in [Evals -> EvalType] /\ inline' \in [Evals -> [1..Tasks -> InlineType]]
  BY DEF EInv
<1>2. ASSUME NEW f \in Evals, NEW i \in 1..Tasks
      PROVE  Accounted(faults', eval'[f], i, inline'[f][i])
  <2>1. Accounted(faults, eval[f], i, inline[f][i])
    BY DEF EInv
  <2>2. Accounted(faults', eval[f], i, inline[f][i])
    BY <2>1 DEF Accounted
  <2>3. CASE f = e /\ i = k
    BY <2>3 DEF EInv
  <2>4. CASE f = e /\ i # k
    <3>1. eval'[f] = v /\ inline'[f][i] = inline[f][i]
      BY <2>4 DEF EInv
    <3>2. CASE v = eval[e]
      BY <2>2, <2>4, <3>1, <3>2
    <3>3. CASE k = eval[e].task
      BY <2>1, <2>4, <3>1, <3>3 DEF Accounted
    <3> QED BY <3>2, <3>3
  <2>5. CASE f # e
    <3>1. eval'[f] = eval[f] /\ inline'[f] = inline[f]
      BY <2>5 DEF EInv
    <3> QED BY <2>2, <3>1
  <2> QED BY <2>3, <2>4, <2>5
<1> QED BY <1>1, <1>2 DEF EInv

\* A request that moves on without a write.
LEMMA Moves ==
  ASSUME EInv, NEW e \in Evals, NEW v \in EvalType,
         eval' = [eval EXCEPT ![e] = v], inline' = inline,
         faults \subseteq faults', Accounted(faults', v, eval[e].task, inline[e][eval[e].task])
  PROVE  EInv'
<1>1. eval[e].task \in 1..Tasks /\ inline[e][eval[e].task] \in InlineType
  BY DEF EInv, EvalType
<1>2. inline' = [inline EXCEPT ![e][eval[e].task] = inline[e][eval[e].task]]
  BY DEF EInv
<1> QED BY <1>1, <1>2, Serves

\* A cancel gives a run no token, and ends it or leaves its status.
LEMMA CancelledRun ==
  ASSUME NEW run \in InlineType
  PROVE  /\ Cancelled(run) \in InlineType
         /\ Cancelled(run).token # "none" => run.token # "none"
         /\ Cancelled(run).status \in {"queued", "running"} => Cancelled(run).status = run.status
<1>1. CASE TooLate(run)
  <2>1. /\ run.reward \in Int /\ run.token \in {"none", "live", "signalled"}
        /\ run.token = "none" /\ "cancelled" \in Final
    BY <1>1 DEF TooLate, InlineType, Final
  <2>2. PICK status, cost : run = [status |-> status, reward |-> run.reward, cost |-> cost,
                                   token |-> run.token, cancel |-> run.cancel]
    BY DEF InlineType
  <2>3. Cancelled(run) = [status |-> "cancelled", reward |-> run.reward, cost |-> 0,
                          token |-> run.token, cancel |-> "none"]
    BY <1>1, <2>2 DEF Cancelled
  <2> QED BY <2>1, <2>3 DEF InlineType
<1>2. CASE ~TooLate(run) /\ run.token = "none"
  BY <1>2 DEF Cancelled, InlineType
<1>3. CASE ~TooLate(run) /\ run.token # "none"
  BY <1>3 DEF Cancelled, InlineType
<1> QED BY <1>1, <1>2, <1>3

\* Steps of an eval request keep types and accounts of its runs.
LEMMA RequestAccounts ==
  ASSUME EInv, NEW e \in Evals,
         EvalStep(e) \/ Hangup(e) \/ (\E id \in Requested : GetAdapter(e, id))
           \/ (\E k \in 1..Tasks : CancelRead(e, k)),
         MInv
  PROVE  EInv'
<1> DEFINE v == eval[e]
           r == Run(e)
           Goto(pc) == [v EXCEPT !.pc = pc]
<1>1. /\ v \in EvalType /\ v.task \in 1..Tasks /\ v.sum \in Int /\ r \in InlineType /\ r.reward \in Int
      /\ eval \in [Evals -> EvalType] /\ inline \in [Evals -> [1..Tasks -> InlineType]]
      /\ Accounted(faults, v, v.task, r)
  <2>1. /\ eval \in [Evals -> EvalType] /\ inline \in [Evals -> [1..Tasks -> InlineType]]
        /\ \A f \in Evals, k \in 1..Tasks : Accounted(faults, eval[f], k, inline[f][k])
    BY DEF EInv
  <2>2. v \in EvalType
    BY <2>1
  <2>3. v.task \in 1..Tasks /\ v.sum \in Int
    BY <2>2 DEF EvalType
  <2>4. r = inline[e][v.task]
    BY DEF Run
  <2>5. r \in InlineType
    <3>1. inline[e] \in [1..Tasks -> InlineType]
      BY <2>1
    <3>2. inline[e][v.task] \in InlineType
      BY <2>3, <3>1
    <3> QED BY <2>4, <3>2
  <2>6. Accounted(faults, v, v.task, r)
    <3>1. \A k \in 1..Tasks : Accounted(faults, eval[e], k, inline[e][k])
      BY <2>1
    <3> QED BY <2>3, <2>4, <3>1 DEF Accounted
  <2>7. r.reward \in Int
    BY <2>5 DEF InlineType
  <2> QED BY <2>1, <2>2, <2>3, <2>5, <2>6, <2>7
<1>2. \A pc \in EvalPc : Goto(pc) \in EvalType /\ Goto(pc).pc = pc /\ Goto(pc).task = v.task
  BY <1>1 DEF EvalType
<1>3. \A pc \in EvalPc : EGoto(e, pc) => eval' = [eval EXCEPT ![e] = Goto(pc)]
  BY <1>1 DEF EGoto
<1>4. \A kind : Fault(kind) => faults \subseteq faults' /\ kind \in faults'
  BY DEF Fault
<1>5. ASSUME NEW id \in Requested, GetAdapter(e, id) PROVE EInv'
  <2> DEFINE pc == IF Readable(id) THEN "submit" ELSE "failed"
             next == [v EXCEPT !.pc = pc, !.id = id, !.read = manifest[id]]
  <2>1. id \in Attempts /\ id \in 0..MaxAttempts
    BY AdaptersAssumption DEF Attempts
  <2>2. manifest[id] \in ManifestType /\ pc \in EvalPc
    BY <2>1 DEF MInv, EvalPc
  <2>3. next \in EvalType
    BY <1>1, <2>1, <2>2 DEF EvalType
  <2>4. eval' = [eval EXCEPT ![e] = next]
    BY <1>1, <1>5 DEF GetAdapter
  <2>5. inline' = inline /\ faults \subseteq faults' /\ v.pc = "idle"
    BY <1>4, <1>5 DEF GetAdapter, EAt
  <2>6. Accounted(faults', next, v.task, r)
    BY <1>1, <2>5 DEF Accounted
  <2> HIDE DEF next
  <2> QED BY <1>1, <2>3, <2>4, <2>5, <2>6, Moves DEF Run
<1>6. CASE Submit(e)
  <2>1. CASE Saved(e, [NoInline EXCEPT !.status = "queued"]) /\ EGoto(e, "register") /\ UNCHANGED faults
    <3> DEFINE run == [NoInline EXCEPT !.status = "queued"]
    <3>1. run \in InlineType /\ run.token = "none"
      BY DEF NoInline, InlineType
    <3>2. Goto("register") \in EvalType /\ eval' = [eval EXCEPT ![e] = Goto("register")]
      BY <1>2, <1>3, <2>1 DEF EvalPc
    <3>3. Accounted(faults', Goto("register"), v.task, run)
      BY <1>2, <3>1 DEF Accounted, EvalPc
    <3>4. inline' = [inline EXCEPT ![e][v.task] = run] /\ faults \subseteq faults'
      BY <2>1 DEF Saved
    <3> HIDE DEF run, Goto
    <3> QED BY <1>1, <3>1, <3>2, <3>3, <3>4, Serves
  <2>2. CASE Fault("store") /\ EGoto(e, "failed") /\ UNCHANGED inline
    <3>1. Goto("failed") \in EvalType /\ eval' = [eval EXCEPT ![e] = Goto("failed")]
      BY <1>2, <1>3, <2>2 DEF EvalPc
    <3>2. faults \subseteq faults' /\ "store" \in faults'
      BY <1>4, <2>2
    <3>3. Accounted(faults', Goto("failed"), v.task, r)
      BY <1>1, <1>6, <3>2 DEF Accounted, Submit, EAt
    <3> HIDE DEF Goto
    <3> QED BY <1>1, <2>2, <3>1, <3>2, <3>3, Moves DEF Run
  <2> QED BY <1>6, <2>1, <2>2 DEF Submit
<1>7. CASE StartRun(e)
  <2>1. PICK pc \in {"running", "ended", "broken"}, status \in {"running", "failed", r.status} :
          /\ EGoto(e, pc) /\ Saved(e, [r EXCEPT !.token = "live", !.status = status])
          /\ status \in {"queued", "running"} => pc = "running" \/ "store" \in faults'
          /\ faults \subseteq faults'
    <3>1. CASE /\ EGoto(e, "running") /\ UNCHANGED faults
               /\ Saved(e, [r EXCEPT !.token = "live", !.status = "running"])
      BY <3>1
    <3>2. CASE /\ EGoto(e, "ended") /\ UNCHANGED faults
               /\ Saved(e, [r EXCEPT !.token = "live", !.status = "failed"])
      BY <3>2
    <3>3. CASE /\ Fault("store") /\ EGoto(e, "broken")
               /\ Saved(e, [r EXCEPT !.token = "live"])
      <4>1. [r EXCEPT !.token = "live"] = [r EXCEPT !.token = "live", !.status = r.status]
        BY <1>1 DEF InlineType
      <4> QED BY <1>4, <3>3, <4>1
    <3> QED BY <1>7, <3>1, <3>2, <3>3 DEF StartRun
  <2> DEFINE run == [r EXCEPT !.token = "live", !.status = status]
  <2>2. run \in InlineType /\ run.status = status
    BY <1>1 DEF InlineType, Final
  <2>3. Goto(pc) \in EvalType /\ eval' = [eval EXCEPT ![e] = Goto(pc)]
    BY <1>2, <1>3, <2>1 DEF EvalPc
  <2>4. Accounted(faults', Goto(pc), v.task, run)
    BY <1>2, <2>1, <2>2 DEF Accounted, EvalPc
  <2>5. inline' = [inline EXCEPT ![e][v.task] = run] /\ faults \subseteq faults'
    BY <2>1 DEF Saved
  <2> HIDE DEF run, Goto
  <2> QED BY <1>1, <2>2, <2>3, <2>4, <2>5, Serves
<1>8. CASE EndRun(e)
  <2>1. ASSUME NEW o \in Outcomes, Saved(e, [r EXCEPT !.status = o.status, !.reward = o.reward, !.cost = o.cost]),
               EGoto(e, "ended"), UNCHANGED faults
        PROVE  EInv'
    <3> DEFINE run == [r EXCEPT !.status = o.status, !.reward = o.reward, !.cost = o.cost]
    <3>1. o.status \in Final /\ o.reward \in Int /\ o.cost \in Int
      BY AdaptersAssumption, BudgetAssumption
    <3>2. run \in InlineType /\ run.status = o.status
      BY <1>1, <3>1 DEF InlineType
    <3>3. run.status \notin {"queued", "running"}
      BY <3>1, <3>2 DEF Final
    <3>4. Goto("ended") \in EvalType /\ eval' = [eval EXCEPT ![e] = Goto("ended")]
      BY <1>2, <1>3, <2>1 DEF EvalPc
    <3>5. Accounted(faults', Goto("ended"), v.task, run)
      BY <1>2, <3>3 DEF Accounted, EvalPc
    <3>6. inline' = [inline EXCEPT ![e][v.task] = run] /\ faults \subseteq faults'
      BY <2>1 DEF Saved
    <3> HIDE DEF run, Goto
    <3> QED BY <1>1, <3>2, <3>4, <3>5, <3>6, Serves
  <2>2. CASE Fault("store") /\ EGoto(e, "broken") /\ UNCHANGED inline
    <3>1. Goto("broken") \in EvalType /\ eval' = [eval EXCEPT ![e] = Goto("broken")]
      BY <1>2, <1>3, <2>2 DEF EvalPc
    <3>2. faults \subseteq faults' /\ "store" \in faults'
      BY <1>4, <2>2
    <3>3. Accounted(faults', Goto("broken"), v.task, r)
      BY <1>2, <3>2 DEF Accounted, EvalPc
    <3> HIDE DEF Goto
    <3> QED BY <1>1, <2>2, <3>1, <3>2, <3>3, Moves DEF Run
  <2> QED BY <1>8, <2>1, <2>2 DEF EndRun
<1>9. CASE Unregister(e)
  <2> DEFINE run == Forgotten(r)
  <2>1. run \in InlineType /\ run.token = "none" /\ run.status = r.status
    BY <1>1 DEF InlineType, Forgotten
  <2>2. inline' = [inline EXCEPT ![e][v.task] = run] /\ faults \subseteq faults'
    BY <1>4, <1>9 DEF Saved, Unregister
  <2>3. After(e) \in EvalType
    <3>1. Sum(e) \in Int
      BY <1>1 DEF Sum
    <3>2. v.task # Tasks => v.task + 1 \in 1..Tasks
      BY <1>1, Limits
    <3> QED BY <1>1, <3>1, <3>2 DEF After, Last, EvalType, EvalPc
  <2>4. PICK next \in EvalType : eval' = [eval EXCEPT ![e] = next]
    <3>1. "failed" \in EvalPc
      BY DEF EvalPc
    <3>2. eval' = [eval EXCEPT ![e] = After(e)] \/ eval' = [eval EXCEPT ![e] = Goto("failed")]
      BY <1>3, <1>9, <3>1 DEF Unregister
    <3> QED BY <1>2, <2>3, <3>1, <3>2
  <2>5. r.status \in {"queued", "running"} => faults \cap {"hangup", "crash", "store"} # {}
    BY <1>1, <1>9 DEF Unregister, EAt, Accounted
  <2>6. Accounted(faults', next, v.task, run)
    BY <2>1, <2>2, <2>5 DEF Accounted
  <2> HIDE DEF run
  <2> QED BY <1>1, <2>1, <2>2, <2>4, <2>6, Serves
<1>10. CASE StampBegin(e) \/ Stamp(e)
  <2>1. PICK pc \in EvalPc : EGoto(e, pc)
    BY <1>10 DEF StampBegin, Stamp, EvalPc
  <2>2. Goto(pc) \in EvalType /\ eval' = [eval EXCEPT ![e] = Goto(pc)]
    BY <1>2, <1>3, <2>1
  <2>3. inline' = inline /\ faults \subseteq faults'
    BY <1>4, <1>10 DEF StampBegin, Stamp
  <2>4. Accounted(faults', Goto(pc), v.task, r)
    BY <1>1, <1>10, <2>3 DEF Accounted, StampBegin, Stamp, EAt
  <2> HIDE DEF Goto
  <2> QED BY <1>1, <2>2, <2>3, <2>4, Moves DEF Run
<1>11. CASE Hangup(e)
  <2>1. EGoto(e, "dropped") /\ "dropped" \in EvalPc
    BY <1>11 DEF Hangup, EvalPc
  <2>2. Goto("dropped") \in EvalType /\ eval' = [eval EXCEPT ![e] = Goto("dropped")]
    BY <1>2, <1>3, <2>1
  <2>3. inline' = inline /\ faults \subseteq faults' /\ "hangup" \in faults'
    BY <1>4, <1>11 DEF Hangup
  <2>4. Accounted(faults', Goto("dropped"), v.task, r)
    BY <2>3 DEF Accounted
  <2> HIDE DEF Goto
  <2> QED BY <1>1, <2>2, <2>3, <2>4, Moves DEF Run
<1>12. ASSUME NEW k \in 1..Tasks, CancelRead(e, k) \/ CancelAct(e, k) PROVE EInv'
  <2> DEFINE old == inline[e][k]
  <2>1. old \in InlineType /\ Accounted(faults, v, k, old)
    BY DEF EInv
  <2>2. PICK run \in InlineType :
          /\ inline' = [inline EXCEPT ![e][k] = run]
          /\ run.token # "none" => old.token # "none"
          /\ run.status \in {"queued", "running"} => run.status = old.status
    <3>1. CASE CancelRead(e, k)
      <4> DEFINE run == [old EXCEPT !.cancel = old.status]
      <4>1. run \in InlineType /\ run.token = old.token /\ run.status = old.status
        BY <2>1, <3>1 DEF InlineType, CancelRead
      <4>2. inline' = [inline EXCEPT ![e][k] = run]
        BY <1>1, <3>1 DEF CancelRead
      <4> QED BY <4>1, <4>2
    <3>2. CASE CancelAct(e, k)
      <4>1. /\ Cancelled(old) \in InlineType
            /\ Cancelled(old).token # "none" => old.token # "none"
            /\ Cancelled(old).status \in {"queued", "running"} => Cancelled(old).status = old.status
        BY <2>1, CancelledRun
      <4>2. CASE inline' = [inline EXCEPT ![e][k] = Cancelled(old)]
        BY <4>1, <4>2
      <4>3. CASE inline' = [inline EXCEPT ![e][k].cancel = "none"]
        <5> DEFINE run == [old EXCEPT !.cancel = "none"]
        <5>1. run \in InlineType /\ run.token = old.token /\ run.status = old.status
          BY <2>1 DEF InlineType
        <5>2. inline' = [inline EXCEPT ![e][k] = run]
          BY <1>1, <4>3
        <5> QED BY <5>1, <5>2
      <4> QED BY <3>2, <4>2, <4>3 DEF CancelAct
    <3> QED BY <1>12, <3>1, <3>2
  <2>3. eval' = eval /\ faults \subseteq faults'
    BY <1>4, <1>12 DEF CancelRead, CancelAct
  <2>4. eval' = [eval EXCEPT ![e] = v]
    BY <1>1, <2>3
  <2>5. Accounted(faults', v, k, run)
    BY <2>1, <2>2, <2>3 DEF Accounted
  <2> QED BY <1>1, <2>2, <2>3, <2>4, <2>5, Serves
<1> QED BY <1>5, <1>6, <1>7, <1>8, <1>9, <1>10, <1>11, <1>12 DEF EvalStep
\* Every step keeps types and accounts of the runs; after a crash no request waits and
\* no token is left.
LEMMA EvalAccounts == EInv /\ MInv /\ [ANext]_avars => EInv'
<1> SUFFICES ASSUME EInv, MInv, [ANext]_avars PROVE EInv'
  OBVIOUS
<1>1. ASSUME UNCHANGED <<eval, inline>>, faults \subseteq faults' PROVE EInv'
  BY <1>1 DEF EInv, Accounted
<1>2. \A kind : Fault(kind) => faults \subseteq faults' /\ kind \in faults'
  BY DEF Fault
<1>3. ASSUME NEW n \in Attempts, TrainStep(n) PROVE EInv'
  <2>1. UNCHANGED <<eval, inline>>
    BY <1>3 DEF TrainStep, TrainBegin, Metric, TrainerEnds, Truncate, Write, SaveTrained, PublishAdapter,
                SaveFailed, FinishTraining, evars
  <2>2. faults \subseteq faults'
    BY <1>2, <1>3 DEF TrainStep, TrainBegin, Metric, TrainerEnds, Truncate, Write, SaveTrained,
                      PublishAdapter, SaveFailed, FinishTraining
  <2> QED BY <1>1, <2>1, <2>2
<1>4. CASE SaveQueuedRecord \/ EnqueueTraining \/ LeaseAgain \/ Exhausted \/ LoseLease \/ Reload \/ Window \/ UNCHANGED avars
  BY <1>1, <1>2, <1>4
     DEF SaveQueuedRecord, EnqueueTraining, LeaseAgain, Exhausted, LoseLease, Reload, Window, avars, evars
<1>5. ASSUME NEW s \in Slots, SlotStep(s) PROVE EInv'
  BY <1>1, <1>5 DEF SlotStep, evars
<1>6. ASSUME NEW e \in Evals,
             EvalStep(e) \/ Hangup(e) \/ (\E id \in Requested : GetAdapter(e, id))
               \/ (\E k \in 1..Tasks : CancelRead(e, k))
      PROVE  EInv'
  BY <1>6, RequestAccounts
<1>7. CASE Crash
  <2>1. eval' \in [Evals -> EvalType]
    BY <1>7 DEF Crash, EInv, EvalType, EvalPc
  <2>2. inline' \in [Evals -> [1..Tasks -> InlineType]]
    <3> DEFINE reset(e, k) == [inline[e][k] EXCEPT !.token = "none", !.cancel = "none"]
    <3>1. ASSUME NEW e \in Evals, NEW k \in 1..Tasks PROVE reset(e, k) \in InlineType
      <4>1. inline[e][k] \in InlineType
        BY DEF EInv
      <4> QED BY <4>1 DEF InlineType
    <3>2. inline' = [e \in Evals |-> [k \in 1..Tasks |-> reset(e, k)]]
      BY <1>7 DEF Crash
    <3> HIDE DEF reset
    <3> QED BY <3>1, <3>2
  <2>3. ASSUME NEW e \in Evals, NEW k \in 1..Tasks PROVE inline'[e][k].token = "none"
    <3>1. inline[e][k] \in InlineType
      BY DEF EInv
    <3> QED BY <1>7, <3>1 DEF Crash, InlineType
  <2>4. "crash" \in faults'
    BY <1>2, <1>7 DEF Crash
  <2> QED BY <2>1, <2>2, <2>3, <2>4 DEF EInv, Accounted
<1> QED BY <1>3, <1>4, <1>5, <1>6, <1>7 DEF ANext

\* A request that went on has read a whole manifest, which it may rewrite.
LEMMA ManifestTypes == EInv /\ MInv /\ [ANext]_avars => MInv'
<1> SUFFICES ASSUME EInv, MInv, [ANext]_avars PROVE MInv'
  OBVIOUS
<1>1. /\ manifest \in [Attempts -> ManifestType] /\ eval \in [Evals -> EvalType]
      /\ \A e \in Evals : eval[e].sum \in Int
  BY DEF MInv, EInv, EvalType
<1>2. ASSUME manifest' \in [Attempts -> ManifestType], reports' = reports, eval' = eval PROVE MInv'
  BY <1>2 DEF MInv
<1>3. ASSUME NEW n \in Attempts, TrainStep(n) PROVE MInv'
  <2>1. UNCHANGED <<eval, reports>>
    BY <1>3 DEF TrainStep, TrainBegin, Metric, TrainerEnds, Truncate, Write, SaveTrained, PublishAdapter,
                SaveFailed, FinishTraining, evars
  <2>2. Unscored \in ManifestType /\ Torn \in ManifestType
    BY DEF Unscored, ManifestType, Files
  <2>3. manifest' \in [Attempts -> ManifestType]
    BY <1>1, <1>3, <2>2 DEF TrainStep, TrainBegin, Metric, TrainerEnds, Truncate, Write, SaveTrained,
                            PublishAdapter, SaveFailed, FinishTraining
  <2> QED BY <1>2, <2>1, <2>3
<1>4. CASE SaveQueuedRecord \/ EnqueueTraining \/ LeaseAgain \/ Exhausted \/ LoseLease \/ Reload \/ Window \/ UNCHANGED avars
  BY <1>1, <1>2, <1>4
     DEF SaveQueuedRecord, EnqueueTraining, LeaseAgain, Exhausted, LoseLease, Reload, Window, avars, evars
<1>5. ASSUME NEW s \in Slots, SlotStep(s) PROVE MInv'
  BY <1>1, <1>2, <1>5 DEF SlotStep, evars
\* Who is past the read keeps what it read.
<1>6. ASSUME NEW e \in Evals, NEW v \in EvalType, eval' = [eval EXCEPT ![e] = v],
             v.pc \notin {"idle", "failed"} => v.read \in Files,
             manifest' \in [Attempts -> ManifestType],
             \A r \in reports' : r.eval \in Evals
      PROVE  MInv'
  BY <1>1, <1>6 DEF MInv
<1>7. ASSUME NEW e \in Evals, NEW pc \in EvalPc, EGoto(e, pc), ~EAt(e, "idle"),
             EAt(e, "failed") => pc = "failed",
             manifest' \in [Attempts -> ManifestType], reports' = reports
      PROVE  MInv'
  <2> DEFINE v == [eval[e] EXCEPT !.pc = pc]
  <2>1. v \in EvalType /\ v.pc = pc /\ v.read = eval[e].read
    BY <1>1 DEF EvalType
  <2>2. eval' = [eval EXCEPT ![e] = v]
    BY <1>1, <1>7 DEF EGoto
  <2>3. v.pc \notin {"idle", "failed"} => v.read \in Files
    BY <1>7, <2>1 DEF MInv, EAt
  <2>4. \A r \in reports' : r.eval \in Evals
    BY <1>7 DEF MInv
  <2> HIDE DEF v
  <2> QED BY <1>6, <1>7, <2>1, <2>2, <2>3, <2>4
<1>8. ASSUME NEW e \in Evals, Submit(e) \/ StartRun(e) \/ EndRun(e) \/ Hangup(e) PROVE MInv'
  <2>1. PICK pc \in EvalPc : EGoto(e, pc)
    BY <1>8 DEF Submit, StartRun, EndRun, Hangup, EvalPc
  <2>2. ~EAt(e, "idle") /\ ~EAt(e, "failed")
    BY <1>8 DEF Submit, StartRun, EndRun, Hangup, EAt
  <2>3. manifest' = manifest /\ reports' = reports
    BY <1>8 DEF Submit, StartRun, EndRun, Hangup
  <2> QED BY <1>1, <1>7, <2>1, <2>2, <2>3
<1>9. ASSUME NEW e \in Evals, StampBegin(e) \/ Stamp(e) PROVE MInv'
  <2>1. PICK pc \in EvalPc : EGoto(e, pc)
    BY <1>9 DEF StampBegin, Stamp, EvalPc
  <2>2. ~EAt(e, "idle") /\ ~EAt(e, "failed") /\ eval[e].read \in Files
    BY <1>9 DEF StampBegin, Stamp, EAt, MInv
  <2>3. Stamped(e) \subseteq ManifestType
    <3>1. [eval[e].read EXCEPT !.scored = TRUE, !.score = eval[e].sum] \in Files
      BY <1>1, <2>2 DEF Files
    <3> QED BY <3>1 DEF Stamped, ManifestType
  <2>4. manifest' \in [Attempts -> ManifestType] /\ reports' = reports
    BY <1>1, <1>9, <2>3 DEF StampBegin, Stamp, ManifestType
  <2> QED BY <1>7, <2>1, <2>2, <2>4
<1>10. ASSUME NEW e \in Evals, Unregister(e) PROVE MInv'
  <2>1. ~EAt(e, "idle") /\ ~EAt(e, "failed") /\ manifest' = manifest
    BY <1>10 DEF Unregister, EAt
  <2>2. \A r \in reports' : r.eval \in Evals
    BY <1>10 DEF Unregister, MInv
  <2>3. CASE eval' = [eval EXCEPT ![e] = After(e)]
    <3>1. After(e) \in EvalType /\ After(e).read = eval[e].read
      <4>1. Sum(e) \in Int /\ (eval[e].task # Tasks => eval[e].task + 1 \in 1..Tasks)
        BY <1>1, Limits DEF Sum, Run, EInv, EvalType, InlineType
      <4> QED BY <1>1, <4>1 DEF After, Last, EvalType, EvalPc
    <3>2. eval[e].read \in Files
      BY <2>1 DEF MInv, EAt
    <3> QED BY <1>1, <1>6, <2>1, <2>2, <2>3, <3>1, <3>2
  <2>4. CASE EGoto(e, "failed") /\ reports' = reports
    <3>1. "failed" \in EvalPc
      BY DEF EvalPc
    <3> QED BY <1>1, <1>7, <2>1, <2>4, <3>1
  <2> QED BY <1>10, <2>3, <2>4 DEF Unregister
<1>11. ASSUME NEW e \in Evals, NEW k \in 1..Tasks, CancelRead(e, k) \/ CancelAct(e, k) PROVE MInv'
  BY <1>1, <1>2, <1>11 DEF CancelRead, CancelAct
<1>12. ASSUME NEW e \in Evals, NEW id \in Requested, GetAdapter(e, id) PROVE MInv'
  <2> DEFINE v == [eval[e] EXCEPT !.pc = IF Readable(id) THEN "submit" ELSE "failed",
                                  !.id = id, !.read = manifest[id]]
  <2>1. id \in Attempts /\ id \in 0..MaxAttempts /\ manifest[id] \in ManifestType
    BY <1>1, AdaptersAssumption DEF Attempts
  <2>2. v \in EvalType
    BY <1>1, <2>1 DEF EvalType, EvalPc
  <2>3. v.pc \notin {"idle", "failed"} => v.read \in Files
    <3>1. Readable(id) => manifest[id] \in Files
      BY <2>1 DEF Readable, ManifestType, Absent, Torn
    <3>2. v.read = manifest[id] /\ v.pc = IF Readable(id) THEN "submit" ELSE "failed"
      BY <1>1 DEF EvalType
    <3> QED BY <3>1, <3>2
  <2>4. eval' = [eval EXCEPT ![e] = v] /\ manifest' = manifest /\ reports' = reports
    BY <1>1, <1>12 DEF GetAdapter
  <2>5. \A r \in reports' : r.eval \in Evals
    BY <2>4 DEF MInv
  <2> HIDE DEF v
  <2> QED BY <1>1, <1>6, <2>2, <2>3, <2>4, <2>5
<1>13. CASE Crash
  <2>1. manifest' = manifest /\ reports' = reports
    BY <1>13 DEF Crash
  <2>2. ASSUME NEW e \in Evals, eval'[e].pc \notin {"idle", "failed"} PROVE eval'[e].read \in Files
    <3>1. eval'[e].read = eval[e].read
      BY <1>1, <1>13 DEF Crash, EvalType
    <3>2. eval[e].pc \notin {"idle", "failed"}
      BY <1>1, <1>13, <2>2 DEF Crash, Evaluating
    <3> QED BY <3>1, <3>2 DEF MInv
  <2> QED BY <2>1, <2>2 DEF MInv
<1> QED BY <1>3, <1>4, <1>5, <1>8, <1>9, <1>10, <1>11, <1>12, <1>13 DEF ANext, EvalStep
-----------------------------------------------------------------------------
\* The inductive invariant of the composition.
AInv == BInv /\ TInv /\ PInv /\ EInv /\ MInv

LEMMA AStep == AInv /\ [ANext]_avars => AInv'
<1>1. BInv /\ [ANext]_avars => BInv'
  BY StepIsBudget, BStepInv DEF BInv
<1> QED BY <1>1, TrainTypes, ChannelTypes, EvalAccounts, ManifestTypes DEF AInv

\* What was overshot, typed, announced and accounted for stays so, over any sequence of
\* attempts, evals, cancels, crashes and failures.
THEOREM AdaptersInvariant == ASpec => []AInv
<1>1. AInit => AInv
  BY BInitInv, TInit, EvalInit DEF AInit, AInv
<1> QED BY <1>1, AStep, PTL DEF ASpec

\* Type correctness of training, evals and the reloader, for any number of attempts,
\* evals, tasks and slots.
THEOREM AdaptersTypeCorrect == ASpec => []ATypeOK
<1>1. AInv => ATypeOK
  <2> SUFFICES ASSUME AInv PROVE ATypeOK
    OBVIOUS
  <2>1. BTypeOK
    BY DEF AInv, BInv
  <2>2. record \in RecordType /\ job \in NoJob \cup Leasable /\ leased \in 1..MaxAttempts + 2
    BY DEF AInv, TInv
  <2>3. \A id \in Attempts : manifest[id].kind \in {"absent", "torn", "file"}
    BY DEF AInv, MInv, ManifestType, Files, Absent, Torn
  <2>4. \A e \in Evals : eval[e].pc # "idle" => eval[e].read.kind = "file" \/ EAt(e, "failed")
    BY DEF AInv, MInv, Files, EAt
  <2>5. {r.eval : r \in reports} \subseteq Evals
    BY DEF AInv, MInv
  <2>6. published \subseteq Attempts /\ loaded \subseteq published /\ Len(pending) <= EventBuffer
    BY DEF AInv, PInv
  <2> QED BY <2>1, <2>2, <2>3, <2>4, <2>5, <2>6 DEF ATypeOK, RecordType
<1> QED BY <1>1, AdaptersInvariant, PTL

\* No run of an eval waits for nobody, and no token names a run that is over, unless a
\* dropped request, a crash or an error of the store explains it (EvalHarness::run,
\* submit_inline and request_cancel).
THEOREM RunsAccounted == ASpec => []InlineRunsAccounted
<1>1. AInv => InlineRunsAccounted
  <2> SUFFICES ASSUME AInv PROVE InlineRunsAccounted
    OBVIOUS
  <2>1. ASSUME NEW e \in Evals, NEW k \in 1..Tasks
        PROVE  Accounted(faults, eval[e], k, inline[e][k])
    BY DEF AInv, EInv
  <2>2. ASSUME NEW e \in Evals, eval[e].pc \in {"register", "running", "ended", "broken"}
        PROVE  Evaluating(e)
    BY <2>2 DEF Evaluating
  <2> QED BY <2>1, <2>2 DEF InlineRunsAccounted, Accounted, Without
<1> QED BY <1>1, AdaptersInvariant, PTL
-----------------------------------------------------------------------------
(***************************************************************************)
(* What the steps of an attempt do, field by field                          *)
(***************************************************************************)
OnlyAttempt(n) == \A m \in Attempts : m # n => train'[m] = train[m]
SameRecord     == record'.status = record.status /\ record'.out = record.out
                  /\ record'.error = record.error
OnlyFile(n)    == \A id \in Attempts : id # n => manifest'[id] = manifest[id]

\* The attempt waits for its turn, and takes the record as it is, or fails.
LEMMA BeginDoes ==
  ASSUME TInv, NEW n \in Attempts, TrainBegin(n)
  PROVE  /\ leased = n /\ job \in Leasable /\ TAt(n, "idle")
         /\ job' = (IF job = "queued" THEN "running" ELSE job)
         /\ OnlyAttempt(n)
         /\ \/ /\ train'[n].pc = "training" /\ train'[n].error = record.error
               /\ train'[n].points = {} /\ faults' = faults
               /\ record'.status = "running" /\ record'.out = record.out
               /\ record'.error = record.error /\ record'.metrics = record.metrics
            \/ /\ train'[n].pc = "returned" /\ train'[n].result = "failed"
               /\ train'[n].error = train[n].error /\ train'[n].points = train[n].points
               /\ record' = record /\ "save" \in faults'
         /\ faults \subseteq faults' /\ UNCHANGED <<leased, manifest, published>>
<1>1. record \in RecordType /\ train \in [Attempts -> TrainType]
  BY DEF TInv
<1>2. CASE train' = [train EXCEPT ![n] = Begun] /\ record' = [record EXCEPT !.status = "running"]
           /\ UNCHANGED faults
  <2>1. Begun.pc = "training" /\ Begun.error = record.error /\ Begun.points = {}
    BY DEF Begun, Waiting
  <2>2. OnlyAttempt(n) /\ train'[n] = Begun
    BY <1>1, <1>2 DEF OnlyAttempt
  <2>3. /\ record'.status = "running" /\ record'.out = record.out
        /\ record'.error = record.error /\ record'.metrics = record.metrics
    BY <1>1, <1>2 DEF RecordType
  <2> QED BY <1>2, <2>1, <2>2, <2>3 DEF TrainBegin, pvars
<1>3. CASE Fault("save") /\ Returned(n, "failed") /\ UNCHANGED record
  BY <1>1, <1>3 DEF TrainBegin, Returned, TrainType, OnlyAttempt, Fault, pvars
<1> QED BY <1>2, <1>3 DEF TrainBegin

LEMMA MetricDoes ==
  ASSUME TInv, NEW n \in Attempts, Metric(n)
  PROVE  /\ TAt(n, "training") /\ OnlyAttempt(n) /\ train'[n].pc = "training"
         /\ train'[n].error = train[n].error /\ SameRecord
         /\ \E s \in 1..Steps :
              /\ train'[n].points = train[n].points \cup {s}
              /\ \/ record'.metrics = [record.metrics EXCEPT ![s] = n]
                 \/ record'.metrics = record.metrics /\ "append" \in faults'
         /\ faults \subseteq faults' /\ UNCHANGED <<job, leased, manifest, published>>
<1>1. record \in RecordType /\ train \in [Attempts -> TrainType]
  BY DEF TInv
<1>2. SameRecord
  BY <1>1 DEF Metric, RecordType, SameRecord
<1>3. PICK s \in 1..Steps :
        /\ train' = [train EXCEPT ![n].points = @ \cup {s}]
        /\ \/ record' = [record EXCEPT !.metrics[s] = n]
           \/ Fault("append") /\ record' = record
  BY DEF Metric
<1>4. /\ OnlyAttempt(n) /\ train'[n].pc = train[n].pc /\ train'[n].error = train[n].error
      /\ train'[n].points = train[n].points \cup {s}
  BY <1>1, <1>3 DEF TrainType, OnlyAttempt
<1>5. \/ record'.metrics = [record.metrics EXCEPT ![s] = n]
      \/ record'.metrics = record.metrics /\ "append" \in faults'
  BY <1>1, <1>3 DEF RecordType, Fault
<1>6. /\ TAt(n, "training") /\ faults \subseteq faults'
      /\ UNCHANGED <<job, leased, manifest, published>>
  BY DEF Metric, Fault, pvars
<1> QED BY <1>2, <1>4, <1>5, <1>6 DEF TAt

LEMMA TrainerEndsDoes ==
  ASSUME TInv, NEW n \in Attempts, TrainerEnds(n)
  PROVE  /\ TAt(n, "training") /\ OnlyAttempt(n)
         /\ train'[n].pc \in {"registering", "failing"} /\ train'[n].points = train[n].points
         /\ train'[n].error = train[n].error
         /\ faults \subseteq faults' /\ UNCHANGED <<record, job, leased, manifest, published>>
BY DEF TInv, TrainerEnds, TGoto, TAt, TrainType, OnlyAttempt, Fault, pvars

LEMMA TruncateDoes ==
  ASSUME TInv, MInv, NEW n \in Attempts, Truncate(n)
  PROVE  /\ TAt(n, "registering") /\ OnlyAttempt(n)
         /\ train'[n].pc = "writing" /\ train'[n].points = train[n].points
         /\ train'[n].error = train[n].error
         /\ OnlyFile(n) /\ manifest'[n] = Torn
         /\ UNCHANGED <<record, job, leased, published, faults>>
BY DEF TInv, MInv, Truncate, TGoto, TAt, TrainType, OnlyAttempt, OnlyFile, pvars

LEMMA WriteDoes ==
  ASSUME TInv, MInv, NEW n \in Attempts, Write(n)
  PROVE  /\ TAt(n, "writing") /\ OnlyAttempt(n)
         /\ \/ /\ train'[n].pc = "saving"
               /\ OnlyFile(n) /\ manifest'[n] = Unscored
            \/ /\ train'[n].pc = "returned" /\ train'[n].result = "failed"
               /\ manifest' = manifest /\ "register" \in faults'
         /\ train'[n].error = train[n].error /\ train'[n].points = train[n].points
         /\ faults \subseteq faults' /\ UNCHANGED <<record, job, leased, published>>
BY DEF TInv, MInv, Write, Returned, TGoto, TAt, TrainType, OnlyAttempt, OnlyFile, Fault, pvars

LEMMA SaveTrainedDoes ==
  ASSUME TInv, NEW n \in Attempts, SaveTrained(n)
  PROVE  /\ TAt(n, "saving") /\ OnlyAttempt(n)
         /\ \/ /\ train'[n].pc = "publishing"
               /\ record'.status = "completed" /\ record'.out = n /\ record'.error = train[n].error
               /\ record'.metrics = SavedMetrics(n)
            \/ /\ train'[n].pc = "returned" /\ train'[n].result = "failed"
               /\ record' = record /\ "save" \in faults'
         /\ train'[n].error = train[n].error /\ train'[n].points = train[n].points
         /\ faults \subseteq faults' /\ UNCHANGED <<job, leased, manifest, published>>
BY DEF TInv, SaveTrained, Trained, Returned, TGoto, TAt, TrainType, OnlyAttempt, Fault, pvars

LEMMA PublishDoes ==
  ASSUME TInv, NEW n \in Attempts, PublishAdapter(n)
  PROVE  /\ TAt(n, "publishing") /\ OnlyAttempt(n)
         /\ train'[n].pc = "returned" /\ train'[n].result = "completed"
         /\ train'[n].error = train[n].error /\ train'[n].points = train[n].points
         /\ published' = published \cup {n}
         /\ UNCHANGED <<record, job, leased, manifest, faults>>
BY DEF TInv, PublishAdapter, Returned, TAt, TrainType, OnlyAttempt

LEMMA SaveFailedDoes ==
  ASSUME TInv, NEW n \in Attempts, SaveFailed(n)
  PROVE  /\ TAt(n, "failing") /\ OnlyAttempt(n)
         /\ train'[n].pc = "returned" /\ train'[n].result = "failed"
         /\ train'[n].error = train[n].error /\ train'[n].points = train[n].points
         /\ \/ /\ record'.status = "failed" /\ record'.out = train[n].out /\ record'.error
               /\ record'.metrics = SavedMetrics(n)
            \/ record' = record /\ "save" \in faults'
         /\ faults \subseteq faults' /\ UNCHANGED <<job, leased, manifest, published>>
BY DEF TInv, SaveFailed, Returned, TAt, TrainType, OnlyAttempt, Fault, pvars

LEMMA FinishDoes ==
  ASSUME TInv, NEW n \in Attempts, FinishTraining(n)
  PROVE  /\ TAt(n, "returned") /\ OnlyAttempt(n) /\ train'[n].pc = "done"
         /\ train'[n].error = train[n].error /\ train'[n].points = train[n].points
         /\ \/ job' = train[n].result /\ job' \in Final
            \/ job' = job /\ "finish" \in faults'
         /\ faults \subseteq faults' /\ UNCHANGED <<record, leased, manifest, published>>
BY DEF TInv, FinishTraining, TGoto, TAt, TrainType, OnlyAttempt, Fault, pvars
\* The attempts of the training run start in their order, the first one once the job
\* is enqueued; as long as no lease is lost one attempt runs at a time, and none once
\* the job has ended, which it has when an attempt is done unless finish_job failed.
Overlapped == "overlap" \in faults

InTurn ==
  /\ \A n \in Attempts : n > leased => TAt(n, "idle")
  /\ job \in NoJob \cup {"queued"} =>
       /\ leased = 1 /\ \A n \in Attempts : TAt(n, "idle")
       /\ record.status \in {"absent", "queued"} /\ ~record.error
  /\ ~Overlapped => \A n \in Attempts : n # leased => ~Training(n)
  /\ ~Overlapped /\ job \in Final /\ leased \in Attempts => train[leased].pc \in {"done", "dead"}
  /\ job = "running" /\ (\E n \in Attempts : TAt(n, "done")) => "finish" \in faults
  /\ Without({"crash", "overlap", "finish"}) => leased = 1

\* A step of an attempt is that of the attempt leased last, unless a lease was lost.
LEMMA TrainStepDoes ==
  ASSUME TInv, MInv, NEW n \in Attempts, TrainStep(n)
  PROVE  /\ OnlyAttempt(n) /\ leased' = leased /\ faults \subseteq faults'
         /\ train'[n].pc # "idle"
         /\ \/ TAt(n, "idle") /\ leased = n /\ job \in Leasable
            \/ Training(n)
         /\ \/ job' = job /\ ~TAt(n, "idle")
            \/ TAt(n, "idle") /\ job' = IF job = "queued" THEN "running" ELSE job
            \/ TAt(n, "returned") /\ train'[n].pc = "done" /\ job' \in Final
         /\ train'[n].pc = "done" => job' \in Final \/ "finish" \in faults'
<1>1. CASE TrainBegin(n)
  BY <1>1, BeginDoes
<1>2. CASE Metric(n)
  BY <1>2, MetricDoes DEF Training, TAt
<1>3. CASE TrainerEnds(n)
  BY <1>3, TrainerEndsDoes DEF Training, TAt
<1>4. CASE Truncate(n)
  BY <1>4, TruncateDoes DEF Training, TAt
<1>5. CASE Write(n)
  BY <1>5, WriteDoes DEF Training, TAt
<1>6. CASE SaveTrained(n)
  BY <1>6, SaveTrainedDoes DEF Training, TAt
<1>7. CASE PublishAdapter(n)
  BY <1>7, PublishDoes DEF Training, TAt
<1>8. CASE SaveFailed(n)
  BY <1>8, SaveFailedDoes DEF Training, TAt
<1>9. CASE FinishTraining(n)
  BY <1>9, FinishDoes DEF Training, TAt
<1> QED BY <1>1, <1>2, <1>3, <1>4, <1>5, <1>6, <1>7, <1>8, <1>9 DEF TrainStep

\* The steps that are not of the training run, its job or the server.
Aside ==
  \/ \E e \in Evals : EvalStep(e) \/ Hangup(e)
  \/ \E e \in Evals, id \in Requested : GetAdapter(e, id)
  \/ \E e \in Evals, k \in 1..Tasks : CancelRead(e, k)
  \/ \E s \in Slots : SlotStep(s)
  \/ Reload \/ Window \/ UNCHANGED avars

LEMMA AsideDoes ==
  ASSUME Aside
  PROVE  UNCHANGED <<tvars, published>> /\ faults \subseteq faults'
<1>1. ASSUME NEW e \in Evals, EvalStep(e) \/ Hangup(e)
      PROVE  UNCHANGED <<tvars, published>> /\ faults \subseteq faults'
  BY <1>1 DEF EvalStep, Hangup, Submit, StartRun, EndRun, Unregister, StampBegin, Stamp, CancelAct,
              Fault, pvars
<1>2. ASSUME NEW e \in Evals, NEW id \in Requested, GetAdapter(e, id)
      PROVE  UNCHANGED <<tvars, published>> /\ faults \subseteq faults'
  BY <1>2 DEF GetAdapter, Fault, pvars
<1>3. ASSUME NEW e \in Evals, NEW k \in 1..Tasks, CancelRead(e, k)
      PROVE  UNCHANGED <<tvars, published>> /\ faults \subseteq faults'
  BY <1>3 DEF CancelRead, Fault, pvars
<1>4. ASSUME NEW s \in Slots, SlotStep(s)
      PROVE  UNCHANGED <<tvars, published>> /\ faults \subseteq faults'
  BY <1>4 DEF SlotStep, pvars
<1>5. CASE Reload \/ Window \/ UNCHANGED avars
  BY <1>5 DEF Reload, Window, avars, Fault, pvars
<1> QED BY <1>1, <1>2, <1>3, <1>4, <1>5 DEF Aside

\* A crash stops every attempt that runs, and the lease of a job that ran goes on.
LEMMA CrashDoes ==
  ASSUME TInv, Crash
  PROVE  /\ \A n \in Attempts : train'[n] = train[n] \/ train'[n].pc = "dead"
         /\ \A n \in Attempts : train'[n].points = train[n].points
         /\ \A n \in Attempts : ~Training(n)' /\ (train'[n].pc = "idle" => TAt(n, "idle"))
         /\ \A n \in Attempts : train[n].pc \in {"done", "dead"} => train'[n] = train[n]
         /\ \A n \in Attempts : n # leased /\ TAt(n, "idle") => train'[n] = train[n]
         /\ job \notin {"running"} \cup Final =>
              /\ leased' = leased
              /\ \A n \in Attempts : TAt(n, "idle") => train'[n] = train[n]
         /\ \/ leased' = leased \/ (job = "running" /\ leased' = leased + 1)
            \/ leased > MaxAttempts /\ leased' = MaxAttempts + 2
         /\ job' = IF job = "saved" THEN "lost" ELSE job
         /\ "crash" \in faults' /\ faults \subseteq faults'
         /\ UNCHANGED <<record, manifest, published>>
<1>1. train' = [n \in Attempts |-> IF Killed(n) THEN [train[n] EXCEPT !.pc = "dead"] ELSE train[n]]
  BY DEF Crash
<1>2. \A n \in Attempts : train[n] \in TrainType
  BY DEF TInv
<1>3. ASSUME NEW n \in Attempts
      PROVE  /\ Killed(n) => train'[n].pc = "dead"
             /\ ~Killed(n) => train'[n] = train[n]
             /\ train'[n].points = train[n].points
  BY <1>1, <1>2 DEF TrainType
<1>4. \A n \in Attempts : Training(n) => Killed(n)
  BY DEF Killed
<1>5. \A n \in Attempts : Killed(n) =>
        Training(n) \/ (n = leased /\ job \in {"running"} \cup Final /\ TAt(n, "idle"))
  BY DEF Killed
<1>6. \/ leased' = leased \/ (job = "running" /\ leased' = leased + 1)
      \/ (job \in Final /\ leased > MaxAttempts /\ leased' = MaxAttempts + 2)
  <2>1. CASE job = "running" /\ leased <= MaxAttempts
    <3>1. job \notin Final
      BY <2>1 DEF Final
    <3> QED BY <2>1, <3>1 DEF Crash
  <2>2. CASE ~(job = "running" /\ leased <= MaxAttempts) /\ job \in Final /\ leased > MaxAttempts
    BY <2>2 DEF Crash
  <2>3. CASE ~(job = "running" /\ leased <= MaxAttempts) /\ ~(job \in Final /\ leased > MaxAttempts)
    BY <2>3 DEF Crash
  <2> QED BY <2>1, <2>2, <2>3
<1>7. /\ job' = IF job = "saved" THEN "lost" ELSE job
      /\ "crash" \in faults' /\ faults \subseteq faults'
      /\ UNCHANGED <<record, manifest, published>>
  BY DEF Crash, Fault
<1> QED BY <1>3, <1>4, <1>5, <1>6, <1>7 DEF Training, TAt

LEMMA InTurnStep == TInv /\ MInv /\ InTurn /\ [ANext]_avars => InTurn'
<1> SUFFICES ASSUME TInv, MInv, InTurn, [ANext]_avars PROVE InTurn'
  OBVIOUS
<1>0. /\ leased \in Int /\ MaxAttempts \in Nat \ {0} /\ Attempts \subseteq Int
      /\ NoJob \cap Leasable = {} /\ "queued" \notin Final /\ "running" \notin Final
      /\ NoJob \cap Final = {} /\ "queued" \notin NoJob /\ "running" \notin NoJob
  BY Limits DEF TInv, Attempts, NoJob, Leasable, Final
<1>1. ASSUME NEW n \in Attempts, TrainStep(n) PROVE InTurn'
  <2>1. /\ OnlyAttempt(n) /\ leased' = leased /\ faults \subseteq faults' /\ train'[n].pc # "idle"
        /\ \/ TAt(n, "idle") /\ leased = n /\ job \in Leasable
           \/ Training(n)
        /\ \/ job' = job /\ ~TAt(n, "idle")
           \/ TAt(n, "idle") /\ job' = IF job = "queued" THEN "running" ELSE job
           \/ TAt(n, "returned") /\ train'[n].pc = "done" /\ job' \in Final
        /\ train'[n].pc = "done" => job' \in Final \/ "finish" \in faults'
    BY <1>1, TrainStepDoes
  <2>2. n <= leased
    BY <1>0, <2>1 DEF InTurn, Training, TAt
  <2>3. job' \notin NoJob \cup {"queued"}
    BY <1>0, <2>1 DEF InTurn, Training, TAt
  <2>4. ~Overlapped => n = leased
    BY <2>1 DEF InTurn
  <2>5. \A m \in Attempts : m # n => train'[m] = train[m]
    BY <2>1 DEF OnlyAttempt
  <2>6. \A m \in Attempts : m > leased => TAt(m, "idle")'
    BY <1>0, <2>2, <2>5 DEF InTurn, TAt
  <2>7. ~Overlapped' => ~Overlapped
    BY <2>1 DEF Overlapped
  <2>8. ~Overlapped' => \A m \in Attempts : m # leased => ~Training(m)'
    BY <2>4, <2>5, <2>7 DEF InTurn, Training
  <2>9. ~Overlapped' /\ job' \in Final /\ leased \in Attempts => train'[leased].pc \in {"done", "dead"}
    BY <1>0, <2>1, <2>4, <2>7 DEF InTurn, Training, TAt
  <2>10. Without({"crash", "overlap", "finish"})' => leased = 1
    BY <2>1 DEF InTurn, Without
  <2>11. ASSUME job' = "running", NEW m \in Attempts, TAt(m, "done")' PROVE "finish" \in faults'
    <3>1. CASE m = n
      BY <1>0, <2>1, <2>11, <3>1 DEF TAt
    <3>2. CASE m # n
      <4>1. TAt(m, "done") /\ job \in {"running", "queued"}
        BY <1>0, <2>1, <2>5, <2>11, <3>2 DEF TAt
      <4> QED BY <2>1, <4>1 DEF InTurn, TAt
    <3> QED BY <3>1, <3>2
  <2> QED BY <2>1, <2>3, <2>6, <2>8, <2>9, <2>10, <2>11 DEF InTurn
<1>2. CASE SaveQueuedRecord \/ EnqueueTraining
  <2>1. /\ UNCHANGED <<leased, train>> /\ job' \in NoJob \cup {"queued"} /\ job \in NoJob
        /\ faults \subseteq faults' /\ record'.error = record.error
        /\ record'.status \in {record.status, "queued"}
    BY <1>2 DEF SaveQueuedRecord, EnqueueTraining, NoJob, Fault, TInv, RecordType
  <2> QED BY <1>0, <2>1 DEF InTurn, Overlapped, Without, TAt, Training
<1>3. CASE Exhausted
  <2>1. /\ UNCHANGED <<record, train, faults>> /\ leased = MaxAttempts + 1 /\ leased' = leased + 1
        /\ job' = "failed"
    BY <1>3 DEF Exhausted
  <2>2. leased # 1 /\ leased' \notin Attempts /\ leased \notin Attempts
    BY <1>0, <2>1 DEF Attempts
  <2>3. \A n \in Attempts : ~(n > leased')
    BY <1>0, <2>1 DEF Attempts
  <2>4. ~(job' \in NoJob \cup {"queued"}) /\ job' # "running"
    BY <2>1 DEF NoJob
  <2>5. ~Overlapped' => \A n \in Attempts : ~Training(n)'
    BY <2>1, <2>2 DEF InTurn, Overlapped, Training
  <2>6. ~Without({"crash", "overlap", "finish"})'
    BY <2>1, <2>2 DEF InTurn, Without
  <2> QED BY <2>2, <2>3, <2>4, <2>5, <2>6 DEF InTurn
<1>4. CASE LoseLease
  <2>1. /\ UNCHANGED <<record, train, job>> /\ leased' = leased + 1 /\ job = "running"
        /\ "overlap" \in faults' 
    BY <1>4 DEF LoseLease, Fault
  <2>2. \A n \in Attempts : n > leased' => n > leased
    BY <1>0, <2>1
  <2>3. faults \subseteq faults'
    BY <1>4 DEF LoseLease, Fault
  <2> QED BY <1>0, <2>1, <2>2, <2>3 DEF InTurn, Overlapped, Without, TAt
<1>7. CASE LeaseAgain
  <2>1. /\ UNCHANGED <<record, train, job, faults>> /\ leased' = leased + 1 /\ job = "running"
        /\ leased \in Attempts /\ TAt(leased, "done")
    BY <1>7 DEF LeaseAgain, TInv, Attempts
  <2>2. \A n \in Attempts : n > leased' => n > leased
    BY <1>0, <2>1
  <2>3. "finish" \in faults /\ ~Training(leased)
    BY <2>1 DEF InTurn, Training, TAt
  <2>4. ~Overlapped => \A n \in Attempts : ~Training(n)
    BY <2>3 DEF InTurn
  <2> QED BY <1>0, <2>1, <2>2, <2>3, <2>4 DEF InTurn, Overlapped, Without, TAt, Training
<1>5. CASE Crash
  <2>1. \A n \in Attempts : ~Training(n)' /\ (n # leased /\ TAt(n, "idle") => TAt(n, "idle")')
                            /\ (train[n].pc \in {"done", "dead"} => train'[n].pc = train[n].pc)
                            /\ (TAt(n, "done")' => TAt(n, "done"))
    BY <1>5, CrashDoes DEF TAt
  <2>2. /\ leased' = leased \/ leased' = leased + 1 \/ leased' = MaxAttempts + 2
        /\ job' = IF job = "saved" THEN "lost" ELSE job
        /\ "crash" \in faults' /\ faults \subseteq faults' /\ record' = record
    BY <1>5, CrashDoes
  <2>3. \A n \in Attempts : n > leased' => n > leased
    BY <1>0, <2>2 DEF TInv, Attempts
  <2>4. \A n \in Attempts : n > leased' => TAt(n, "idle")'
    BY <1>0, <2>1, <2>3 DEF InTurn
  <2>5. job' \in NoJob \cup {"queued"} =>
          /\ leased' = 1 /\ \A n \in Attempts : TAt(n, "idle")'
          /\ record'.status \in {"absent", "queued"} /\ ~record'.error
    <3> SUFFICES ASSUME job' \in NoJob \cup {"queued"}
                 PROVE  /\ leased' = 1 /\ \A n \in Attempts : TAt(n, "idle")'
                        /\ record'.status \in {"absent", "queued"} /\ ~record'.error
      OBVIOUS
    <3>1. job \in NoJob \cup {"queued"} /\ job \notin {"running"} \cup Final
      BY <1>0, <2>2 DEF NoJob
    <3>2. leased' = leased /\ \A n \in Attempts : TAt(n, "idle") => train'[n] = train[n]
      BY <1>5, <3>1, CrashDoes
    <3> QED BY <2>2, <3>1, <3>2 DEF InTurn, TAt
  <2>6. ~Overlapped' /\ job' \in Final /\ leased' \in Attempts => train'[leased'].pc \in {"done", "dead"}
    <3> SUFFICES ASSUME ~Overlapped', job' \in Final, leased' \in Attempts
                 PROVE  train'[leased'].pc \in {"done", "dead"}
      OBVIOUS
    <3>1. job = job' /\ job # "running"
      BY <1>0, <2>2 DEF NoJob, Final
    <3>2. leased' # MaxAttempts + 2
      BY <1>0 DEF Attempts
    <3>3. leased' = leased
      BY <1>5, <3>1, <3>2, CrashDoes
    <3>4. train[leased].pc \in {"done", "dead"}
      BY <2>2, <3>1, <3>3 DEF InTurn, Overlapped
    <3> QED BY <2>1, <3>3, <3>4
  <2>7. job' = "running" => job = "running"
    BY <2>2
  <2> QED BY <2>1, <2>2, <2>4, <2>5, <2>6, <2>7 DEF InTurn, Without
<1>6. CASE Aside
  BY <1>6, AsideDoes DEF InTurn, tvars, Overlapped, Without, TAt, Training
<1> QED BY <1>1, <1>2, <1>3, <1>4, <1>5, <1>6, <1>7 DEF ANext, Aside
\* A manifest that is there stays there: an eval rewrites it.
LEMMA FilesStay ==
  ASSUME MInv, Aside
  PROVE  \A id \in Attempts : manifest[id].kind # "absent" => manifest'[id].kind # "absent"
<1>1. ASSUME NEW e \in Evals, StampBegin(e)
      PROVE  \A id \in Attempts : manifest[id].kind # "absent" => manifest'[id].kind # "absent"
  BY <1>1 DEF StampBegin, MInv, Torn
<1>2. ASSUME NEW e \in Evals, Stamp(e)
      PROVE  \A id \in Attempts : manifest[id].kind # "absent" => manifest'[id].kind # "absent"
  <2>1. eval[e].read \in Files
    BY <1>2 DEF Stamp, EAt, MInv
  <2>2. \A file \in Stamped(e) : file.kind # "absent"
    <3> DEFINE mine == [eval[e].read EXCEPT !.scored = TRUE, !.score = eval[e].sum]
    <3>1. mine.kind = "file" /\ Torn.kind = "torn"
      BY <2>1 DEF Files, Torn
    <3>2. \A file \in Stamped(e) : file = mine \/ file = Torn
      BY DEF Stamped
    <3> QED BY <3>1, <3>2
  <2> QED BY <1>2, <2>2 DEF Stamp, MInv
<1>3. ASSUME NEW e \in Evals, EvalStep(e) \/ Hangup(e), ~StampBegin(e), ~Stamp(e)
      PROVE  manifest' = manifest
  BY <1>3 DEF EvalStep, Hangup, Submit, StartRun, EndRun, Unregister, CancelAct
<1>4. ASSUME NEW e \in Evals, NEW id \in Requested, GetAdapter(e, id)
      PROVE  manifest' = manifest
  BY <1>4 DEF GetAdapter
<1>5. ASSUME NEW e \in Evals, NEW k \in 1..Tasks, CancelRead(e, k)
      PROVE  manifest' = manifest
  BY <1>5 DEF CancelRead
<1>6. ASSUME NEW s \in Slots, SlotStep(s)
      PROVE  manifest' = manifest
  BY <1>6 DEF SlotStep
<1>7. CASE Reload \/ Window \/ UNCHANGED avars
  BY <1>7 DEF Reload, Window, avars
<1> QED BY <1>1, <1>2, <1>3, <1>4, <1>5, <1>6, <1>7 DEF Aside

\* The attempt that is to save its run has made its adapter.
Made ==
  /\ \A n \in Attempts :
       /\ train[n].pc \in {"writing", "saving", "publishing"} \/ n \in published
            => manifest[n].kind # "absent"
       /\ n \in published => train[n].pc \in {"returned", "done", "dead"}
  /\ record.status = "completed" => record.out \in Attempts /\ manifest[record.out].kind # "absent"

LEMMA MadeTrainStep ==
  ASSUME TInv, MInv, Made, NEW n \in Attempts, TrainStep(n)
  PROVE  Made'
<1>1. CASE TrainBegin(n)
  <2>1. /\ TAt(n, "idle") /\ OnlyAttempt(n) /\ train'[n].pc \in {"training", "returned"}
        /\ record'.status = "running" \/ record' = record
        /\ UNCHANGED <<manifest, published>>
    BY <1>1, BeginDoes
  <2> QED BY <2>1 DEF Made, OnlyAttempt, TAt
<1>2. CASE Metric(n)
  BY <1>2, MetricDoes DEF Made, OnlyAttempt, SameRecord, TAt
<1>3. CASE TrainerEnds(n)
  BY <1>3, TrainerEndsDoes DEF Made, OnlyAttempt, TAt
<1>4. CASE Truncate(n)
  BY <1>4, TruncateDoes DEF Made, OnlyAttempt, OnlyFile, TAt, Torn
<1>5. CASE Write(n)
  BY <1>5, WriteDoes DEF Made, OnlyAttempt, OnlyFile, TAt, Unscored
<1>6. CASE SaveTrained(n)
  BY <1>6, SaveTrainedDoes DEF Made, OnlyAttempt, TAt
<1>7. CASE PublishAdapter(n)
  BY <1>7, PublishDoes DEF Made, OnlyAttempt, TAt
<1>8. CASE SaveFailed(n)
  BY <1>8, SaveFailedDoes DEF Made, OnlyAttempt, TAt
<1>9. CASE FinishTraining(n)
  BY <1>9, FinishDoes DEF Made, OnlyAttempt, TAt
<1> QED BY <1>1, <1>2, <1>3, <1>4, <1>5, <1>6, <1>7, <1>8, <1>9 DEF TrainStep

LEMMA MadeStep == TInv /\ MInv /\ Made /\ [ANext]_avars => Made'
<1> SUFFICES ASSUME TInv, MInv, Made, [ANext]_avars PROVE Made'
  OBVIOUS
<1>1. ASSUME NEW n \in Attempts, TrainStep(n) PROVE Made'
  BY <1>1, MadeTrainStep
<1>2. CASE SaveQueuedRecord
  <2>1. record'.status = "queued" /\ UNCHANGED <<train, manifest, published>>
    BY <1>2 DEF SaveQueuedRecord, TInv, RecordType, pvars
  <2> QED BY <2>1 DEF Made
<1>3. CASE EnqueueTraining \/ LeaseAgain \/ Exhausted \/ LoseLease
  <2>1. UNCHANGED <<record, train, manifest, published>>
    BY <1>3 DEF EnqueueTraining, LeaseAgain, Exhausted, LoseLease, pvars
  <2> QED BY <2>1 DEF Made
<1>4. CASE Crash
  <2>1. /\ \A n \in Attempts : train'[n] = train[n] \/ train'[n].pc = "dead"
        /\ UNCHANGED <<record, manifest, published>>
    BY <1>4, CrashDoes
  <2> QED BY <2>1 DEF Made
<1>5. CASE Aside
  <2>1. UNCHANGED <<record, train, published>>
    BY <1>5, AsideDoes DEF tvars
  <2>2. \A id \in Attempts : manifest[id].kind # "absent" => manifest'[id].kind # "absent"
    BY <1>5, FilesStay
  <2> QED BY <2>1, <2>2 DEF Made
<1> QED BY <1>1, <1>2, <1>3, <1>4, <1>5 DEF ANext, Aside
\* Every metric row was reported by an attempt that began.
Rows ==
  \A s \in 1..Steps, n \in Attempts :
    record.metrics[s] = n => ~TAt(n, "idle") /\ s \in train[n].points

LEMMA RowsTrainStep ==
  ASSUME TInv, MInv, Rows, NEW n \in Attempts, TrainStep(n)
  PROVE  Rows'
<1>1. /\ \A m \in Attempts : m # n => train'[m] = train[m]
      /\ train'[n].pc # "idle"
  BY TrainStepDoes DEF OnlyAttempt
<1>2. record.metrics \in [1..Steps -> 0..MaxAttempts]
  BY DEF TInv, RecordType
\* The rows that the step writes are of points it knows, ...
<1>3. ASSUME train[n].points \subseteq train'[n].points,
             \A s \in 1..Steps : record'.metrics[s] = record.metrics[s]
                                 \/ (record'.metrics[s] = n /\ s \in train'[n].points)
      PROVE  Rows'
  BY <1>1, <1>3 DEF Rows, TAt
<1>4. ASSUME train'[n].points = train[n].points, record'.metrics = record.metrics PROVE Rows'
  BY <1>3, <1>4
\* ... and the first step finds none of its own.
<1>5. ASSUME TAt(n, "idle"), record'.metrics = record.metrics PROVE Rows'
  BY <1>1, <1>5 DEF Rows, TAt
<1>6. CASE TrainBegin(n)
  BY <1>5, <1>6, BeginDoes
<1>7. CASE Metric(n)
  <2>1. PICK s \in 1..Steps :
          /\ train'[n].points = train[n].points \cup {s}
          /\ \/ record'.metrics = [record.metrics EXCEPT ![s] = n]
             \/ record'.metrics = record.metrics
    BY <1>7, MetricDoes
  <2> QED BY <1>2, <1>3, <2>1
<1>8. CASE TrainerEnds(n)
  BY <1>4, <1>8, TrainerEndsDoes
<1>9. CASE Truncate(n)
  BY <1>4, <1>9, TruncateDoes
<1>10. CASE Write(n)
  BY <1>4, <1>10, WriteDoes
<1>11. ASSUME train'[n].points = train[n].points,
              record'.metrics = SavedMetrics(n) \/ record' = record
       PROVE  Rows'
  <2>1. CASE record' = record
    BY <1>4, <1>11, <2>1
  <2>2. CASE record'.metrics = SavedMetrics(n)
    BY <1>3, <1>11, <2>2 DEF SavedMetrics
  <2> QED BY <1>11, <2>1, <2>2
<1>12. CASE SaveTrained(n)
  BY <1>11, <1>12, SaveTrainedDoes
<1>13. CASE PublishAdapter(n)
  BY <1>4, <1>13, PublishDoes
<1>14. CASE SaveFailed(n)
  BY <1>11, <1>14, SaveFailedDoes
<1>15. CASE FinishTraining(n)
  BY <1>4, <1>15, FinishDoes
<1> QED BY <1>6, <1>7, <1>8, <1>9, <1>10, <1>12, <1>13, <1>14, <1>15 DEF TrainStep

LEMMA RowsStep == TInv /\ MInv /\ Rows /\ [ANext]_avars => Rows'
<1> SUFFICES ASSUME TInv, MInv, Rows, [ANext]_avars PROVE Rows'
  OBVIOUS
<1>1. ASSUME NEW n \in Attempts, TrainStep(n) PROVE Rows'
  BY <1>1, RowsTrainStep
<1>2. CASE SaveQueuedRecord \/ EnqueueTraining \/ LeaseAgain \/ Exhausted \/ LoseLease
  <2>1. record'.metrics = record.metrics /\ train' = train
    BY <1>2 DEF SaveQueuedRecord, EnqueueTraining, LeaseAgain, Exhausted, LoseLease, TInv, RecordType
  <2> QED BY <2>1 DEF Rows, TAt
<1>3. CASE Crash
  <2>1. /\ \A n \in Attempts : /\ train'[n].points = train[n].points
                               /\ train'[n].pc = "idle" => TAt(n, "idle")
        /\ record' = record
    BY <1>3, CrashDoes
  <2> QED BY <2>1 DEF Rows, TAt
<1>4. CASE Aside
  <2>1. record' = record /\ train' = train
    BY <1>4, AsideDoes DEF tvars
  <2> QED BY <2>1 DEF Rows, TAt
<1> QED BY <1>1, <1>2, <1>3, <1>4 DEF ANext, Aside

\* The save of the record writes the rows of all the points, the first attempt to do
\* so since the others that left rows came before it.
LEMMA SavedRows ==
  ASSUME TInv, InTurn, Rows, NEW n \in Attempts, n = leased
  PROVE  \A s \in 1..Steps : IF s \in train[n].points THEN SavedMetrics(n)[s] = n
                             ELSE SavedMetrics(n)[s] < n
<1> SUFFICES ASSUME NEW s \in 1..Steps, s \notin train[n].points
             PROVE  record.metrics[s] < n
  BY DEF SavedMetrics
<1>1. record.metrics[s] \in 0..MaxAttempts /\ n \in 1..MaxAttempts /\ MaxAttempts \in Nat
  BY Limits DEF TInv, RecordType, Attempts
<1>2. CASE record.metrics[s] = 0
  BY <1>1, <1>2
<1>3. CASE record.metrics[s] # 0
  <2>1. record.metrics[s] \in Attempts
    BY <1>1, <1>3 DEF Attempts
  <2> DEFINE m == record.metrics[s]
  <2>2. ~TAt(m, "idle") /\ s \in train[m].points
    BY <2>1 DEF Rows
  <2>3. m # n /\ ~(m > n)
    BY <2>1, <2>2 DEF InTurn
  <2> QED BY <1>1, <2>3
<1> QED BY <1>2, <1>3

\* What a step of an attempt finds: as long as no lease was lost it is alone and the job
\* has not ended, and as long as the server never stopped it is the first attempt.
LEMMA TurnDoes ==
  ASSUME TInv, PInv, MInv, InTurn, Made, NEW n \in Attempts, TrainStep(n)
  PROVE  /\ ~Overlapped' =>
              /\ ~Overlapped /\ job \notin Final /\ n = leased
              /\ \A m \in Attempts : m # n => train'[m] = train[m] /\ ~Training(m)
         /\ \A kinds : Without(kinds)' => Without(kinds)
         /\ Without({"crash", "overlap", "finish"})' =>
              n = 1 /\ (\A id \in published : id = n /\ TAt(n, "returned"))
<1>1. /\ OnlyAttempt(n) /\ leased' = leased /\ faults \subseteq faults'
      /\ \/ TAt(n, "idle") /\ leased = n /\ job \in Leasable
         \/ Training(n)
  BY TrainStepDoes
<1>2. /\ published \subseteq Attempts
      /\ leased \in Int /\ Attempts \subseteq Int /\ \A m \in Attempts : m >= 1
  <2>1. published \subseteq Attempts
    BY DEF PInv
  <2> QED BY <2>1 DEF TInv, Attempts
<1>3. ~Overlapped' => ~Overlapped /\ n = leased
  BY <1>1 DEF Overlapped, InTurn
<1>4. ~Overlapped' => job \notin Final
  BY <1>1, <1>3 DEF InTurn, Training, TAt
<1>5. ~Overlapped' => \A m \in Attempts : m # n => train'[m] = train[m] /\ ~Training(m)
  BY <1>1, <1>3 DEF InTurn, OnlyAttempt
<1>6. \A kinds : Without(kinds)' => Without(kinds)
  BY <1>1 DEF Without
<1>7. Without({"crash", "overlap", "finish"})' => leased = 1 /\ ~Overlapped'
  BY <1>6 DEF InTurn, Without, Overlapped
<1>8. Without({"crash", "overlap", "finish"})' => \A id \in published : id = n /\ TAt(n, "returned")
  <2> SUFFICES ASSUME Without({"crash", "overlap", "finish"})', NEW id \in published
               PROVE  id = n /\ TAt(n, "returned")
    OBVIOUS
  <2>1. id \in Attempts /\ leased = 1 /\ n = leased
    BY <1>2, <1>3, <1>7
  <2>2. train[id].pc \in {"returned", "done", "dead"}
    BY <2>1 DEF Made
  <2>3. ~(id > leased)
    BY <2>1, <2>2 DEF InTurn, TAt
  <2>4. id = n
    BY <1>2, <2>1, <2>3
  <2> QED BY <1>1, <2>2, <2>4 DEF Training, TAt
<1> QED BY <1>3, <1>4, <1>5, <1>6, <1>7, <1>8

\* The record says what the attempt did that saved it last: with one attempt at a
\* time, ...
LastSaved ==
  ~Overlapped =>
    /\ record.status = "completed" =>
         /\ \A s \in 1..Steps : IF s \in train[record.out].points THEN record.metrics[s] = record.out
                                ELSE record.metrics[s] < record.out
         /\ \A n \in Attempts :
              train[n].pc \notin {"training", "registering", "writing", "saving", "failing"}
    /\ \A n \in Attempts :
         TAt(n, "publishing") \/ (TAt(n, "returned") /\ train[n].result = "completed") =>
           record.status = "completed" /\ record.out = n
    /\ job = "completed" => record.status = "completed"

\* ... when its saves do not fail, ...
LastFailed ==
  Without({"overlap", "register", "save"}) =>
    /\ \A n \in Attempts : TAt(n, "returned") /\ train[n].result = "failed" =>
         record.status = "failed"
    /\ job = "failed" /\ leased <= MaxAttempts => record.status = "failed"

\* ... and in the first attempt.
FirstSaved ==
  Without({"crash", "overlap", "finish"}) =>
    /\ ~train[1].error
    /\ record.error => record.status = "failed" /\ train[1].pc \in {"returned", "done"}
    /\ \A id \in published : record.status = "completed" /\ record.out = id

Told == LastSaved /\ LastFailed /\ FirstSaved

LEMMA LastSavedTrainStep ==
  ASSUME TInv, PInv, MInv, InTurn, Made, Rows, LastSaved, NEW n \in Attempts, TrainStep(n)
  PROVE  LastSaved'
<1> SUFFICES ASSUME ~Overlapped' PROVE LastSaved'
  BY DEF LastSaved
<1>0. /\ ~Overlapped /\ job \notin Final /\ n = leased
      /\ \A m \in Attempts : m # n => train'[m] = train[m] /\ ~Training(m)
  BY TurnDoes
<1> DEFINE Busy(m) == train[m].pc \in {"training", "registering", "writing", "saving", "failing"}
           Owns(r, t) ==
             \A s \in 1..Steps : IF s \in t[r.out].points THEN r.metrics[s] = r.out
                                 ELSE r.metrics[s] < r.out
<1>00. /\ \A m \in Attempts : m # n => train'[m] = train[m] /\ ~Busy(m) /\ ~TAt(m, "publishing")
                                      /\ ~TAt(m, "returned")
       /\ job # "completed"
       /\ record.status = "completed" =>
            record.out \in Attempts /\ Owns(record, train) /\ ~Busy(n)
       /\ TAt(n, "publishing") \/ (TAt(n, "returned") /\ train[n].result = "completed") =>
            record.status = "completed" /\ record.out = n
  BY <1>0 DEF LastSaved, Made, Training, TAt, Final
<1>000. LastSaved' <=>
          /\ record'.status = "completed" =>
               Owns(record', train') /\ \A m \in Attempts : ~Busy(m)'
          /\ \A m \in Attempts :
               TAt(m, "publishing")' \/ (TAt(m, "returned")' /\ train'[m].result = "completed") =>
                 record'.status = "completed" /\ record'.out = m
          /\ job' = "completed" => record'.status = "completed"
  BY DEF LastSaved
\* The rows stay those of a completed record, whose attempt keeps its points.
<1>0000. ASSUME record' = record, train'[n].points = train[n].points, record.status = "completed"
         PROVE  Owns(record', train')
  <2>1. train'[record.out].points = train[record.out].points
    BY <1>00, <1>0000
  <2> QED BY <1>00, <1>0000, <2>1
<1> HIDE DEF Owns
<1>1. CASE TrainBegin(n)
  <2>1. /\ job' \in {job, "running"} /\ TAt(n, "idle")
        /\ \/ train'[n].pc = "training" /\ record'.status = "running"
           \/ /\ train'[n].pc = "returned" /\ train'[n].result = "failed"
              /\ record' = record /\ train'[n].points = train[n].points
    BY <1>1, BeginDoes
  <2> QED BY <1>00, <1>000, <1>0000, <2>1 DEF TAt
<1>2. CASE Metric(n)
  <2>1. TAt(n, "training") /\ train'[n].pc = "training" /\ SameRecord /\ job' = job
    BY <1>2, MetricDoes
  <2> QED BY <1>00, <1>000, <2>1 DEF TAt, SameRecord
<1>3. CASE TrainerEnds(n)
  <2>1. TAt(n, "training") /\ train'[n].pc \in {"registering", "failing"} /\ record' = record /\ job' = job
    BY <1>3, TrainerEndsDoes
  <2> QED BY <1>00, <1>000, <2>1 DEF TAt
<1>4. CASE Truncate(n)
  <2>1. TAt(n, "registering") /\ train'[n].pc = "writing" /\ record' = record /\ job' = job
    BY <1>4, TruncateDoes
  <2> QED BY <1>00, <1>000, <2>1 DEF TAt
<1>5. CASE Write(n)
  <2>1. /\ TAt(n, "writing") /\ record' = record /\ job' = job
        /\ train'[n].pc = "saving" \/ (train'[n].pc = "returned" /\ train'[n].result = "failed")
    BY <1>5, WriteDoes
  <2> QED BY <1>00, <1>000, <2>1 DEF TAt
<1>6. CASE SaveTrained(n)
  <2>1. TAt(n, "saving") /\ job' = job /\ train'[n].points = train[n].points
    BY <1>6, SaveTrainedDoes
  <2>2. ASSUME train'[n].pc = "publishing", record'.status = "completed", record'.out = n,
               record'.metrics = SavedMetrics(n)
        PROVE  LastSaved'
    <3>1. Owns(record', train')
      BY <1>0, <2>1, <2>2, SavedRows DEF Owns
    <3> QED BY <1>00, <1>000, <2>1, <2>2, <3>1 DEF TAt
  <2>3. ASSUME train'[n].pc = "returned", train'[n].result = "failed", record' = record
        PROVE  LastSaved'
    BY <1>00, <1>000, <2>1, <2>3 DEF TAt
  <2> QED BY <1>6, <2>2, <2>3, SaveTrainedDoes
<1>7. CASE PublishAdapter(n)
  <2>1. /\ TAt(n, "publishing") /\ train'[n].pc = "returned" /\ record' = record /\ job' = job
        /\ train'[n].points = train[n].points
    BY <1>7, PublishDoes
  <2> QED BY <1>00, <1>000, <1>0000, <2>1 DEF TAt
<1>8. CASE SaveFailed(n)
  <2>1. /\ TAt(n, "failing") /\ train'[n].pc = "returned" /\ train'[n].result = "failed"
        /\ record'.status = "failed" \/ record' = record
        /\ job' = job
    BY <1>8, SaveFailedDoes
  <2> QED BY <1>00, <1>000, <2>1 DEF TAt
<1>9. CASE FinishTraining(n)
  <2>1. /\ TAt(n, "returned") /\ train'[n].pc = "done" /\ job' \in {job, train[n].result}
        /\ record' = record /\ train'[n].points = train[n].points
    BY <1>9, FinishDoes
  <2> QED BY <1>00, <1>000, <1>0000, <2>1 DEF TAt
<1> QED BY <1>1, <1>2, <1>3, <1>4, <1>5, <1>6, <1>7, <1>8, <1>9 DEF TrainStep

LEMMA LastFailedTrainStep ==
  ASSUME TInv, PInv, MInv, InTurn, Made, LastFailed, NEW n \in Attempts, TrainStep(n)
  PROVE  LastFailed'
<1> DEFINE Clear == Without({"overlap", "register", "save"})
<1> SUFFICES ASSUME Clear' PROVE LastFailed'
  BY DEF LastFailed
<1>1. ~Overlapped' /\ "register" \notin faults' /\ "save" \notin faults'
  BY DEF Without, Overlapped
<1>2. Clear
  <2>1. \A kinds : Without(kinds)' => Without(kinds)
    BY TurnDoes
  <2> QED BY <2>1
<1>3. job \notin Final /\ \A m \in Attempts : m # n => train'[m] = train[m] /\ ~TAt(m, "returned")
  BY <1>1, TurnDoes DEF Training, TAt
<1>4. TAt(n, "returned") /\ train[n].result = "failed" => record.status = "failed"
  BY <1>2 DEF LastFailed
<1> HIDE DEF Clear
\* The step leaves no failed result, but with a failed record ...
<1>5. ASSUME job' = job \/ job' = "running",
             train'[n].pc = "returned" /\ train'[n].result = "failed" => record'.status = "failed"
      PROVE  LastFailed'
  BY <1>3, <1>5 DEF LastFailed, TAt, Final
\* ... or it gives the job its result.
<1>6. CASE TrainBegin(n)
  <2>1. job' \in {job, "running"} /\ train'[n].pc = "training"
    BY <1>1, <1>6, BeginDoes
  <2> QED BY <1>5, <2>1
<1>7. CASE Metric(n)
  <2>1. job' = job /\ train'[n].pc = "training"
    BY <1>7, MetricDoes
  <2> QED BY <1>5, <2>1
<1>8. CASE TrainerEnds(n)
  <2>1. job' = job /\ train'[n].pc \in {"registering", "failing"}
    BY <1>8, TrainerEndsDoes
  <2> QED BY <1>5, <2>1
<1>9. CASE Truncate(n)
  <2>1. job' = job /\ train'[n].pc = "writing"
    BY <1>9, TruncateDoes
  <2> QED BY <1>5, <2>1
<1>10. CASE Write(n)
  <2>1. job' = job /\ train'[n].pc = "saving"
    BY <1>1, <1>10, WriteDoes
  <2> QED BY <1>5, <2>1
<1>11. CASE SaveTrained(n)
  <2>1. job' = job /\ train'[n].pc = "publishing"
    BY <1>1, <1>11, SaveTrainedDoes
  <2> QED BY <1>5, <2>1
<1>12. CASE PublishAdapter(n)
  <2>1. job' = job /\ train'[n].result = "completed"
    BY <1>12, PublishDoes
  <2> QED BY <1>5, <2>1
<1>13. CASE SaveFailed(n)
  <2>1. job' = job /\ record'.status = "failed"
    BY <1>1, <1>13, SaveFailedDoes
  <2> QED BY <1>5, <2>1
<1>14. CASE FinishTraining(n)
  <2>1. TAt(n, "returned") /\ train'[n].pc = "done" /\ job' \in {job, train[n].result} /\ record' = record
    BY <1>14, FinishDoes
  <2> QED BY <1>3, <1>4, <2>1 DEF LastFailed, TAt, Final
<1> QED BY <1>6, <1>7, <1>8, <1>9, <1>10, <1>11, <1>12, <1>13, <1>14 DEF TrainStep

LEMMA FirstSavedTrainStep ==
  ASSUME TInv, PInv, MInv, InTurn, Made, LastSaved, FirstSaved, NEW n \in Attempts, TrainStep(n)
  PROVE  FirstSaved'
<1> DEFINE Clear == Without({"crash", "overlap", "finish"})
<1> SUFFICES ASSUME Clear' PROVE FirstSaved'
  BY DEF FirstSaved
<1>1. Clear /\ ~Overlapped
  <2>1. \A kinds : Without(kinds)' => Without(kinds)
    BY TurnDoes
  <2> QED BY <2>1 DEF Overlapped, Without
<1>2. n = 1 /\ \A id \in published : id = n /\ TAt(n, "returned")
  BY TurnDoes
<1>3. /\ ~train[n].error
      /\ record.error => record.status = "failed" /\ train[n].pc \in {"returned", "done"}
      /\ \A id \in published : record.status = "completed" /\ record.out = id
  BY <1>1, <1>2 DEF FirstSaved
<1>4. TAt(n, "publishing") => record.status = "completed" /\ record.out = n
  BY <1>1 DEF LastSaved
<1> HIDE DEF Clear
\* The step saves no error and publishes nothing, ...
<1>5. ASSUME published' = {} \/ (published' = published /\ record' = record), ~train'[n].error,
             ~record'.error \/ (record'.error /\ record'.status = "failed"
                                  /\ train'[n].pc \in {"returned", "done"})
      PROVE  FirstSaved'
  BY <1>2, <1>3, <1>5 DEF FirstSaved
<1>6. ~TAt(n, "returned") => published = {}
  BY <1>2
<1>7. CASE TrainBegin(n)
  <2>1. /\ TAt(n, "idle") /\ train'[n].error \in {record.error, train[n].error}
        /\ record'.error = record.error /\ published' = published
    BY <1>7, BeginDoes
  <2> QED BY <1>3, <1>5, <1>6, <2>1 DEF TAt
<1>8. CASE Metric(n)
  <2>1. /\ TAt(n, "training") /\ train'[n].error = train[n].error /\ SameRecord
        /\ published' = published
    BY <1>8, MetricDoes
  <2> QED BY <1>3, <1>5, <1>6, <2>1 DEF TAt, SameRecord
<1>9. CASE TrainerEnds(n)
  <2>1. /\ TAt(n, "training") /\ train'[n].error = train[n].error /\ record' = record
        /\ published' = published
    BY <1>9, TrainerEndsDoes
  <2> QED BY <1>3, <1>5, <1>6, <2>1 DEF TAt
<1>10. CASE Truncate(n)
  <2>1. /\ TAt(n, "registering") /\ train'[n].error = train[n].error /\ record' = record
        /\ published' = published
    BY <1>10, TruncateDoes
  <2> QED BY <1>3, <1>5, <1>6, <2>1 DEF TAt
<1>11. CASE Write(n)
  <2>1. /\ TAt(n, "writing") /\ train'[n].error = train[n].error /\ record' = record
        /\ published' = published
    BY <1>11, WriteDoes
  <2> QED BY <1>3, <1>5, <1>6, <2>1 DEF TAt
<1>12. CASE SaveTrained(n)
  <2>1. /\ TAt(n, "saving") /\ train'[n].error = train[n].error
        /\ record' = record \/ record'.error = train[n].error
        /\ published' = published
    BY <1>12, SaveTrainedDoes
  <2> QED BY <1>3, <1>5, <1>6, <2>1 DEF TAt
<1>13. CASE PublishAdapter(n)
  <2>1. /\ TAt(n, "publishing") /\ train'[n].error = train[n].error /\ record' = record
        /\ published' = published \cup {n}
    BY <1>13, PublishDoes
  <2>2. published' = {n} /\ ~record.error
    BY <1>3, <1>6, <2>1 DEF TAt
  <2> QED BY <1>2, <1>3, <1>4, <2>1, <2>2 DEF FirstSaved
<1>14. CASE SaveFailed(n)
  <2>1. /\ TAt(n, "failing") /\ train'[n].error = train[n].error /\ train'[n].pc = "returned"
        /\ (record'.status = "failed" /\ record'.error) \/ record' = record
        /\ published' = published
    BY <1>14, SaveFailedDoes
  <2> QED BY <1>3, <1>5, <1>6, <2>1 DEF TAt
<1>15. CASE FinishTraining(n)
  <2>1. /\ TAt(n, "returned") /\ train'[n].error = train[n].error /\ train'[n].pc = "done"
        /\ record' = record /\ published' = published
    BY <1>15, FinishDoes
  <2> QED BY <1>3, <1>5, <2>1
<1> QED BY <1>7, <1>8, <1>9, <1>10, <1>11, <1>12, <1>13, <1>14, <1>15 DEF TrainStep

LEMMA ToldStep ==
  TInv /\ PInv /\ MInv /\ InTurn /\ Made /\ Rows /\ Told /\ [ANext]_avars => Told'
<1> SUFFICES ASSUME TInv, PInv, MInv, InTurn, Made, Rows, Told, [ANext]_avars PROVE Told'
  OBVIOUS
<1>0. /\ leased \in Int /\ MaxAttempts \in Nat \ {0} /\ 1 \in Attempts
      /\ NoJob \cap Final = {} /\ "queued" \notin Final /\ "failed" \in Final /\ "completed" \in Final
      /\ NoJob \cap {"failed", "completed"} = {}
  BY Limits DEF TInv, NoJob, Final
<1>1. ASSUME NEW n \in Attempts, TrainStep(n) PROVE Told'
  BY <1>1, LastSavedTrainStep, LastFailedTrainStep, FirstSavedTrainStep DEF Told
<1>2. CASE SaveQueuedRecord
  <2>1. /\ record'.status = "queued" /\ record'.error = record.error
        /\ UNCHANGED <<leased, train, published, faults>> /\ job = "absent" /\ job' = "saved"
    BY <1>2 DEF SaveQueuedRecord, TInv, RecordType, pvars
  <2>2. (\A n \in Attempts : TAt(n, "idle")) /\ ~record.error
    BY <2>1 DEF InTurn, NoJob
  <2>3. published = {}
    BY <2>2 DEF Made, PInv, TAt
  <2>4. LastSaved'
    BY <2>1, <2>2 DEF LastSaved, TAt
  <2>5. LastFailed'
    BY <2>1, <2>2 DEF LastFailed, TAt
  <2>6. FirstSaved'
    BY <2>1, <2>2, <2>3 DEF FirstSaved, Told, Without
  <2> QED BY <2>4, <2>5, <2>6 DEF Told
<1>3. CASE EnqueueTraining
  <2>1. /\ UNCHANGED <<record, leased, train, published>> /\ job' \in {"queued", "lost"}
        /\ faults \subseteq faults'
    BY <1>3 DEF EnqueueTraining, pvars, Fault
  <2> QED BY <2>1 DEF Told, LastSaved, LastFailed, FirstSaved, Without, Overlapped, TAt
<1>4. CASE Exhausted
  <2>1. /\ UNCHANGED <<record, train, published, faults>> /\ leased = MaxAttempts + 1
        /\ leased' = leased + 1 /\ job' = "failed"
    BY <1>4 DEF Exhausted, pvars
  <2>2. leased # 1 /\ ~(leased' <= MaxAttempts)
    BY <1>0, <2>1
  <2>3. LastSaved'
    BY <2>1 DEF Told, LastSaved, Overlapped, TAt
  <2>4. LastFailed'
    BY <2>1, <2>2 DEF Told, LastFailed, Without, TAt
  <2>5. FirstSaved'
    BY <2>1, <2>2 DEF InTurn, FirstSaved, Without
  <2> QED BY <2>3, <2>4, <2>5 DEF Told
<1>5. CASE LoseLease
  <2>1. "overlap" \in faults'
    BY <1>5 DEF LoseLease, Fault
  <2> QED BY <2>1 DEF Told, LastSaved, LastFailed, FirstSaved, Without, Overlapped
<1>8. CASE LeaseAgain
  <2>1. /\ UNCHANGED <<record, train, job, published, faults>> /\ job = "running"
        /\ leased \in Attempts /\ TAt(leased, "done")
    BY <1>8 DEF LeaseAgain, TInv, Attempts, pvars
  <2> QED BY <2>1 DEF Told, LastSaved, LastFailed, FirstSaved, Without, Overlapped, TAt
<1>6. CASE Crash
  <2>1. \A n \in Attempts : ~Training(n)'
    BY <1>6, CrashDoes
  <2>2. /\ \/ leased' = leased \/ (job = "running" /\ leased' = leased + 1)
           \/ leased > MaxAttempts /\ leased' = MaxAttempts + 2
        /\ job' = IF job = "saved" THEN "lost" ELSE job
        /\ "crash" \in faults' /\ faults \subseteq faults' /\ UNCHANGED <<record, published>>
    BY <1>6, CrashDoes
  <2>3. /\ job' = "completed" => job = "completed"
        /\ job' = "failed" /\ leased' <= MaxAttempts => job = "failed" /\ leased <= MaxAttempts
        /\ \A n \in Attempts : train'[n].points = train[n].points
    BY <1>0, <1>6, <2>2, CrashDoes
  <2>4. LastSaved'
    BY <2>1, <2>2, <2>3 DEF Told, LastSaved, Made, Overlapped, Training, TAt
  <2>5. LastFailed'
    BY <2>1, <2>2, <2>3 DEF Told, LastFailed, Without, Training, TAt
  <2>6. FirstSaved'
    BY <2>2 DEF FirstSaved, Without
  <2> QED BY <2>4, <2>5, <2>6 DEF Told
<1>7. CASE Aside
  <2>1. UNCHANGED <<record, job, leased, train, published>> /\ faults \subseteq faults'
    BY <1>7, AsideDoes DEF tvars
  <2> QED BY <2>1 DEF Told, LastSaved, LastFailed, FirstSaved, Without, Overlapped, TAt
<1> QED BY <1>1, <1>2, <1>3, <1>4, <1>5, <1>6, <1>7, <1>8 DEF ANext, Aside

(***************************************************************************)
(* Where the manifests are: what can be read was saved by an attempt that is *)
(* past it, and an eval that has truncated a manifest knows of another one   *)
(* when it finds it whole.                                                   *)
(***************************************************************************)
Past(id) == train[id].pc \in {"saving", "publishing", "returned", "done", "dead"}

InPlace ==
  /\ \A id \in Attempts : Readable(id) => Past(id)
  /\ \A e \in Evals : eval[e].pc \notin {"idle", "failed"} => eval[e].id \in Attempts /\ Past(eval[e].id)
  /\ \A e \in Evals : EAt(e, "stamping") =>
       \/ manifest[eval[e].id] = Torn
       \/ \E f \in Evals : f # e /\ eval[f].id = eval[e].id /\ EAt(f, "done")
  /\ Without({"crash", "register"}) =>
       \A id \in Attempts : train[id].pc \in {"saving", "publishing"} \/ id \in published =>
         Readable(id) \/ Rewritten(id)

OnlyEval(e) == \A f \in Evals : f # e => eval'[f] = eval[f]

\* The attempts that an eval names stay where they are.
SameAttempts ==
  /\ UNCHANGED <<train, published>>
  /\ \A kinds : Without(kinds)' => Without(kinds)

LEMMA FrameInPlace ==
  ASSUME InPlace, SameAttempts, UNCHANGED <<manifest, eval>>
  PROVE  InPlace'
<1>1. \A id : (Readable(id)' <=> Readable(id)) /\ (Past(id)' <=> Past(id)) /\ (Rewritten(id)' <=> Rewritten(id))
  BY DEF SameAttempts, Readable, Past, Rewritten, EAt
<1>2. \A e \in Evals : eval'[e].pc \notin {"idle", "failed"} => eval'[e].id \in Attempts /\ Past(eval[e].id)'
  BY DEF InPlace, SameAttempts, Past
<1>3. \A e \in Evals : EAt(e, "stamping")' =>
        \/ manifest'[eval'[e].id] = Torn
        \/ \E f \in Evals : f # e /\ eval'[f].id = eval'[e].id /\ EAt(f, "done")'
  BY DEF InPlace, EAt
<1>4. Without({"crash", "register"})' => Without({"crash", "register"})
  BY DEF SameAttempts
<1>5. Without({"crash", "register"})' =>
        \A id \in Attempts : train'[id].pc \in {"saving", "publishing"} \/ id \in published' =>
          Readable(id)' \/ Rewritten(id)'
  BY <1>1, <1>4 DEF InPlace, SameAttempts
<1> QED BY <1>1, <1>2, <1>3, <1>5 DEF InPlace

\* A step of an eval that neither begins to rewrite a manifest nor ends it.
LEMMA QuietEval ==
  ASSUME InPlace, NEW e \in Evals, OnlyEval(e), SameAttempts, manifest' = manifest,
         eval[e].pc \notin {"stamping", "done"}, eval'[e].pc \notin {"stamping", "done"},
         eval'[e].pc \notin {"idle", "failed"} => eval'[e].id \in Attempts /\ Past(eval'[e].id)
  PROVE  InPlace'
<1>1. \A f \in Evals : (EAt(f, "stamping")' <=> EAt(f, "stamping")) /\ (EAt(f, "done")' <=> EAt(f, "done"))
  BY DEF OnlyEval, EAt
<1>2. \A f \in Evals : EAt(f, "stamping") \/ EAt(f, "done") => eval'[f] = eval[f]
  BY DEF OnlyEval, EAt
<1>3. \A id : Rewritten(id) => Rewritten(id)'
  <2> SUFFICES ASSUME NEW id, Rewritten(id) PROVE Rewritten(id)'
    OBVIOUS
  <2>1. CASE \E f \in Evals : EAt(f, "stamping") /\ eval[f].id = id
    BY <1>1, <1>2, <2>1 DEF Rewritten
  <2>2. CASE \E f, g \in Evals : f # g /\ eval[f].id = id /\ eval[g].id = id
                                 /\ {eval[f].pc, eval[g].pc} = {"done"}
    <3>1. PICK f \in Evals, g \in Evals : f # g /\ eval[f].id = id /\ eval[g].id = id
                                          /\ eval[f].pc = "done" /\ eval[g].pc = "done"
      BY <2>2
    <3>2. eval'[f] = eval[f] /\ eval'[g] = eval[g]
      BY <1>2, <3>1 DEF EAt
    <3> QED BY <3>1, <3>2 DEF Rewritten
  <2> QED BY <2>1, <2>2 DEF Rewritten
<1>4. \A id \in Attempts : (Readable(id)' <=> Readable(id)) /\ (Past(id)' <=> Past(id))
  BY DEF SameAttempts, Readable, Past
<1>5. \A id \in Attempts : Readable(id)' => Past(id)'
  BY <1>4 DEF InPlace
<1>6. \A f \in Evals : eval'[f].pc \notin {"idle", "failed"} => eval'[f].id \in Attempts /\ Past(eval'[f].id)
  BY DEF InPlace, OnlyEval
<1>7. \A f \in Evals : eval'[f].pc \notin {"idle", "failed"} => eval'[f].id \in Attempts /\ Past(eval[f].id)'
  BY <1>6 DEF SameAttempts, Past
<1>8. ASSUME NEW f \in Evals, EAt(f, "stamping")'
      PROVE  \/ manifest'[eval'[f].id] = Torn
             \/ \E g \in Evals : g # f /\ eval'[g].id = eval'[f].id /\ EAt(g, "done")'
  <2>1. EAt(f, "stamping") /\ eval'[f] = eval[f]
    BY <1>1, <1>2, <1>8
  <2>2. CASE manifest[eval[f].id] = Torn
    BY <2>1, <2>2
  <2>3. ASSUME NEW g \in Evals, g # f, eval[g].id = eval[f].id, EAt(g, "done")
        PROVE  g # f /\ eval'[g].id = eval'[f].id /\ EAt(g, "done")'
    BY <1>1, <1>2, <2>1, <2>3
  <2> QED BY <2>1, <2>2, <2>3 DEF InPlace
<1>9. Without({"crash", "register"})' =>
        \A id \in Attempts : train'[id].pc \in {"saving", "publishing"} \/ id \in published' =>
          Readable(id)' \/ Rewritten(id)'
  BY <1>3, <1>4 DEF InPlace, SameAttempts
<1> QED BY <1>5, <1>7, <1>8, <1>9 DEF InPlace

\* register of an eval truncates the manifest ...
LEMMA BeginsInPlace ==
  ASSUME InPlace, MInv, NEW e \in Evals, OnlyEval(e), SameAttempts,
         EAt(e, "stamp"), EAt(e, "stamping")', eval'[e].id = eval[e].id,
         manifest' = [manifest EXCEPT ![eval[e].id] = Torn]
  PROVE  InPlace'
<1> DEFINE id0 == eval[e].id
<1>1. id0 \in Attempts /\ Past(id0)
  BY DEF InPlace, EAt
<1>2. manifest'[id0] = Torn /\ \A id \in Attempts : id # id0 => manifest'[id] = manifest[id]
  BY <1>1 DEF MInv
<1>3. \A f \in Evals : eval'[f].id = eval[f].id /\ (EAt(f, "done")' <=> EAt(f, "done"))
                       /\ (EAt(f, "stamping")' <=> EAt(f, "stamping") \/ f = e)
  BY DEF OnlyEval, EAt
<1>4. \A id \in Attempts : id # id0 /\ Rewritten(id) => Rewritten(id)'
  <2> SUFFICES ASSUME NEW id \in Attempts, Rewritten(id) PROVE Rewritten(id)'
    OBVIOUS
  <2>1. CASE \E f \in Evals : EAt(f, "stamping") /\ eval[f].id = id
    BY <1>3, <2>1 DEF Rewritten
  <2>2. CASE \E f, g \in Evals : f # g /\ eval[f].id = id /\ eval[g].id = id
                                 /\ {eval[f].pc, eval[g].pc} = {"done"}
    <3>1. PICK f \in Evals, g \in Evals : f # g /\ eval[f].id = id /\ eval[g].id = id
                                          /\ eval[f].pc = "done" /\ eval[g].pc = "done"
      BY <2>2
    <3>2. eval'[f].pc = "done" /\ eval'[g].pc = "done" /\ eval'[f].id = id /\ eval'[g].id = id
      BY <1>3, <3>1 DEF EAt
    <3> QED BY <3>1, <3>2 DEF Rewritten
  <2> QED BY <2>1, <2>2 DEF Rewritten
<1>5. \A id : id = id0 => Rewritten(id)'
  BY <1>3 DEF Rewritten
<1>6. \A id \in Attempts : Past(id)' <=> Past(id)
  BY DEF SameAttempts, Past
<1>7. \A id \in Attempts : Readable(id)' => Readable(id)
  <2>1. Torn.kind # "file"
    BY DEF Torn
  <2> QED BY <1>2, <2>1 DEF Readable
<1>8. \A id \in Attempts : id # id0 => (Readable(id)' <=> Readable(id))
  BY <1>2 DEF Readable
<1>9. \A f \in Evals : eval'[f].pc \notin {"idle", "failed"} => eval'[f].id \in Attempts /\ Past(eval[f].id)'
  <2> SUFFICES ASSUME NEW f \in Evals, eval'[f].pc \notin {"idle", "failed"}
               PROVE  eval[f].id \in Attempts /\ Past(eval[f].id)' /\ eval'[f].id = eval[f].id
    OBVIOUS
  <2>1. eval[f].id \in Attempts /\ Past(eval[f].id)
    BY <1>1 DEF InPlace, OnlyEval
  <2> QED BY <1>3, <2>1 DEF SameAttempts, Past
<1> HIDE DEF id0
<1>10. ASSUME NEW f \in Evals, EAt(f, "stamping")'
       PROVE  \/ manifest'[eval'[f].id] = Torn
              \/ \E g \in Evals : g # f /\ eval'[g].id = eval'[f].id /\ EAt(g, "done")'
  <2>1. CASE eval[f].id = id0
    BY <1>2, <1>3, <2>1
  <2>2. CASE eval[f].id # id0
    <3>1. f # e /\ EAt(f, "stamping")
      BY <1>3, <1>10, <2>2 DEF id0
    <3>2. eval[f].id \in Attempts
      BY <3>1 DEF InPlace, EAt
    <3>3. manifest'[eval[f].id] = manifest[eval[f].id]
      BY <1>2, <2>2, <3>2
    <3>4. \/ manifest[eval[f].id] = Torn
          \/ \E g \in Evals : g # f /\ eval[g].id = eval[f].id /\ EAt(g, "done")
      BY <3>1 DEF InPlace
    <3> QED BY <1>3, <3>3, <3>4
  <2> QED BY <2>1, <2>2
<1>11. Without({"crash", "register"})' =>
         \A id \in Attempts : train'[id].pc \in {"saving", "publishing"} \/ id \in published' =>
           Readable(id)' \/ Rewritten(id)'
  <2> SUFFICES ASSUME Without({"crash", "register"})', NEW id \in Attempts,
                      train'[id].pc \in {"saving", "publishing"} \/ id \in published'
               PROVE  Readable(id)' \/ Rewritten(id)'
    OBVIOUS
  <2>1. Readable(id) \/ Rewritten(id)
    BY DEF InPlace, SameAttempts
  <2>2. CASE id = id0
    BY <1>5, <2>2
  <2>3. CASE id # id0
    BY <1>4, <1>8, <2>1, <2>3
  <2> QED BY <2>2, <2>3
<1> QED BY <1>6, <1>7, <1>9, <1>10, <1>11 DEF InPlace

\* ... and ends with the new text, with a garbled one, or fails.
LEMMA EndsInPlace ==
  ASSUME InPlace, MInv, NEW e \in Evals, OnlyEval(e), SameAttempts,
         EAt(e, "stamping"), eval'[e].id = eval[e].id,
         \/ /\ EAt(e, "done")'
            /\ \E file \in Stamped(e) : manifest' = [manifest EXCEPT ![eval[e].id] = file]
         \/ EAt(e, "failed")' /\ manifest' = manifest /\ "register" \in faults'
  PROVE  InPlace'
<1>1. PICK id0 : id0 = eval[e].id
  OBVIOUS
<1>2. id0 \in Attempts /\ Past(id0) /\ eval'[e].id = id0
  BY <1>1 DEF InPlace, EAt
<1>3. \A id \in Attempts : id # id0 => manifest'[id] = manifest[id]
  BY <1>1 DEF MInv
<1>4. \A f \in Evals : /\ eval'[f].id = eval[f].id /\ (EAt(f, "done") => EAt(f, "done")')
                       /\ (EAt(f, "stamping")' <=> EAt(f, "stamping") /\ f # e)
  BY DEF OnlyEval, EAt
<1>5. \A id \in Attempts : id # id0 /\ Rewritten(id) => Rewritten(id)'
  <2> SUFFICES ASSUME NEW id \in Attempts, id # id0, Rewritten(id) PROVE Rewritten(id)'
    OBVIOUS
  <2>1. CASE \E f \in Evals : EAt(f, "stamping") /\ eval[f].id = id
    <3>1. PICK f \in Evals : EAt(f, "stamping") /\ eval[f].id = id
      BY <2>1
    <3>2. EAt(f, "stamping")' /\ eval'[f].id = id
      BY <1>1, <1>4, <3>1
    <3> QED BY <3>2 DEF Rewritten
  <2>2. CASE \E f, g \in Evals : f # g /\ eval[f].id = id /\ eval[g].id = id
                                 /\ {eval[f].pc, eval[g].pc} = {"done"}
    <3>1. PICK f \in Evals, g \in Evals : f # g /\ eval[f].id = id /\ eval[g].id = id
                                          /\ eval[f].pc = "done" /\ eval[g].pc = "done"
      BY <2>2
    <3>2. eval'[f].pc = "done" /\ eval'[g].pc = "done" /\ eval'[f].id = id /\ eval'[g].id = id
      BY <1>4, <3>1 DEF EAt
    <3> QED BY <3>1, <3>2 DEF Rewritten
  <2> QED BY <2>1, <2>2 DEF Rewritten
<1>6. \A id \in Attempts : Past(id)' <=> Past(id)
  BY DEF SameAttempts, Past
<1>7. \A id \in Attempts : id # id0 => (Readable(id)' <=> Readable(id))
  BY <1>3 DEF Readable
<1>8. \A id \in Attempts : Readable(id)' => Past(id)'
  BY <1>2, <1>6, <1>7 DEF InPlace
<1>9. \A f \in Evals : eval'[f].pc \notin {"idle", "failed"} => eval'[f].id \in Attempts /\ Past(eval[f].id)'
  <2> SUFFICES ASSUME NEW f \in Evals, eval'[f].pc \notin {"idle", "failed"}
               PROVE  eval[f].id \in Attempts /\ Past(eval[f].id)' /\ eval'[f].id = eval[f].id
    OBVIOUS
  <2>1. eval[f].id \in Attempts /\ Past(eval[f].id)
    BY <1>1, <1>2 DEF InPlace, OnlyEval
  <2> QED BY <1>4, <2>1 DEF SameAttempts, Past
<1>10. \A f \in Evals : EAt(f, "stamping") =>
         \/ manifest[eval[f].id] = Torn
         \/ \E g \in Evals : g # f /\ eval[g].id = eval[f].id /\ EAt(g, "done")
  BY DEF InPlace
\* Another eval of the adapter finds this one done.
<1>11. ASSUME NEW f \in Evals, EAt(f, "stamping")'
       PROVE  \/ manifest'[eval'[f].id] = Torn
              \/ \E g \in Evals : g # f /\ eval'[g].id = eval'[f].id /\ EAt(g, "done")'
  <2>1. f # e /\ EAt(f, "stamping") /\ eval'[f].id = eval[f].id
    BY <1>4, <1>11
  <2>2. eval[f].id \in Attempts
    BY <2>1 DEF InPlace, EAt
  <2>3. CASE \E g \in Evals : g # f /\ eval[g].id = eval[f].id /\ EAt(g, "done")
    BY <1>4, <2>3
  <2>4. CASE eval[f].id # id0 /\ manifest[eval[f].id] = Torn
    BY <1>3, <2>1, <2>2, <2>4
  <2>5. CASE eval[f].id = id0 /\ manifest[eval[f].id] = Torn
    <3>1. CASE EAt(e, "done")'
      BY <1>2, <2>1, <2>5, <3>1
    <3>2. CASE manifest' = manifest
      BY <2>1, <2>5, <3>2
    <3> QED BY <3>1, <3>2
  <2> QED BY <1>10, <2>1, <2>3, <2>4, <2>5
\* Its own text is whole, or another one was done before.
<1>12. Without({"crash", "register"})' => Readable(id0)' \/ Rewritten(id0)'
  <2> SUFFICES ASSUME Without({"crash", "register"})' PROVE Readable(id0)' \/ Rewritten(id0)'
    OBVIOUS
  <2>1. "register" \notin faults'
    BY DEF Without
  <2>2. PICK file \in Stamped(e) : manifest' = [manifest EXCEPT ![eval[e].id] = file]
    BY <2>1
  <2>3. EAt(e, "done")'
    BY <2>1
  <2> DEFINE mine == [eval[e].read EXCEPT !.scored = TRUE, !.score = eval[e].sum]
  <2>4. mine.kind = "file" /\ manifest'[id0] = file
    <3>1. eval[e].read \in Files
      BY DEF MInv, EAt
    <3> QED BY <1>1, <1>2, <2>2, <3>1 DEF Files, MInv
  <2>5. CASE file = mine
    BY <2>4, <2>5 DEF Readable
  <2>6. CASE file # mine
    <3>1. manifest[id0] # Torn
      BY <1>1, <2>2, <2>6 DEF Stamped
    <3>2. PICK g \in Evals : g # e /\ eval[g].id = id0 /\ EAt(g, "done")
      BY <1>1, <1>10, <3>1
    <3>3. eval'[g].pc = "done" /\ eval'[e].pc = "done" /\ eval'[g].id = id0
      BY <1>4, <2>3, <3>2 DEF EAt
    <3> QED BY <1>2, <3>2, <3>3 DEF Rewritten
  <2> QED BY <2>5, <2>6
<1>13. Without({"crash", "register"})' =>
         \A id \in Attempts : train'[id].pc \in {"saving", "publishing"} \/ id \in published' =>
           Readable(id)' \/ Rewritten(id)'
  <2> SUFFICES ASSUME Without({"crash", "register"})', NEW id \in Attempts,
                      train'[id].pc \in {"saving", "publishing"} \/ id \in published'
               PROVE  Readable(id)' \/ Rewritten(id)'
    OBVIOUS
  <2>1. Readable(id) \/ Rewritten(id)
    BY DEF InPlace, SameAttempts
  <2>2. CASE id = id0
    BY <1>12, <2>2
  <2>3. CASE id # id0
    BY <1>5, <1>7, <2>1, <2>3
  <2> QED BY <2>2, <2>3
<1> QED BY <1>8, <1>9, <1>11, <1>13 DEF InPlace

\* A step of an attempt that is not past its save may write its manifest.
LEMMA AttemptInPlace ==
  ASSUME InPlace, NEW n \in Attempts, OnlyAttempt(n), OnlyFile(n), eval' = eval,
         faults \subseteq faults',
         published' \subseteq published \cup {n},
         Past(n) => Past(n)' /\ manifest'[n] = manifest[n],
         Readable(n)' => Past(n)',
         Without({"crash", "register"})'
           /\ (train'[n].pc \in {"saving", "publishing"} \/ n \in published') =>
           Readable(n)' \/ Rewritten(n)
  PROVE  InPlace'
<1>1. \A id \in Attempts : id # n => (Readable(id)' <=> Readable(id)) /\ (Past(id)' <=> Past(id))
  BY DEF OnlyAttempt, OnlyFile, Readable, Past
<1>2. \A id : Rewritten(id)' <=> Rewritten(id)
  BY DEF Rewritten, EAt
<1>3. \A id \in Attempts : Past(id) => Past(id)' /\ manifest'[id] = manifest[id]
  BY <1>1 DEF OnlyFile
<1>4. \A id \in Attempts : Readable(id)' => Past(id)'
  BY <1>1 DEF InPlace
<1>5. ASSUME NEW e \in Evals, eval[e].pc \notin {"idle", "failed"}
      PROVE  eval[e].id \in Attempts /\ Past(eval[e].id)' /\ manifest'[eval[e].id] = manifest[eval[e].id]
  <2>1. eval[e].id \in Attempts /\ Past(eval[e].id)
    BY <1>5 DEF InPlace
  <2>2. PICK id \in Attempts : id = eval[e].id
    BY <2>1
  <2>3. Past(id)' /\ manifest'[id] = manifest[id]
    BY <1>3, <2>1, <2>2
  <2> QED BY <2>2, <2>3 DEF Past
<1>6. ASSUME NEW e \in Evals, EAt(e, "stamping")'
      PROVE  \/ manifest'[eval'[e].id] = Torn
             \/ \E f \in Evals : f # e /\ eval'[f].id = eval'[e].id /\ EAt(f, "done")'
  <2>1. EAt(e, "stamping")
    BY <1>6 DEF EAt
  <2>2. manifest'[eval[e].id] = manifest[eval[e].id]
    BY <1>5, <2>1 DEF EAt
  <2>3. \/ manifest[eval[e].id] = Torn
        \/ \E f \in Evals : f # e /\ eval[f].id = eval[e].id /\ EAt(f, "done")
    BY <2>1 DEF InPlace
  <2> QED BY <2>2, <2>3 DEF EAt
<1>7. Without({"crash", "register"})' => Without({"crash", "register"})
  BY DEF Without
<1>8. Without({"crash", "register"})' =>
        \A id \in Attempts : train'[id].pc \in {"saving", "publishing"} \/ id \in published' =>
          Readable(id)' \/ Rewritten(id)'
  <2> SUFFICES ASSUME Without({"crash", "register"})', NEW id \in Attempts,
                      train'[id].pc \in {"saving", "publishing"} \/ id \in published'
               PROVE  Readable(id)' \/ Rewritten(id)'
    OBVIOUS
  <2>1. CASE id = n
    BY <1>2, <2>1
  <2>2. CASE id # n
    <3>1. train[id].pc \in {"saving", "publishing"} \/ id \in published
      BY <2>2 DEF OnlyAttempt
    <3> QED BY <1>1, <1>2, <1>7, <2>2, <3>1 DEF InPlace
  <2> QED BY <2>1, <2>2
<1> QED BY <1>4, <1>5, <1>6, <1>8 DEF InPlace

LEMMA TrainStepInPlace ==
  ASSUME TInv, MInv, Made, InPlace, NEW n \in Attempts, TrainStep(n)
  PROVE  InPlace'
<1>1. \/ TAt(n, "idle") \/ TAt(n, "training") \/ TAt(n, "registering") \/ TAt(n, "writing")
        \/ TAt(n, "failing")
      => ~Past(n) /\ ~Readable(n) /\ n \notin published
  BY DEF TAt, Past, InPlace, Made
<1>2. Without({"crash", "register"}) /\ (train[n].pc \in {"saving", "publishing"} \/ n \in published) =>
        Readable(n) \/ Rewritten(n)
  BY DEF InPlace
<1>3. ASSUME faults \subseteq faults' PROVE Without({"crash", "register"})' => Without({"crash", "register"})
  BY <1>3 DEF Without
<1>4. ASSUME OnlyAttempt(n), manifest' = manifest, eval' = eval, faults \subseteq faults',
             published' = published,
             ~Past(n), ~Readable(n), n \notin published, train'[n].pc \notin {"saving", "publishing"}
      PROVE  InPlace'
  <2>1. OnlyFile(n) /\ ~Readable(n)'
    BY <1>4 DEF OnlyFile, Readable
  <2> QED BY <1>4, <2>1, AttemptInPlace
<1>5. ASSUME OnlyAttempt(n), manifest' = manifest, eval' = eval, faults \subseteq faults',
             published' \subseteq published \cup {n}, Past(n)',
             train[n].pc \in {"saving", "publishing"} \/ (TAt(n, "returned") /\ published' = published /\ TAt(n, "done")')
      PROVE  InPlace'
  <2>1. OnlyFile(n) /\ manifest'[n] = manifest[n] /\ (Readable(n)' <=> Readable(n))
    BY <1>5 DEF OnlyFile, Readable
  <2>2. Without({"crash", "register"})'
          /\ (train'[n].pc \in {"saving", "publishing"} \/ n \in published') =>
          Readable(n)' \/ Rewritten(n)
    BY <1>2, <1>3, <1>5, <2>1 DEF TAt
  <2> QED BY <1>5, <2>1, <2>2, AttemptInPlace
<1>6. CASE TrainBegin(n)
  <2>1. /\ TAt(n, "idle") /\ OnlyAttempt(n) /\ train'[n].pc \in {"training", "returned"}
        /\ faults \subseteq faults' /\ UNCHANGED <<manifest, published>>
    BY <1>6, BeginDoes
  <2>2. eval' = eval
    BY <1>6 DEF TrainBegin, evars
  <2> QED BY <1>1, <1>4, <2>1, <2>2
<1>7. CASE Metric(n)
  <2>1. /\ TAt(n, "training") /\ OnlyAttempt(n) /\ train'[n].pc = "training"
        /\ faults \subseteq faults' /\ UNCHANGED <<manifest, published>>
    BY <1>7, MetricDoes
  <2>2. eval' = eval
    BY <1>7 DEF Metric, evars
  <2> QED BY <1>1, <1>4, <2>1, <2>2
<1>8. CASE TrainerEnds(n)
  <2>1. /\ TAt(n, "training") /\ OnlyAttempt(n) /\ train'[n].pc \in {"registering", "failing"}
        /\ faults \subseteq faults' /\ UNCHANGED <<manifest, published>>
    BY <1>8, TrainerEndsDoes
  <2>2. eval' = eval
    BY <1>8 DEF TrainerEnds, evars
  <2> QED BY <1>1, <1>4, <2>1, <2>2
<1>9. CASE Truncate(n)
  <2>1. /\ TAt(n, "registering") /\ OnlyAttempt(n) /\ train'[n].pc = "writing"
        /\ OnlyFile(n) /\ manifest'[n] = Torn /\ UNCHANGED <<published, faults>>
    BY <1>9, TruncateDoes
  <2>2. eval' = eval
    BY <1>9 DEF Truncate, evars
  <2>3. ~Readable(n)'
    BY <2>1 DEF Readable, Torn
  <2> QED BY <1>1, <2>1, <2>2, <2>3, AttemptInPlace
<1>10. CASE Write(n)
  <2>1. /\ TAt(n, "writing") /\ OnlyAttempt(n) /\ faults \subseteq faults' /\ published' = published
        /\ \/ train'[n].pc = "saving" /\ OnlyFile(n) /\ manifest'[n] = Unscored
           \/ train'[n].pc = "returned" /\ manifest' = manifest
    BY <1>10, WriteDoes
  <2>2. eval' = eval
    BY <1>10 DEF Write, evars
  <2>3. CASE train'[n].pc = "saving" /\ OnlyFile(n) /\ manifest'[n] = Unscored
    <3>1. Readable(n)' /\ Past(n)' /\ ~Past(n)
      BY <1>1, <2>1, <2>3 DEF Readable, Past, Unscored
    <3>2. published' \subseteq published \cup {n}
      BY <2>1
    <3> QED BY <2>1, <2>2, <2>3, <3>1, <3>2, AttemptInPlace
  <2>4. CASE train'[n].pc = "returned" /\ manifest' = manifest
    BY <1>1, <1>4, <2>1, <2>2, <2>4
  <2> QED BY <2>1, <2>3, <2>4
<1>11. CASE SaveTrained(n)
  <2>1. /\ TAt(n, "saving") /\ OnlyAttempt(n) /\ train'[n].pc \in {"publishing", "returned"}
        /\ faults \subseteq faults' /\ UNCHANGED <<manifest, published>>
    BY <1>11, SaveTrainedDoes
  <2>2. eval' = eval
    BY <1>11 DEF SaveTrained, evars
  <2> QED BY <1>5, <2>1, <2>2 DEF TAt, Past
<1>12. CASE PublishAdapter(n)
  <2>1. /\ TAt(n, "publishing") /\ OnlyAttempt(n) /\ train'[n].pc = "returned"
        /\ published' = published \cup {n} /\ UNCHANGED <<manifest, faults>>
    BY <1>12, PublishDoes
  <2>2. eval' = eval
    BY <1>12 DEF PublishAdapter, evars
  <2> QED BY <1>5, <2>1, <2>2 DEF TAt, Past
<1>13. CASE SaveFailed(n)
  <2>1. /\ TAt(n, "failing") /\ OnlyAttempt(n) /\ train'[n].pc = "returned"
        /\ faults \subseteq faults' /\ UNCHANGED <<manifest, published>>
    BY <1>13, SaveFailedDoes
  <2>2. eval' = eval
    BY <1>13 DEF SaveFailed, evars
  <2> QED BY <1>1, <1>4, <2>1, <2>2
<1>14. CASE FinishTraining(n)
  <2>1. /\ TAt(n, "returned") /\ OnlyAttempt(n) /\ train'[n].pc = "done"
        /\ faults \subseteq faults' /\ UNCHANGED <<manifest, published>>
    BY <1>14, FinishDoes
  <2>2. eval' = eval
    BY <1>14 DEF FinishTraining, evars
  <2> QED BY <1>5, <2>1, <2>2 DEF TAt, Past
<1> QED BY <1>6, <1>7, <1>8, <1>9, <1>10, <1>11, <1>12, <1>13, <1>14 DEF TrainStep

LEMMA EvalStepInPlace ==
  ASSUME EInv, MInv, InPlace, NEW e \in Evals, EvalStep(e) \/ Hangup(e)
  PROVE  InPlace'
<1>1. SameAttempts
  <2>1. Aside
    BY DEF Aside
  <2>2. UNCHANGED <<tvars, published>> /\ faults \subseteq faults'
    BY <2>1, AsideDoes
  <2> QED BY <2>2 DEF SameAttempts, tvars, Without
<1>2. eval \in [Evals -> EvalType]
  BY DEF EInv
<1>3. eval[e].pc \notin {"idle", "failed"} => eval[e].id \in Attempts /\ Past(eval[e].id)
  BY DEF InPlace
<1>4. ASSUME manifest' = manifest, eval' = [eval EXCEPT ![e] = eval'[e]] \/ eval' = eval,
             eval'[e].id = eval[e].id, eval[e].pc \notin {"idle", "failed", "stamping", "done"},
             eval'[e].pc \notin {"stamping", "done"}
      PROVE  InPlace'
  <2>1. OnlyEval(e)
    BY <1>2, <1>4 DEF OnlyEval
  <2>2. eval'[e].id \in Attempts /\ Past(eval[e].id) /\ Past(eval'[e].id)
    <3>1. eval[e].id \in Attempts /\ Past(eval[e].id)
      BY <1>3, <1>4
    <3> QED BY <1>4, <3>1 DEF Past
  <2> QED BY <1>1, <1>4, <2>1, <2>2, QuietEval
<1>5. ASSUME NEW pc, EGoto(e, pc)
      PROVE  eval' = [eval EXCEPT ![e] = eval'[e]] /\ eval'[e].id = eval[e].id /\ eval'[e].pc = pc
  BY <1>2, <1>5 DEF EGoto, EvalType
<1>6. CASE Submit(e) \/ StartRun(e) \/ EndRun(e) \/ Hangup(e)
  <2>1. PICK pc \in {"register", "failed", "running", "ended", "broken", "dropped"} : EGoto(e, pc)
    BY <1>6 DEF Submit, StartRun, EndRun, Hangup
  <2>2. manifest' = manifest /\ eval[e].pc \in {"submit", "register", "running", "ended"}
    BY <1>6 DEF Submit, StartRun, EndRun, Hangup, EAt
  <2> QED BY <1>4, <1>5, <2>1, <2>2
<1>7. CASE Unregister(e)
  <2>1. manifest' = manifest /\ eval[e].pc \in {"ended", "broken"}
    BY <1>7 DEF Unregister, EAt
  <2>2. CASE eval' = [eval EXCEPT ![e] = After(e)]
    <3>1. After(e).id = eval[e].id /\ After(e).pc \in {"stamp", "submit"}
      BY <1>2 DEF After, EvalType
    <3>2. eval'[e] = After(e)
      BY <1>2, <2>2
    <3> QED BY <1>4, <2>1, <2>2, <3>1, <3>2
  <2>3. CASE EGoto(e, "failed")
    BY <1>4, <1>5, <2>1, <2>3
  <2> QED BY <1>7, <2>2, <2>3 DEF Unregister
<1>8. CASE StampBegin(e)
  <2>1. EAt(e, "stamp") /\ manifest' = [manifest EXCEPT ![eval[e].id] = Torn] /\ EGoto(e, "stamping")
    BY <1>8 DEF StampBegin
  <2>2. OnlyEval(e) /\ EAt(e, "stamping")' /\ eval'[e].id = eval[e].id
    BY <1>2, <2>1 DEF OnlyEval, EGoto, EAt, EvalType
  <2> QED BY <1>1, <2>1, <2>2, BeginsInPlace
<1>9. CASE Stamp(e)
  <2>1. EAt(e, "stamping")
    BY <1>9 DEF Stamp
  <2>2. CASE /\ \E file \in Stamped(e) : manifest' = [manifest EXCEPT ![eval[e].id] = file]
             /\ EGoto(e, "done")
    <3>1. OnlyEval(e) /\ EAt(e, "done")' /\ eval'[e].id = eval[e].id
      BY <1>2, <2>2 DEF OnlyEval, EGoto, EAt, EvalType
    <3> QED BY <1>1, <2>1, <2>2, <3>1, EndsInPlace
  <2>3. CASE Fault("register") /\ EGoto(e, "failed") /\ manifest' = manifest
    <3>1. OnlyEval(e) /\ EAt(e, "failed")' /\ eval'[e].id = eval[e].id /\ "register" \in faults'
      BY <1>2, <2>3 DEF OnlyEval, EGoto, EAt, EvalType, Fault
    <3> QED BY <1>1, <2>1, <2>3, <3>1, EndsInPlace
  <2> QED BY <1>9, <2>2, <2>3 DEF Stamp
<1>10. ASSUME NEW k \in 1..Tasks, CancelAct(e, k) PROVE InPlace'
  <2>1. UNCHANGED <<eval, manifest>>
    BY <1>10 DEF CancelAct
  <2> QED BY <1>1, <2>1, FrameInPlace
<1> QED BY <1>6, <1>7, <1>8, <1>9, <1>10 DEF EvalStep

LEMMA InPlaceStep == TInv /\ EInv /\ MInv /\ Made /\ InPlace /\ [ANext]_avars => InPlace'
<1> SUFFICES ASSUME TInv, EInv, MInv, Made, InPlace, [ANext]_avars PROVE InPlace'
  OBVIOUS
<1>1. ASSUME NEW n \in Attempts, TrainStep(n) PROVE InPlace'
  BY <1>1, TrainStepInPlace
<1>2. ASSUME NEW e \in Evals, EvalStep(e) \/ Hangup(e) PROVE InPlace'
  BY <1>2, EvalStepInPlace
<1>3. ASSUME UNCHANGED <<train, manifest, published, eval>>, faults \subseteq faults' PROVE InPlace'
  <2>1. SameAttempts
    BY <1>3 DEF SameAttempts, Without
  <2> QED BY <1>3, <2>1, FrameInPlace
<1>4. CASE SaveQueuedRecord \/ EnqueueTraining \/ LeaseAgain \/ Exhausted \/ LoseLease \/ Reload \/ Window \/ UNCHANGED avars
  BY <1>3, <1>4 DEF SaveQueuedRecord, EnqueueTraining, LeaseAgain, Exhausted, LoseLease, Reload, Window, Fault,
                    tvars, evars, pvars, avars
<1>5. ASSUME NEW s \in Slots, SlotStep(s) PROVE InPlace'
  BY <1>3, <1>5 DEF SlotStep, tvars, evars, pvars
<1>6. ASSUME NEW e \in Evals, NEW k \in 1..Tasks, CancelRead(e, k) PROVE InPlace'
  BY <1>3, <1>6 DEF CancelRead, Fault, tvars, pvars
<1>7. ASSUME NEW e \in Evals, NEW id \in Requested, GetAdapter(e, id) PROVE InPlace'
  <2>1. SameAttempts /\ manifest' = manifest
    BY <1>7 DEF GetAdapter, SameAttempts, Fault, Without, tvars, pvars
  <2>2. eval \in [Evals -> EvalType] /\ id \in Attempts
    BY AdaptersAssumption DEF EInv, Attempts
  <2>3. /\ OnlyEval(e) /\ eval[e].pc = "idle"
        /\ eval'[e].id = id /\ eval'[e].pc = IF Readable(id) THEN "submit" ELSE "failed"
    BY <1>7, <2>2 DEF GetAdapter, OnlyEval, EAt, EvalType
  <2>4. eval'[e].pc \notin {"idle", "failed"} => eval'[e].id \in Attempts /\ Past(eval'[e].id)
    BY <2>2, <2>3 DEF InPlace
  <2>5. eval'[e].pc \notin {"stamping", "done"}
    BY <2>3
  <2> QED BY <2>1, <2>3, <2>4, <2>5, QuietEval
<1>8. CASE Crash
  <2>1. /\ \A n \in Attempts : train'[n] = train[n] \/ train'[n].pc = "dead"
        /\ "crash" \in faults' /\ UNCHANGED <<manifest, published>>
    BY <1>8, CrashDoes
  <2>2. \A n \in Attempts : (Past(n) => Past(n)') /\ (Readable(n)' <=> Readable(n))
    BY <2>1 DEF Past, Readable
  <2>3. \A e \in Evals : /\ eval'[e].id = eval[e].id /\ eval'[e].pc # "stamping"
                         /\ eval[e].pc \in {"idle", "failed"} => eval'[e].pc = eval[e].pc
    <3>1. \A e \in Evals : eval[e] \in EvalType
      BY DEF EInv
    <3>2. ASSUME NEW e \in Evals
          PROVE  eval'[e] = IF Evaluating(e) THEN [eval[e] EXCEPT !.pc = "dropped"] ELSE eval[e]
      BY <1>8 DEF Crash
    <3> QED BY <3>1, <3>2 DEF Evaluating, EvalType
  <2>4. \A e \in Evals : eval'[e].pc \notin {"idle", "failed"} => eval'[e].id \in Attempts /\ Past(eval[e].id)'
    <3> SUFFICES ASSUME NEW e \in Evals, eval'[e].pc \notin {"idle", "failed"}
                 PROVE  eval'[e].id \in Attempts /\ Past(eval[e].id)'
      OBVIOUS
    <3>1. PICK id : id = eval[e].id /\ id = eval'[e].id
      BY <2>3
    <3>2. id \in Attempts /\ Past(id)
      BY <2>3, <3>1 DEF InPlace
    <3>3. Past(id)'
      BY <2>2, <3>2
    <3> QED BY <3>1, <3>2, <3>3 DEF Past
  <2>5. \A n \in Attempts : Readable(n)' => Past(n)'
    BY <2>2 DEF InPlace
  <2>6. ~Without({"crash", "register"})'
    BY <2>1 DEF Without
  <2> QED BY <2>3, <2>4, <2>5, <2>6 DEF InPlace, EAt
<1> QED BY <1>1, <1>2, <1>4, <1>5, <1>6, <1>7, <1>8 DEF ANext
-----------------------------------------------------------------------------
(***************************************************************************)
(* The score of an adapter.  An eval adds up the rewards of its runs, one    *)
(* task after the other, and a run that ended keeps its reward.              *)
(***************************************************************************)

\* Induction over the numbers, for a set.
LEMMA SetInduction ==
  ASSUME NEW S, 0 \in S, \A n \in Nat : n \in S => n + 1 \in S
  PROVE  Nat \subseteq S
<1> DEFINE T == Nat \ S
           R == OpToRel(<, Nat)
<1> SUFFICES ASSUME T # {} PROVE FALSE
  OBVIOUS
<1>1. IsWellFoundedOn(R, Nat)
  BY NatLessThanWellFounded
<1>2. T \subseteq Nat
  OBVIOUS
<1>3. PICK x \in T : \A y \in T : ~(<<y, x>> \in R)
  <2> HIDE DEF T, R
  <2> QED BY <1>1, <1>2, WFMin
<1>4. x \in Nat /\ x # 0 /\ x \notin S
  BY <1>3
<1>5. x - 1 \in Nat /\ x - 1 < x /\ (x - 1) + 1 = x
  BY <1>4
<1>6. x - 1 \in T
  BY <1>4, <1>5
<1>7. <<x - 1, x>> \in R
  BY <1>4, <1>5 DEF OpToRel
<1> QED BY <1>3, <1>6, <1>7

\* total is the sum of the first n rewards.
SumsTo(runs, n, total) ==
  \E f \in [0..Tasks -> Int] :
    f[0] = 0 /\ (\A k \in 1..n : f[k] = f[k - 1] + runs[k].reward) /\ total = f[n]

\* SumOf adds them all.
LEMMA SumIsSum ==
  ASSUME NEW runs, NEW total, SumsTo(runs, Tasks, total)
  PROVE  SumOf(runs) = total
<1>1. PICK f \in [0..Tasks -> Int] :
        f[0] = 0 /\ (\A k \in 1..Tasks : f[k] = f[k - 1] + runs[k].reward) /\ total = f[Tasks]
  BY DEF SumsTo
<1>2. Tasks \in Nat
  BY Limits
<1> DEFINE Adds(g) == g = [k \in 0..Tasks |-> IF k = 0 THEN 0 ELSE g[k - 1] + runs[k].reward]
<1>3. Adds(f)
  <2>1. \A k \in 0..Tasks : k # 0 => k \in 1..Tasks
    BY <1>2
  <2> QED BY <1>1, <2>1
<1> DEFINE upto == CHOOSE g : Adds(g)
<1>4. Adds(upto)
  BY <1>3
<1>5. SumOf(runs) = upto[Tasks]
  BY DEF SumOf
<1> HIDE DEF upto
<1> DEFINE Same == {k \in Nat : k <= Tasks => upto[k] = f[k]}
<1>6. 0 \in Same
  BY <1>1, <1>2, <1>4
<1>7. ASSUME NEW k \in Nat, k \in Same PROVE k + 1 \in Same
  <2> SUFFICES ASSUME k + 1 <= Tasks PROVE upto[k + 1] = f[k + 1]
    BY <1>7
  <2>1. k + 1 \in 1..Tasks /\ k + 1 \in 0..Tasks /\ k + 1 # 0 /\ (k + 1) - 1 = k /\ k <= Tasks
    BY <1>2
  <2>2. upto[k + 1] = upto[k] + runs[k + 1].reward
    BY <1>4, <2>1
  <2>3. f[k + 1] = f[k] + runs[k + 1].reward
    BY <1>1, <2>1
  <2> QED BY <1>7, <2>1, <2>2, <2>3
<1>8. Tasks \in Same
  <2> HIDE DEF Same
  <2> QED BY <1>2, <1>6, <1>7, SetInduction
<1> QED BY <1>1, <1>2, <1>5, <1>8

\* Rewards that stay keep their sum.
LEMMA SumStays ==
  ASSUME NEW runs, NEW runs2, NEW n, NEW total, SumsTo(runs, n, total),
         \A k \in 1..n : runs2[k].reward = runs[k].reward
  PROVE  SumsTo(runs2, n, total)
BY DEF SumsTo

\* One more reward.
LEMMA SumGrows ==
  ASSUME NEW runs, NEW n \in 1..Tasks, NEW total, SumsTo(runs, n - 1, total), runs[n].reward \in Int
  PROVE  SumsTo(runs, n, total + runs[n].reward)
<1>1. PICK f \in [0..Tasks -> Int] :
        f[0] = 0 /\ (\A k \in 1..n - 1 : f[k] = f[k - 1] + runs[k].reward) /\ total = f[n - 1]
  BY DEF SumsTo
<1>2. Tasks \in Nat /\ n \in Int /\ n - 1 \in 0..Tasks /\ n \in 0..Tasks /\ n # 0 /\ n - 1 # n
  BY Limits
<1>3. f[n - 1] + runs[n].reward \in Int
  BY <1>1, <1>2
<1> DEFINE g == [f EXCEPT ![n] = f[n - 1] + runs[n].reward]
<1>4. g \in [0..Tasks -> Int] /\ g[n] = f[n - 1] + runs[n].reward
      /\ \A k \in 0..Tasks : k # n => g[k] = f[k]
  BY <1>1, <1>2, <1>3
<1> HIDE DEF g
<1>5. g[0] = 0 /\ g[n - 1] = f[n - 1]
  BY <1>1, <1>2, <1>4
<1>6. ASSUME NEW k \in 1..n PROVE g[k] = g[k - 1] + runs[k].reward
  <2>1. CASE k = n
    BY <1>4, <1>5, <2>1
  <2>2. CASE k # n
    <3>1. k \in 1..n - 1 /\ k \in 0..Tasks /\ k - 1 \in 0..Tasks /\ k - 1 # n
      BY <1>2, <2>2
    <3> QED BY <1>1, <1>4, <2>2, <3>1
  <2> QED BY <2>1, <2>2
<1>7. g[n] = total + runs[n].reward
  BY <1>1, <1>4
<1> QED BY <1>4, <1>5, <1>6, <1>7 DEF SumsTo

LEMMA SumOfNone ==
  ASSUME NEW runs PROVE SumsTo(runs, 0, 0)
<1>1. Tasks \in Nat
  BY Limits
<1> DEFINE f == [k \in 0..Tasks |-> 0]
<1>2. f \in [0..Tasks -> Int] /\ f[0] = 0
  BY <1>1
<1>3. 1..0 = {}
  OBVIOUS
<1> QED BY <1>2, <1>3 DEF SumsTo

\* What a step may do to a request: it moves on with its sum, adds the reward of a run
\* that ended, or ends.
Moved(e) ==
  \/ eval'[e] = eval[e]
  \/ /\ eval'[e].task = eval[e].task /\ eval'[e].sum = eval[e].sum
     /\ \/ eval[e].pc = "idle" /\ eval'[e].pc = "submit"
        \/ eval[e].pc = "submit" /\ eval'[e].pc = "register"
        \/ eval[e].pc = "register" /\ eval'[e].pc = "running"
        \/ /\ eval[e].pc \in {"register", "running"} /\ eval'[e].pc = "ended"
           /\ inline'[e][eval[e].task].status \in Final
  \/ /\ eval[e].pc = "ended" /\ ~Last(e) /\ eval'[e].pc = "submit"
     /\ eval'[e].task = eval[e].task + 1 /\ eval'[e].sum = Sum(e)
  \/ /\ eval[e].pc = "ended" /\ eval'[e].pc = "stamp"
     /\ [eval |-> e, id |-> eval'[e].id, sum |-> eval'[e].sum] \in reports'
  \/ /\ eval[e].pc = "stamp" /\ eval'[e].pc = "stamping"
     /\ eval'[e].id = eval[e].id /\ eval'[e].sum = eval[e].sum
  \/ eval[e].pc \in {"register", "running"} /\ eval'[e].pc = "broken"
  \/ eval'[e].pc \in {"failed", "dropped", "done"}

LEMMA RequestMoves ==
  ASSUME EInv, NEW e \in Evals,
         EvalStep(e) \/ Hangup(e) \/ (\E id \in Requested : GetAdapter(e, id))
  PROVE  Moved(e) /\ OnlyEval(e)
<1>1. /\ eval \in [Evals -> EvalType] /\ eval[e] \in EvalType /\ eval[e].task \in 1..Tasks
      /\ inline \in [Evals -> [1..Tasks -> InlineType]] /\ Run(e) \in InlineType
  BY DEF EInv, EvalType, Run
<1>2. ASSUME NEW pc, EGoto(e, pc)
      PROVE  /\ eval'[e].pc = pc /\ eval'[e].task = eval[e].task /\ eval'[e].sum = eval[e].sum
             /\ eval'[e].id = eval[e].id /\ OnlyEval(e)
  BY <1>1, <1>2 DEF EGoto, EvalType, OnlyEval
<1>3. ASSUME NEW run, Saved(e, run) PROVE inline'[e][eval[e].task] = run
  BY <1>1, <1>3 DEF Saved
<1>4. ASSUME NEW id \in Requested, GetAdapter(e, id) PROVE Moved(e) /\ OnlyEval(e)
  <2>1. /\ eval[e].pc = "idle" /\ eval'[e].pc \in {"submit", "failed"}
        /\ eval'[e].task = eval[e].task /\ eval'[e].sum = eval[e].sum /\ OnlyEval(e)
    BY <1>1, <1>4 DEF GetAdapter, EAt, EvalType, OnlyEval
  <2> QED BY <2>1 DEF Moved
<1>5. CASE Submit(e)
  <2>1. eval[e].pc = "submit" /\ (EGoto(e, "register") \/ EGoto(e, "failed"))
    BY <1>5 DEF Submit, EAt
  <2> QED BY <1>2, <2>1 DEF Moved
<1>6. CASE StartRun(e)
  <2>1. eval[e].pc = "register"
    BY <1>6 DEF StartRun, EAt
  <2>2. CASE EGoto(e, "running")
    BY <1>2, <2>1, <2>2 DEF Moved
  <2>3. CASE EGoto(e, "ended") /\ Saved(e, [Run(e) EXCEPT !.token = "live", !.status = "failed"])
    <3>1. [Run(e) EXCEPT !.token = "live", !.status = "failed"].status \in Final
      BY <1>1 DEF InlineType, Final
    <3>2. inline'[e][eval[e].task].status \in Final
      BY <1>3, <2>3, <3>1
    <3> QED BY <1>2, <2>1, <2>3, <3>2 DEF Moved
  <2>4. CASE EGoto(e, "broken")
    BY <1>2, <2>1, <2>4 DEF Moved
  <2> QED BY <1>6, <2>2, <2>3, <2>4 DEF StartRun
<1>7. CASE EndRun(e)
  <2>1. eval[e].pc = "running"
    BY <1>7 DEF EndRun, EAt
  <2>2. CASE EGoto(e, "broken")
    BY <1>2, <2>1, <2>2 DEF Moved
  <2>3. ASSUME NEW o \in Outcomes, EGoto(e, "ended"),
               Saved(e, [Run(e) EXCEPT !.status = o.status, !.reward = o.reward, !.cost = o.cost])
        PROVE  Moved(e) /\ OnlyEval(e)
    <3>1. [Run(e) EXCEPT !.status = o.status, !.reward = o.reward, !.cost = o.cost].status \in Final
      BY <1>1, AdaptersAssumption DEF InlineType
    <3>2. inline'[e][eval[e].task].status \in Final
      BY <1>3, <2>3, <3>1
    <3> QED BY <1>2, <2>1, <2>3, <3>2 DEF Moved
  <2> QED BY <1>7, <2>2, <2>3 DEF EndRun
<1>8. CASE Unregister(e)
  <2>1. CASE EGoto(e, "failed")
    BY <1>2, <2>1 DEF Moved
  <2>2. CASE /\ eval[e].pc = "ended" /\ eval' = [eval EXCEPT ![e] = After(e)]
             /\ reports' = IF Last(e) THEN reports \cup {[eval |-> e, id |-> eval[e].id, sum |-> Sum(e)]}
                           ELSE reports
    <3>1. eval'[e] = After(e) /\ OnlyEval(e)
      BY <1>1, <2>2 DEF OnlyEval
    <3>2. CASE Last(e)
      <4>1. After(e).pc = "stamp" /\ After(e).id = eval[e].id /\ After(e).sum = Sum(e)
        BY <1>1, <3>2 DEF After, EvalType
      <4> QED BY <2>2, <3>1, <3>2, <4>1 DEF Moved
    <3>3. CASE ~Last(e)
      <4>1. After(e).pc = "submit" /\ After(e).task = eval[e].task + 1 /\ After(e).sum = Sum(e)
        BY <1>1, <3>3 DEF After, EvalType
      <4> QED BY <2>2, <3>1, <3>3, <4>1 DEF Moved
    <3> QED BY <3>2, <3>3
  <2> QED BY <1>8, <2>1, <2>2 DEF Unregister, EAt
<1>9. CASE StampBegin(e)
  <2>1. eval[e].pc = "stamp" /\ EGoto(e, "stamping")
    BY <1>9 DEF StampBegin, EAt
  <2> QED BY <1>2, <2>1 DEF Moved
<1>10. CASE Stamp(e)
  <2>1. EGoto(e, "done") \/ EGoto(e, "failed")
    BY <1>10 DEF Stamp
  <2> QED BY <1>2, <2>1 DEF Moved
<1>11. CASE Hangup(e)
  <2>1. EGoto(e, "dropped")
    BY <1>11 DEF Hangup
  <2> QED BY <1>2, <2>1 DEF Moved
<1>12. ASSUME NEW k \in 1..Tasks, CancelAct(e, k) PROVE Moved(e) /\ OnlyEval(e)
  BY <1>12 DEF CancelAct, Moved, OnlyEval
<1> QED BY <1>4, <1>5, <1>6, <1>7, <1>8, <1>9, <1>10, <1>11, <1>12 DEF EvalStep

\* The run of a task keeps its reward, and stays ended, but for the request that is at
\* the task and has not ended the run yet.
Kept(e, k) ==
  /\ inline'[e][k].reward = inline[e][k].reward
  /\ inline[e][k].status \in Final => inline'[e][k].status \in Final

LEMMA RunStays ==
  ASSUME EInv, NEW e \in Evals,
         EvalStep(e) \/ Hangup(e) \/ (\E id \in Requested : GetAdapter(e, id))
           \/ (\E k \in 1..Tasks : CancelRead(e, k)),
         NEW f \in Evals, NEW k \in 1..Tasks,
         ~(f = e /\ k = eval[e].task /\ eval[e].pc \in {"submit", "register", "running"})
  PROVE  Kept(f, k)
<1>1. /\ inline \in [Evals -> [1..Tasks -> InlineType]] /\ eval[e].task \in 1..Tasks
      /\ inline[f][k] \in InlineType
  BY DEF EInv, EvalType
<1>2. ASSUME inline' = inline PROVE Kept(f, k)
  BY <1>2 DEF Kept
<1>3. ASSUME NEW run, NEW i \in 1..Tasks, inline' = [inline EXCEPT ![e][i] = run],
             f = e /\ k = i => run.reward = inline[f][k].reward
                               /\ (inline[f][k].status \in Final => run.status \in Final)
      PROVE  Kept(f, k)
  <2>1. CASE f = e /\ k = i
    BY <1>1, <1>3, <2>1 DEF Kept
  <2>2. CASE ~(f = e /\ k = i)
    <3>1. inline'[f][k] = inline[f][k]
      BY <1>1, <1>3, <2>2
    <3> QED BY <3>1 DEF Kept
  <2> QED BY <2>1, <2>2
<1>4. ASSUME NEW run, Saved(e, run), ~(f = e /\ k = eval[e].task) PROVE Kept(f, k)
  BY <1>1, <1>3, <1>4 DEF Saved
<1>5. CASE Submit(e) \/ StartRun(e) \/ EndRun(e)
  <2>1. ~(f = e /\ k = eval[e].task)
    BY <1>5 DEF Submit, StartRun, EndRun, EAt
  <2>2. inline' = inline \/ \E run : Saved(e, run)
    BY <1>5 DEF Submit, StartRun, EndRun
  <2> QED BY <1>2, <1>4, <2>1, <2>2
<1>6. CASE Unregister(e)
  <2>1. inline' = [inline EXCEPT ![e][eval[e].task] = Forgotten(Run(e))]
    BY <1>6 DEF Unregister, Saved
  <2>2. f = e /\ k = eval[e].task => /\ Forgotten(Run(e)).reward = inline[f][k].reward
                                     /\ Forgotten(Run(e)).status = inline[f][k].status
    BY <1>1 DEF Forgotten, Run, InlineType
  <2> QED BY <1>1, <1>3, <2>1, <2>2
<1>7. CASE StampBegin(e) \/ Stamp(e) \/ Hangup(e) \/ (\E id \in Requested : GetAdapter(e, id))
  BY <1>2, <1>7 DEF StampBegin, Stamp, Hangup, GetAdapter
<1>8. ASSUME NEW i \in 1..Tasks, CancelRead(e, i) PROVE Kept(f, k)
  <2> DEFINE run == [inline[e][i] EXCEPT !.cancel = inline[e][i].status]
  <2>1. inline' = [inline EXCEPT ![e][i] = run]
    BY <1>1, <1>8 DEF CancelRead
  <2>2. f = e /\ k = i => run.reward = inline[f][k].reward /\ run.status = inline[f][k].status
    BY <1>1 DEF InlineType
  <2> HIDE DEF run
  <2> QED BY <1>3, <2>1, <2>2
<1>9. ASSUME NEW i \in 1..Tasks, CancelAct(e, i) PROVE Kept(f, k)
  <2>1. CASE inline' = [inline EXCEPT ![e][i] = Cancelled(inline[e][i])]
    <3>1. f = e /\ k = i => /\ Cancelled(inline[e][i]).reward = inline[f][k].reward
                            /\ inline[f][k].status \in Final => Cancelled(inline[e][i]).status \in Final
      BY <1>1 DEF Cancelled, InlineType, Final
    <3> QED BY <1>3, <2>1, <3>1
  <2>2. CASE inline' = [inline EXCEPT ![e][i].cancel = "none"]
    <3> DEFINE run == [inline[e][i] EXCEPT !.cancel = "none"]
    <3>1. inline' = [inline EXCEPT ![e][i] = run]
      BY <1>1, <2>2
    <3>2. f = e /\ k = i => run.reward = inline[f][k].reward /\ run.status = inline[f][k].status
      BY <1>1 DEF InlineType
    <3> HIDE DEF run
    <3> QED BY <1>3, <3>1, <3>2
  <2> QED BY <1>9, <2>1, <2>2 DEF CancelAct
<1> QED BY <1>5, <1>6, <1>7, <1>8, <1>9 DEF EvalStep

\* The sum of a request that goes on, its runs that ended, and the report it made.
Open   == {"idle", "submit", "register", "running", "ended"}
Closed == {"stamp", "stamping", "done", "failed", "dropped"}

AddsUp(e) ==
  /\ eval[e].pc \in Open =>
       /\ SumsTo(inline[e], eval[e].task - 1, eval[e].sum)
       /\ \A k \in 1..Tasks : k < eval[e].task => inline[e][k].status \in Final
  /\ eval[e].pc = "ended" => inline[e][eval[e].task].status \in Final
  /\ eval[e].pc \in {"stamp", "stamping"} => [eval |-> e, id |-> eval[e].id, sum |-> eval[e].sum] \in reports

Backed(r) ==
  /\ eval[r.eval].pc \in Closed
  /\ SumsTo(inline[r.eval], Tasks, r.sum)
  /\ \A k \in 1..Tasks : inline[r.eval][k].status \in Final

Scored(id) ==
  Readable(id) /\ manifest[id].scored => \E r \in reports : r.id = id /\ r.sum = manifest[id].score

Summed ==
  /\ \A e \in Evals : AddsUp(e)
  /\ \A r \in reports : Backed(r)
  /\ \A id \in Attempts : Scored(id)

LEMMA AddsUpStep ==
  ASSUME EInv, Summed, NEW e \in Evals, Moved(e), reports \subseteq reports',
         \A k \in 1..Tasks :
           ~(k = eval[e].task /\ eval[e].pc \in {"submit", "register", "running"}) => Kept(e, k)
  PROVE  AddsUp(e)'
<1>1. /\ eval[e].task \in 1..Tasks /\ eval[e].pc \in EvalPc /\ eval[e].task \in Int /\ Tasks \in Nat
      /\ Run(e).reward \in Int
  BY Limits DEF EInv, EvalType, InlineType, Run
<1>2. AddsUp(e)
  BY DEF Summed
\* The tasks before keep their rewards and ends.
<1>3. \A k \in 1..Tasks : k < eval[e].task => Kept(e, k)
  BY <1>1
<1>4. eval[e].pc \in Open => SumsTo(inline'[e], eval[e].task - 1, eval[e].sum)
  <2>1. \A k \in 1..eval[e].task - 1 : inline'[e][k].reward = inline[e][k].reward
    BY <1>1, <1>3 DEF Kept
  <2>2. eval[e].pc \in Open => SumsTo(inline[e], eval[e].task - 1, eval[e].sum)
    BY <1>2 DEF AddsUp
  <2> QED BY <2>1, <2>2, SumStays
<1>5. eval[e].pc \in Open => \A k \in 1..Tasks : k < eval[e].task => inline'[e][k].status \in Final
  BY <1>2, <1>3 DEF AddsUp, Kept
<1>6. eval[e].pc = "ended" => inline'[e][eval[e].task].status \in Final
                              /\ inline'[e][eval[e].task].reward = Run(e).reward
  BY <1>1, <1>2 DEF AddsUp, Kept, Run
<1>7. CASE eval'[e] = eval[e]
  BY <1>2, <1>4, <1>5, <1>6, <1>7 DEF AddsUp
<1>8. CASE /\ eval'[e].task = eval[e].task /\ eval'[e].sum = eval[e].sum
           /\ \/ eval[e].pc = "idle" /\ eval'[e].pc = "submit"
              \/ eval[e].pc = "submit" /\ eval'[e].pc = "register"
              \/ eval[e].pc = "register" /\ eval'[e].pc = "running"
              \/ /\ eval[e].pc \in {"register", "running"} /\ eval'[e].pc = "ended"
                 /\ inline'[e][eval[e].task].status \in Final
  <2>1. eval[e].pc \in Open /\ eval'[e].pc \notin {"stamp", "stamping"}
    BY <1>8 DEF Open
  <2>2. eval'[e].pc = "ended" => inline'[e][eval'[e].task].status \in Final
    BY <1>8
  <2> QED BY <1>4, <1>5, <1>8, <2>1, <2>2 DEF AddsUp
<1>9. CASE /\ eval[e].pc = "ended" /\ ~Last(e) /\ eval'[e].pc = "submit"
           /\ eval'[e].task = eval[e].task + 1 /\ eval'[e].sum = Sum(e)
  <2>1. SumsTo(inline'[e], eval[e].task, eval[e].sum + inline'[e][eval[e].task].reward)
    BY <1>1, <1>4, <1>6, <1>9, SumGrows DEF Open
  <2>2. SumsTo(inline'[e], eval'[e].task - 1, eval'[e].sum)
    BY <1>1, <1>6, <1>9, <2>1 DEF Sum
  <2>3. \A k \in 1..Tasks : k < eval'[e].task => inline'[e][k].status \in Final
    <3>1. \A k \in 1..Tasks : k < eval[e].task + 1 => k < eval[e].task \/ k = eval[e].task
      BY <1>1
    <3> QED BY <1>5, <1>6, <1>9, <3>1 DEF Open
  <2> QED BY <1>9, <2>2, <2>3 DEF AddsUp
<1>10. CASE /\ eval[e].pc = "ended" /\ eval'[e].pc = "stamp"
            /\ [eval |-> e, id |-> eval'[e].id, sum |-> eval'[e].sum] \in reports'
  BY <1>10 DEF AddsUp, Open
<1>11. CASE /\ eval[e].pc = "stamp" /\ eval'[e].pc = "stamping"
            /\ eval'[e].id = eval[e].id /\ eval'[e].sum = eval[e].sum
  BY <1>2, <1>11 DEF AddsUp, Open
<1>12. CASE \/ eval[e].pc \in {"register", "running"} /\ eval'[e].pc = "broken"
            \/ eval'[e].pc \in {"failed", "dropped", "done"}
  BY <1>12 DEF AddsUp, Open
<1> QED BY <1>7, <1>8, <1>9, <1>10, <1>11, <1>12 DEF Moved

\* A report that is kept stays backed; a request that made one is closed for good.
LEMMA BackedStays ==
  ASSUME EInv, NEW r, r.eval \in Evals, Backed(r), Moved(r.eval),
         \A k \in 1..Tasks :
           ~(k = eval[r.eval].task /\ eval[r.eval].pc \in {"submit", "register", "running"}) => Kept(r.eval, k)
  PROVE  Backed(r)'
<1>1. PICK e \in Evals : e = r.eval
  OBVIOUS
<1>2. eval[e].pc \in Closed
  BY <1>1 DEF Backed
<1>3. \A k \in 1..Tasks : Kept(e, k)
  BY <1>1, <1>2 DEF Closed
<1>4. eval'[e].pc \in Closed
  BY <1>1, <1>2 DEF Moved, Closed
<1>5. SumsTo(inline'[e], Tasks, r.sum)
  <2>1. SumsTo(inline[e], Tasks, r.sum)
    BY <1>1 DEF Backed
  <2>2. \A k \in 1..Tasks : inline'[e][k].reward = inline[e][k].reward
    BY <1>3 DEF Kept
  <2> QED BY <2>1, <2>2, SumStays
<1>6. \A k \in 1..Tasks : inline'[e][k].status \in Final
  BY <1>1, <1>3 DEF Backed, Kept
<1> QED BY <1>1, <1>4, <1>5, <1>6 DEF Backed

\* The report of the last task.
LEMMA ReportIsBacked ==
  ASSUME EInv, Summed, NEW e \in Evals, eval[e].pc = "ended", Last(e),
         eval'[e].pc \in Closed, \A k \in 1..Tasks : Kept(e, k),
         NEW r, r.eval = e, r.sum = Sum(e)
  PROVE  Backed(r)'
<1>1. eval[e].task = Tasks /\ Tasks \in 1..Tasks /\ Run(e).reward \in Int /\ Tasks \in Nat
  BY Limits DEF Last, EInv, EvalType, InlineType, Run
<1>2. /\ SumsTo(inline[e], Tasks - 1, eval[e].sum)
      /\ \A k \in 1..Tasks : k < Tasks => inline[e][k].status \in Final
      /\ inline[e][Tasks].status \in Final
  BY <1>1 DEF Summed, AddsUp, Open
<1>3. SumsTo(inline[e], Tasks, Sum(e))
  <2>1. inline[e][Tasks].reward \in Int /\ Sum(e) = eval[e].sum + inline[e][Tasks].reward
    BY <1>1 DEF Sum, Run
  <2>2. SumsTo(inline[e], Tasks, eval[e].sum + inline[e][Tasks].reward)
    BY <1>1, <1>2, <2>1, SumGrows
  <2> QED BY <2>1, <2>2
<1>4. SumsTo(inline'[e], Tasks, r.sum)
  <2>1. \A k \in 1..Tasks : inline'[e][k].reward = inline[e][k].reward
    BY DEF Kept
  <2> QED BY <1>3, <2>1, SumStays
<1>5. \A k \in 1..Tasks : inline[e][k].status \in Final
  <2>1. \A k \in 1..Tasks : k < Tasks \/ k = Tasks
    BY <1>1
  <2> QED BY <1>2, <2>1
<1>6. \A k \in 1..Tasks : inline'[e][k].status \in Final
  BY <1>5 DEF Kept
<1> QED BY <1>4, <1>6 DEF Backed

LEMMA SummedRequestStep ==
  ASSUME EInv, MInv, Summed, NEW e \in Evals,
         EvalStep(e) \/ Hangup(e) \/ (\E id \in Requested : GetAdapter(e, id))
           \/ (\E k \in 1..Tasks : CancelRead(e, k))
  PROVE  Summed'
<1>1. Moved(e) /\ OnlyEval(e)
  <2>1. ASSUME NEW k \in 1..Tasks, CancelRead(e, k) PROVE Moved(e) /\ OnlyEval(e)
    BY <2>1 DEF CancelRead, Moved, OnlyEval
  <2> QED BY <2>1, RequestMoves
<1>2. \A f \in Evals : Moved(f)
  BY <1>1 DEF OnlyEval, Moved
<1>3. \A f \in Evals, k \in 1..Tasks :
        ~(k = eval[f].task /\ eval[f].pc \in {"submit", "register", "running"}) => Kept(f, k)
  BY RunStays
<1>4. /\ reports \subseteq reports'
      /\ \A r \in reports' \ reports :
           /\ eval[e].pc = "ended" /\ Last(e) /\ eval'[e].pc \in Closed
           /\ r.eval = e /\ r.sum = Sum(e)
  <2>1. CASE ~Unregister(e)
    BY <2>1 DEF EvalStep, Hangup, Submit, StartRun, EndRun, StampBegin, Stamp, CancelAct, GetAdapter,
                CancelRead
  <2>2. CASE Unregister(e) /\ reports' = reports
    BY <2>2
  <2>3. CASE /\ EAt(e, "ended") /\ eval' = [eval EXCEPT ![e] = After(e)]
             /\ reports' = IF Last(e) THEN reports \cup {[eval |-> e, id |-> eval[e].id, sum |-> Sum(e)]}
                           ELSE reports
    <3>1. Last(e) => eval'[e].pc \in Closed
      BY <2>3 DEF After, EInv, EvalType, Closed
    <3> QED BY <2>3, <3>1 DEF EAt
  <2> QED BY <2>1, <2>2, <2>3 DEF Unregister
<1>5. \A f \in Evals : AddsUp(f)'
  BY <1>2, <1>3, <1>4, AddsUpStep
<1>6. \A r \in reports' : Backed(r)'
  <2>1. ASSUME NEW r \in reports PROVE Backed(r)'
    <3>1. r.eval \in Evals /\ Backed(r)
      BY DEF MInv, Summed
    <3> QED BY <1>2, <1>3, <3>1, BackedStays
  <2>2. ASSUME NEW r \in reports' \ reports PROVE Backed(r)'
    <3>1. /\ eval[e].pc = "ended" /\ Last(e) /\ eval'[e].pc \in Closed
          /\ r.eval = e /\ r.sum = Sum(e)
      BY <1>4
    <3>2. \A k \in 1..Tasks : Kept(e, k)
      BY <1>3, <3>1
    <3> QED BY <3>1, <3>2, ReportIsBacked
  <2> QED BY <2>1, <2>2
<1>7. ASSUME NEW id \in Attempts, Readable(id)', manifest'[id].scored
      PROVE  \E r \in reports' : r.id = id /\ r.sum = manifest'[id].score
  <2>1. CASE manifest'[id] = manifest[id]
    BY <1>4, <1>7, <2>1 DEF Summed, Scored, Readable
  <2>2. CASE StampBegin(e)
    <3>1. manifest' = [manifest EXCEPT ![eval[e].id] = Torn] /\ Torn.kind # "file"
      BY <2>2 DEF StampBegin, Torn
    <3> QED BY <1>7, <2>1, <3>1 DEF Readable, MInv
  <2>3. CASE Stamp(e)
    <3>1. CASE manifest' = manifest
      BY <2>1, <3>1
    <3>2. ASSUME NEW file \in Stamped(e), manifest' = [manifest EXCEPT ![eval[e].id] = file],
                 id = eval[e].id
          PROVE  \E r \in reports' : r.id = id /\ r.sum = manifest'[id].score
      <4> DEFINE mine == [eval[e].read EXCEPT !.scored = TRUE, !.score = eval[e].sum]
      <4>1. manifest'[id] = file
        BY <3>2 DEF MInv
      <4>2. file = mine
        <5>1. file = mine \/ file = Torn
          BY DEF Stamped
        <5>2. Torn.kind # "file"
          BY DEF Torn
        <5> QED BY <1>7, <4>1, <5>1, <5>2 DEF Readable
      <4>3. mine.score = eval[e].sum
        BY <2>3 DEF Stamp, EAt, MInv, Files
      <4>4. [eval |-> e, id |-> eval[e].id, sum |-> eval[e].sum] \in reports
        BY <2>3 DEF Stamp, EAt, Summed, AddsUp
      <4> QED BY <1>4, <3>2, <4>1, <4>2, <4>3, <4>4
    <3>3. ASSUME NEW file \in Stamped(e), manifest' = [manifest EXCEPT ![eval[e].id] = file],
                 id # eval[e].id
          PROVE  manifest'[id] = manifest[id]
      BY <3>3 DEF MInv
    <3> QED BY <2>1, <2>3, <3>1, <3>2, <3>3 DEF Stamp
  <2>4. CASE ~StampBegin(e) /\ ~Stamp(e)
    <3>1. manifest' = manifest
      BY <2>4 DEF EvalStep, Hangup, Submit, StartRun, EndRun, Unregister, CancelAct, GetAdapter,
                  CancelRead
    <3> QED BY <2>1, <3>1
  <2> QED BY <2>2, <2>3, <2>4
<1> QED BY <1>5, <1>6, <1>7 DEF Summed, Scored

LEMMA SummedStep == TInv /\ EInv /\ MInv /\ Summed /\ [ANext]_avars => Summed'
<1> SUFFICES ASSUME TInv, EInv, MInv, Summed, [ANext]_avars PROVE Summed'
  OBVIOUS
<1>1. ASSUME NEW e \in Evals,
             EvalStep(e) \/ Hangup(e) \/ (\E id \in Requested : GetAdapter(e, id))
               \/ (\E k \in 1..Tasks : CancelRead(e, k))
      PROVE  Summed'
  BY <1>1, SummedRequestStep
\* What leaves the evals alone, and writes no score.
<1>2. ASSUME UNCHANGED <<eval, inline, reports>>,
             \A id \in Attempts : manifest'[id] = manifest[id] \/ ~(Readable(id)' /\ manifest'[id].scored)
      PROVE  Summed'
  <2>1. \A e \in Evals : AddsUp(e)'
    BY <1>2 DEF Summed, AddsUp
  <2>2. \A r \in reports' : Backed(r)'
    BY <1>2 DEF Summed, Backed
  <2>3. \A id \in Attempts : Scored(id)'
    BY <1>2 DEF Summed, Scored, Readable
  <2> QED BY <2>1, <2>2, <2>3 DEF Summed
<1>3. ASSUME UNCHANGED <<eval, inline, reports, manifest>> PROVE Summed'
  BY <1>2, <1>3
<1>4. ASSUME NEW n \in Attempts, TrainStep(n) PROVE Summed'
  <2>1. UNCHANGED <<eval, inline, reports>>
    BY <1>4 DEF TrainStep, TrainBegin, Metric, TrainerEnds, Truncate, Write, SaveTrained, PublishAdapter,
                SaveFailed, FinishTraining, evars
  <2>2. manifest' = manifest \/ \E file \in {Torn, Unscored} : manifest' = [manifest EXCEPT ![n] = file]
    BY <1>4 DEF TrainStep, TrainBegin, Metric, TrainerEnds, Truncate, Write, SaveTrained, PublishAdapter,
                SaveFailed, FinishTraining
  <2>3. Torn.kind # "file" /\ ~Unscored.scored
    BY DEF Torn, Unscored
  <2>4. CASE manifest' = manifest
    BY <1>3, <2>1, <2>4
  <2>5. ASSUME NEW file \in {Torn, Unscored}, manifest' = [manifest EXCEPT ![n] = file]
        PROVE  \A id \in Attempts : manifest'[id] = manifest[id] \/ ~(Readable(id)' /\ manifest'[id].scored)
    <3>1. \A id \in Attempts : manifest'[id] = IF id = n THEN file ELSE manifest[id]
      BY <2>5 DEF MInv
    <3>2. file.kind # "file" \/ ~file.scored
      BY <2>3, <2>5
    <3> QED BY <3>1, <3>2 DEF Readable
  <2> QED BY <1>2, <2>1, <2>2, <2>4, <2>5
<1>5. CASE SaveQueuedRecord \/ EnqueueTraining \/ LeaseAgain \/ Exhausted \/ LoseLease \/ Reload \/ Window \/ UNCHANGED avars
  BY <1>3, <1>5
     DEF SaveQueuedRecord, EnqueueTraining, LeaseAgain, Exhausted, LoseLease, Reload, Window, avars, evars
<1>6. ASSUME NEW s \in Slots, SlotStep(s) PROVE Summed'
  BY <1>3, <1>6 DEF SlotStep, evars
<1>7. CASE Crash
  <2>1. UNCHANGED <<reports, manifest>>
    BY <1>7 DEF Crash
  <2>2. ASSUME NEW e \in Evals, NEW k \in 1..Tasks PROVE Kept(e, k)
    <3>1. inline[e][k] \in InlineType
      BY DEF EInv
    <3>2. inline'[e][k] = [inline[e][k] EXCEPT !.token = "none", !.cancel = "none"]
      BY <1>7 DEF Crash
    <3> QED BY <3>1, <3>2 DEF InlineType, Kept
  <2>3. ASSUME NEW e \in Evals PROVE Moved(e)
    <3>1. eval[e] \in EvalType /\ eval'[e] = IF Evaluating(e) THEN [eval[e] EXCEPT !.pc = "dropped"] ELSE eval[e]
      BY <1>7 DEF Crash, EInv
    <3> QED BY <3>1 DEF Moved, EvalType
  <2>4. \A e \in Evals : AddsUp(e)'
    BY <2>1, <2>2, <2>3, AddsUpStep
  <2>5. \A r \in reports' : Backed(r)'
    <3>1. \A r \in reports : r.eval \in Evals /\ Backed(r)
      BY DEF MInv, Summed
    <3> QED BY <2>1, <2>2, <2>3, <3>1, BackedStays
  <2>6. \A id \in Attempts : Scored(id)'
    BY <2>1 DEF Summed, Scored, Readable
  <2> QED BY <2>4, <2>5, <2>6 DEF Summed
<1> QED BY <1>1, <1>4, <1>5, <1>6, <1>7 DEF ANext
-----------------------------------------------------------------------------
\* The inductive invariant of training, publishing and evaluation.
RInv == AInv /\ InTurn /\ Made /\ Rows /\ Told /\ InPlace /\ Summed

LEMMA RInit == AInit => RInv
<1> SUFFICES ASSUME AInit PROVE RInv
  OBVIOUS
<1>1. AInv
  BY BInitInv, TInit, EvalInit DEF AInit, AInv
<1>2. /\ \A n \in Attempts : train[n].pc = "idle" /\ ~train[n].error
      /\ record.status = "absent" /\ ~record.error /\ job = "absent" /\ leased = 1
      /\ published = {} /\ reports = {} /\ 1 \in Attempts
      /\ \A id \in Attempts : manifest[id].kind = "absent"
      /\ \A e \in Evals : eval[e].pc = "idle" /\ eval[e].task = 1 /\ eval[e].sum = 0
  BY Limits DEF AInit, Waiting, Absent, NoEval
<1>3. InTurn
  BY <1>2 DEF InTurn, TAt, Training, Final
<1>4. Made
  BY <1>2 DEF Made
<1>9. Rows
  BY Limits DEF AInit, Rows, Attempts
<1>5. Told
  BY <1>2 DEF Told, LastSaved, LastFailed, FirstSaved, TAt
<1>6. InPlace
  BY <1>2 DEF InPlace, Readable, EAt
<1>7. \A e \in Evals : AddsUp(e)
  <2> SUFFICES ASSUME NEW e \in Evals PROVE AddsUp(e)
    OBVIOUS
  <2>1. SumsTo(inline[e], eval[e].task - 1, eval[e].sum)
    <3>1. eval[e].task - 1 = 0 /\ eval[e].sum = 0
      BY <1>2
    <3> QED BY <3>1, SumOfNone
  <2>2. \A k \in 1..Tasks : ~(k < eval[e].task)
    BY <1>2, Limits
  <2> QED BY <1>2, <2>1, <2>2 DEF AddsUp
<1>8. Summed
  BY <1>2, <1>7 DEF Summed, Scored, Readable
<1> QED BY <1>1, <1>3, <1>4, <1>5, <1>6, <1>8, <1>9 DEF RInv

THEOREM RecordsInvariant == ASpec => []RInv
<1>1. RInv /\ [ANext]_avars => RInv'
  <2> SUFFICES ASSUME RInv, [ANext]_avars PROVE RInv'
    OBVIOUS
  <2>1. AInv' /\ TInv /\ PInv /\ EInv /\ MInv
    BY AStep DEF RInv, AInv
  <2>2. InTurn' /\ Made' /\ Rows' /\ Told'
    BY <2>1, InTurnStep, MadeStep, RowsStep, ToldStep DEF RInv
  <2>3. InPlace' /\ Summed'
    BY <2>1, InPlaceStep, SummedStep DEF RInv
  <2> QED BY <2>1, <2>2, <2>3 DEF RInv
<1> QED BY <1>1, RInit, PTL DEF ASpec

\* A completed training run has its adapter, and at every step that its attempt reported
\* the row of that attempt, unless attempts overlapped; its job and its error follow it
\* but for the failures that Followed names (TrainingService::execute,
\* run_training_job): for any number of attempts and of reported points.
THEOREM TrainingRecordKept == ASpec => []TrainingRecordTrue
<1>1. RInv => TrainingRecordTrue
  <2> SUFFICES ASSUME RInv PROVE TrainingRecordTrue
    OBVIOUS
  <2>1. Without({"overlap"}) => ~Overlapped
    BY DEF Without, Overlapped
  <2>2. Owned
    BY <2>1 DEF RInv, Made, Told, LastSaved, Owned
  <2>3. Followed
    BY <2>1 DEF RInv, Told, LastSaved, LastFailed, FirstSaved, Followed
  <2> QED BY <2>2, <2>3 DEF TrainingRecordTrue
<1> QED BY <1>1, RecordsInvariant, PTL

\* What was announced or loaded can be read back and its training run names it
\* (AdapterRegistry::register, the reloader), over any number of evals that rewrite the
\* manifests, unless a crash, a failed write, a lost lease or a lost finish_job explains it.
THEOREM PublishedKept == ASpec => []PublishedIsDurable
<1>1. RInv => PublishedIsDurable
  <2> SUFFICES ASSUME RInv, NEW id \in published \cup loaded
               PROVE  /\ Readable(id) \/ Rewritten(id) \/ ~Without({"crash", "register"})
                      /\ Without({"crash", "overlap", "finish"}) => record.status = "completed" /\ record.out = id
    BY DEF PublishedIsDurable
  <2>1. id \in published /\ id \in Attempts
    BY DEF RInv, AInv, PInv
  <2>2. Readable(id) \/ Rewritten(id) \/ ~Without({"crash", "register"})
    BY <2>1 DEF RInv, InPlace
  <2>3. Without({"crash", "overlap", "finish"}) => record.status = "completed" /\ record.out = id
    BY <2>1 DEF RInv, Told, FirstSaved
  <2> QED BY <2>2, <2>3
<1> QED BY <1>1, RecordsInvariant, PTL

\* The score of an adapter is that of a stored report, and a report holds the sum of the
\* rewards of its runs, all of them ended (EvalHarness::run), for any number of tasks.
THEOREM ScoreKept == ASpec => []ScoreHasReport
<1>1. RInv => ScoreHasReport
  <2> SUFFICES ASSUME RInv PROVE ScoreHasReport
    OBVIOUS
  <2>1. \A id \in Attempts : Readable(id) /\ manifest[id].scored =>
          \E r \in reports : r.id = id /\ r.sum = manifest[id].score
    BY DEF RInv, Summed, Scored
  <2>2. ASSUME NEW r \in reports
        PROVE  /\ \A k \in 1..Tasks : inline[r.eval][k].status \in Final
               /\ r.sum = SumOf(inline[r.eval])
    <3>1. Backed(r)
      BY DEF RInv, Summed
    <3> QED BY <3>1, SumIsSum DEF Backed
  <2> QED BY <2>1, <2>2 DEF ScoreHasReport
<1> QED BY <1>1, RecordsInvariant, PTL
=============================================================================

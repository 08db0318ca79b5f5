------------------------- MODULE RolloutLoopProofs -------------------------
(***************************************************************************)
(* What the attempts of a run leave behind, for any number of attempts,     *)
(* turns, answers of the policy and of the bridge, budgets, channel sizes   *)
(* and disturbances: the shape of the state and the reward's bounds, the    *)
(* workspaces, the token budget, the training rows and the trajectory that  *)
(* a run keeps.                                                             *)
(*                                                                          *)
(* Most of the argument is about one attempt by itself: Local says of its   *)
(* record what its place in the code implies.  The rest relates the attempt *)
(* that holds the lease to the run, the workspace and the training rows.    *)
(***************************************************************************)
EXTENDS RolloutLoop, FiniteSetTheorems, SequenceTheorems, TLAPS

RepoPlaces      == {"mkdir", "snapshot", "top", "asking", "acting", "sending", "returned"}
VerifiersPlaces == {"check", "permit", "calling", "storing"}
Ended           == {"closing", "done"}

UpToOne == {r \in Int : -10000 <= r /\ r <= 10000}

RewardSet ==
  [terminal : UpToOne, rubric : Rubrics \cup {"verifiers"},
   flags : SUBSET {"requires-manual-audit", "no-success-criteria-match"}]

BridgeRewards == {w \in RewardSet : w.rubric = "verifiers"}

AttemptSet ==
  [pc : Stop \cup RepoPlaces \cup VerifiersPlaces \cup Ended,
   turn : 0..Horizon, tries : Nat, tokens : Nat, last : Nat,
   answer : Answers \cup {NoAnswer}, steps : Seq(Step), sent : Nat, received : Nat,
   result : {"none", "error"} \cup Ending, errors : Nat,
   reward : {NoReward} \cup BridgeRewards, permit : BOOLEAN,
   signalled : BOOLEAN, base : Nat]

RowSet ==
  [status : {"queued", "running"} \cup Ending, steps : [Slots -> Step \cup {NoStep}],
   count : Nat, tokens : Nat, errors : Nat, reward : {NoReward} \cup RewardSet,
   by : 0..MaxAttempts]

-----------------------------------------------------------------------------
(***************************************************************************)
(* One attempt by itself                                                   *)
(***************************************************************************)

\* An attempt that has not begun, or that a crash took, left nothing in memory;
\* the other places belong to one kind of profile; only an attempt that has left
\* its loop knows how it ends.
InPlace(k, kind) ==
  /\ k.pc = "idle" => k = Fresh
  /\ k.pc = "dead" => k = [Fresh EXCEPT !.pc = "dead"]
  /\ k.pc \in RepoPlaces => kind = "repo"
  /\ k.pc \in VerifiersPlaces => kind = "verifiers"
  /\ k.result = "none" <=> k.pc \notin {"returned"} \cup Ended

\* What is on the channel: nothing once the attempt is over.  A repo attempt has
\* two steps per turn and sends everything of a turn before it goes on.  The
\* messages of a verifiers attempt are the steps it appends.
OnChannel(k, kind) ==
  /\ k.received <= k.sent
  /\ k.pc \in Stop => k.received = k.sent
  /\ kind = "repo" =>
       /\ k.sent - k.received <= Capacity
       /\ Len(k.steps) = 2 * k.turn
       /\ k.sent <= PerTurn * k.turn
       /\ k.pc # "sending" => k.sent = PerTurn * k.turn
  /\ kind = "verifiers" =>
       /\ DOMAIN k.steps \subseteq Slots
       /\ k.pc \in {"check", "permit", "calling"} => k.sent = 0
       /\ k.pc = "storing" => k.sent = Len(k.steps)

\* The answer the loop works with, and the action recorded for it.
WithAnswer(k) ==
  /\ k.pc \in {"asking", "acting"} => k.turn < Horizon
  /\ k.pc \in {"acting", "sending"} => k.answer \in Answers
  /\ k.pc = "sending" => k.turn >= 1 /\ k.steps[Len(k.steps) - 1].tool = k.answer.tool

\* The tokens of an attempt, before and after the answer that exceeds the budget.
InBudget(k, kind) ==
  kind = "repo" =>
    /\ k.tokens - k.last <= MaxTokens
    /\ k.pc \in {"idle", "mkdir", "snapshot", "top", "asking"} => k.tokens <= MaxTokens
    /\ k.result = "completed" /\ k.tokens > MaxTokens =>
         k.turn >= 1 /\ k.steps[Len(k.steps) - 1].tool = "finish"

Local(k, kind) ==
  k \in AttemptSet /\ InPlace(k, kind) /\ OnChannel(k, kind) /\ WithAnswer(k) /\ InBudget(k, kind)

-----------------------------------------------------------------------------
(***************************************************************************)
(* The attempts and what they share                                        *)
(***************************************************************************)

\* A rescore call that is about to save holds a trajectory and a rubric.
Rescoring(call) ==
  \E stage, steps, errors, rubric, stale :
    /\ call = [stage |-> stage, steps |-> steps, errors |-> errors,
               rubric |-> rubric, stale |-> stale]
    /\ Len(steps) \in Nat /\ errors \in Nat /\ stale \in BOOLEAN
    /\ stage = "read" => rubric \in Rubrics

\* The shape of what the attempts share.
Shared ==
  /\ route \in {"repo", "verifiers"} /\ leased \in Attempts /\ cancel \in BOOLEAN
  /\ entry \in [dir : 0..MaxAttempts, finished : BOOLEAN]
  /\ dirs \subseteq Attempts /\ turns \in [1..Horizon -> 0..MaxAttempts]
  /\ row \in RowSet /\ IsFiniteSet(Filled(row.steps))
  /\ Rescoring(rescore)

Shape ==
  /\ Shared
  /\ DOMAIN att = Attempts
  /\ \A n \in Attempts : Local(att[n], route)

\* Attempts begin in order; unless a lease was lost only the leased one is active,
\* and the run says so.
Owners ==
  /\ \A n \in Attempts : n > leased => att[n].pc = "idle"
  /\ "overlap" \notin faults =>
       \A n \in Attempts : Active(n) => n = leased /\ row.status = "running"

InWorkspace == {"top", "asking", "acting", "sending", "returned"}

\* The workspace of the active attempt.
Workspaces ==
  "overlap" \notin faults => \A n \in Attempts :
    /\ At(n, "snapshot") => n \in dirs
    /\ att[n].pc \in InWorkspace => entry.dir = n /\ n \in dirs
    /\ att[n].pc \in {"top", "asking", "acting"} => ~entry.finished
    /\ At(n, "sending") /\ entry.finished => att[n].answer.tool = "finish"
    /\ n \in dirs /\ faults \cap {"crash", "snapshot"} = {} =>
         att[n].pc \in {"snapshot"} \cup InWorkspace

\* The attempt that a finished run is the result of.
EndedBy(n) == row.status \in Ending /\ row.by = n

\* The training rows of an attempt: those of the turns whose messages the
\* forwarder has handled.
TurnRows ==
  /\ \A t \in 1..Horizon : \A n \in Attempts : turns[t] = n =>
       ~At(n, "idle") /\ (~At(n, "dead") => PerTurn * t <= att[n].received)
  /\ route = "repo" /\ RecordTurns /\ faults \cap {"overlap", "tokenize"} = {} =>
       \A n \in Attempts : Active(n) \/ EndedBy(n) =>
         \A t \in 1..Horizon : PerTurn * t <= att[n].received => turns[t] = n

\* A trajectory laid out in the rows of the run.
Laid(steps) == [i \in Slots |-> IF i <= Len(steps) THEN steps[i] ELSE NoStep]

\* A finished run holds the trajectory and the score of the attempt that ended it.
EndedRow ==
  row.status \in Ending /\ "overlap" \notin faults =>
    /\ row.by \in Attempts /\ At(row.by, "done")
    /\ row.steps = Laid(Kept(row.by)) /\ row.count = Len(Kept(row.by))
    /\ row.reward # NoReward /\ row.reward.rubric \in Rubrics /\ ~rescore.stale =>
         row.reward = Score(Task, Kept(row.by), row.errors, row.reward.rubric)

LInv == Shape /\ Owners /\ Workspaces /\ TurnRows /\ EndedRow
-----------------------------------------------------------------------------
(***************************************************************************)
(* Rewards                                                                 *)
(***************************************************************************)

LEMMA UnitIs ==
  \E full, share \in Nat \ {0} :
    /\ full = AtLeastOne(2 * Horizon) /\ share = AtLeastOne(Cardinality(Criteria))
    /\ Unit(Task) = full * share /\ Unit(Task) \in Nat \ {0}
    /\ Unit(Task) \div full = share /\ Unit(Task) \div share = full
<1>1. Cardinality(Criteria) \in Nat
  BY RolloutLoopAssumption, FS_CardinalityType
<1>2. PICK full \in Nat \ {0} : full = AtLeastOne(2 * Horizon)
  BY RolloutLoopAssumption DEF AtLeastOne
<1>3. PICK share \in Nat \ {0} : share = AtLeastOne(Cardinality(Criteria))
  BY <1>1 DEF AtLeastOne
<1>4. Unit(Task) = full * share
  BY <1>2, <1>3 DEF Unit, Task
<1>5. full * share \in Nat \ {0} /\ (full * share) \div full = share /\ (full * share) \div share = full
  OBVIOUS
<1> QED BY <1>2, <1>3, <1>4, <1>5

\* A share of at most all of them.
LEMMA PartOfUnit ==
  ASSUME NEW n \in Nat, NEW full \in Nat, NEW share \in Nat, n <= full
  PROVE  0 <= n * share /\ n * share <= full * share
OBVIOUS

\* Every signal is between -1 and 1.
Signal(u) == {v \in Int : -u <= v /\ v <= u}

LEMMA StepCountBounded ==
  ASSUME NEW steps, Len(steps) \in Nat
  PROVE  StepCount(Task, steps) \in Signal(Unit(Task))
<1>1. PICK full, share \in Nat \ {0} :
        /\ full = AtLeastOne(2 * Horizon) /\ Unit(Task) = full * share
        /\ Unit(Task) \in Nat /\ Unit(Task) \div full = share
  BY UnitIs
<1>2. PICK n \in Nat : n = (IF Len(steps) < full THEN Len(steps) ELSE full) /\ n <= full
  OBVIOUS
<1>3. StepCount(Task, steps) = n * share
  BY <1>1, <1>2 DEF StepCount, Task
<1>4. n * share \in Nat /\ n * share <= full * share
  BY <1>2, PartOfUnit
<1> QED BY <1>1, <1>3, <1>4 DEF Signal

LEMMA SuccessCriteriaBounded ==
  ASSUME NEW steps
  PROVE  SuccessCriteria(Task, steps) \in Signal(Unit(Task))
<1>1. PICK full, share \in Nat \ {0} :
        /\ share = AtLeastOne(Cardinality(Criteria)) /\ Unit(Task) = full * share
        /\ Unit(Task) \in Nat /\ Unit(Task) \div share = full
  BY UnitIs
<1>2. Task.criteria = Criteria
  BY DEF Task
<1>3. CASE Criteria = {}
  BY <1>1, <1>2, <1>3 DEF SuccessCriteria, Signal
<1>4. CASE Criteria # {}
  <2>1. Cardinality(Criteria) \in Nat \ {0}
    BY <1>4, RolloutLoopAssumption, FS_CardinalityType, FS_EmptySet
  <2>2. share = Cardinality(Criteria)
    BY <1>1, <2>1 DEF AtLeastOne
  <2>3. Matched(Task, steps) \subseteq Criteria
    BY <1>2 DEF Matched
  <2>4. PICK n \in Nat : n = Cardinality(Matched(Task, steps)) /\ n <= share
    BY <2>2, <2>3, RolloutLoopAssumption, FS_Subset, FS_CardinalityType
  <2>5. SuccessCriteria(Task, steps) = n * full
    BY <1>1, <1>2, <1>4, <2>2, <2>4 DEF SuccessCriteria
  <2>6. n * full \in Nat /\ n * full <= share * full
    BY <2>4, PartOfUnit
  <2>7. share * full = full * share
    OBVIOUS
  <2> QED BY <1>1, <2>5, <2>6, <2>7 DEF Signal
<1> QED BY <1>3, <1>4

LEMMA SignalsBounded ==
  ASSUME NEW steps, NEW errors, Len(steps) \in Nat
  PROVE  {StepCount(Task, steps), ErrorPenalty(Task, errors), SuccessCriteria(Task, steps),
          Finish(Task, steps), TestsPass(Task, steps)} \subseteq Signal(Unit(Task))
<1>1. Unit(Task) \in Nat
  BY UnitIs
<1>2. Finish(Task, steps) \in {0, Unit(Task)}
  BY DEF Finish
<1>3. TestsPass(Task, steps) \in {0, Unit(Task), -Unit(Task)}
  BY DEF TestsPass
<1>4. ErrorPenalty(Task, errors) \in {0, -Unit(Task)}
  BY DEF ErrorPenalty
<1>5. {0, Unit(Task), -Unit(Task)} \subseteq Signal(Unit(Task))
  BY <1>1 DEF Signal
<1> QED BY <1>2, <1>3, <1>4, <1>5, StepCountBounded, SuccessCriteriaBounded

Weighted(rubric, a, b, d, e, f) ==
  Weight(rubric).step_count * a + Weight(rubric).error_penalty * b +
  Weight(rubric).success_criteria * d + Weight(rubric).finish * e +
  Weight(rubric).tests_pass * f

Denominator(rubric, u) == Total(Weight(rubric)) * u

\* The weighted mean of five signals.
LEMMA WeightedBounded ==
  ASSUME NEW rubric \in Rubrics, NEW u \in Nat \ {0},
         NEW a \in Signal(u), NEW b \in Signal(u), NEW d \in Signal(u),
         NEW e \in Signal(u), NEW f \in Signal(u)
  PROVE  /\ Denominator(rubric, u) \in Nat \ {0} /\ Weighted(rubric, a, b, d, e, f) \in Int
         /\ -Denominator(rubric, u) <= Weighted(rubric, a, b, d, e, f)
         /\ Weighted(rubric, a, b, d, e, f) <= Denominator(rubric, u)
<1>1. CASE rubric = "heuristic-v1"
  BY <1>1 DEF Weight, Total, Weighted, Signal, Denominator
<1>2. CASE rubric = "coding-v1"
  BY <1>2 DEF Weight, Total, Weighted, Signal, Denominator
<1>3. CASE rubric = "strict-finish-v1"
  BY <1>3 DEF Weight, Total, Weighted, Signal, Denominator
<1> QED BY <1>1, <1>2, <1>3 DEF Rubrics

HalfUp(n, d) == (2 * 10000 * n + d) \div (2 * d)

LEMMA RoundUp ==
  ASSUME NEW n \in Nat, NEW d \in Nat \ {0}, n <= d
  PROVE  HalfUp(n, d) \in Nat /\ HalfUp(n, d) <= 10000
<1>1. (20000 * n + d) \div (2 * d) <= 10000
  OBVIOUS
<1>2. (20000 * n + d) \div (2 * d) \in Nat
  OBVIOUS
<1>3. 2 * 10000 * n + d = 20000 * n + d
  OBVIOUS
<1> QED BY <1>1, <1>2, <1>3 DEF HalfUp

LEMMA RoundBounded ==
  ASSUME NEW d \in Nat \ {0}, NEW n \in Int, -d <= n, n <= d
  PROVE  RoundTo4(n, d) \in UpToOne
<1>1. CASE n >= 0
  <2>1. n \in Nat
    BY <1>1
  <2>2. HalfUp(n, d) \in Nat /\ HalfUp(n, d) <= 10000
    BY <2>1, RoundUp
  <2>3. RoundTo4(n, d) = HalfUp(n, d)
    BY <1>1 DEF RoundTo4, HalfUp
  <2> QED BY <2>2, <2>3 DEF UpToOne
<1>2. CASE n < 0
  <2>1. PICK m \in Nat : m = -n /\ m <= d
    BY <1>2
  <2>2. RoundTo4(n, d) = -HalfUp(m, d)
    BY <1>2, <2>1 DEF RoundTo4, HalfUp
  <2>3. HalfUp(m, d) \in Nat /\ HalfUp(m, d) <= 10000
    BY <2>1, RoundUp
  <2> QED BY <2>2, <2>3 DEF UpToOne
<1>3. n >= 0 \/ n < 0
  OBVIOUS
<1> QED BY <1>1, <1>2, <1>3

\* A score is between -1 and 1, whatever was recorded.
LEMMA ScoreBounded ==
  ASSUME NEW steps, NEW errors, Len(steps) \in Nat, NEW rubric \in Rubrics
  PROVE  /\ Score(Task, steps, errors, rubric) \in RewardSet
         /\ Score(Task, steps, errors, rubric).rubric = rubric
<1> DEFINE value == [s \in Signals |-> Value(s, Task, steps, errors)]
           sum   == Total([s \in Signals |-> Weight(rubric)[s] * value[s]])
<1>1. PICK u \in Nat \ {0} : u = Unit(Task)
  BY UnitIs
<1>2. PICK a \in Signal(u) : a = StepCount(Task, steps)
  BY <1>1, SignalsBounded
<1>3. PICK b \in Signal(u) : b = ErrorPenalty(Task, errors)
  BY <1>1, SignalsBounded
<1>4. PICK d \in Signal(u) : d = SuccessCriteria(Task, steps)
  BY <1>1, SignalsBounded
<1>5. PICK e \in Signal(u) : e = Finish(Task, steps)
  BY <1>1, SignalsBounded
<1>6. PICK f \in Signal(u) : f = TestsPass(Task, steps)
  BY <1>1, SignalsBounded
<1>7. sum = Weighted(rubric, a, b, d, e, f)
  BY <1>2, <1>3, <1>4, <1>5, <1>6 DEF Weighted, Total, Signals, Value
<1> HIDE DEF sum
<1>8. PICK den \in Nat \ {0}, s \in Int :
        den = Denominator(rubric, u) /\ s = sum /\ -den <= s /\ s <= den
  <2>1. /\ Denominator(rubric, u) \in Nat \ {0} /\ Weighted(rubric, a, b, d, e, f) \in Int
        /\ -Denominator(rubric, u) <= Weighted(rubric, a, b, d, e, f)
        /\ Weighted(rubric, a, b, d, e, f) <= Denominator(rubric, u)
    BY WeightedBounded, Zenon
  <2> QED BY <1>7, <2>1
<1>10. RoundTo4(s, den) \in UpToOne
  BY <1>8, RoundBounded
<1>11. Score(Task, steps, errors, rubric) =
         [terminal |-> RoundTo4(s, den), rubric |-> rubric,
          flags |-> (IF errors > 0 THEN {"requires-manual-audit"} ELSE {}) \cup
                    (IF value.success_criteria = 0 THEN {"no-success-criteria-match"} ELSE {})]
  BY <1>1, <1>8 DEF Score, sum, Denominator
<1> HIDE DEF value
<1>12. PICK r \in UpToOne : r = RoundTo4(s, den)
  BY <1>10
<1>13. PICK flags \in SUBSET {"requires-manual-audit", "no-success-criteria-match"} :
         Score(Task, steps, errors, rubric) =
           [terminal |-> r, rubric |-> rubric, flags |-> flags]
  BY <1>11, <1>12
<1> QED BY <1>13 DEF RewardSet
-----------------------------------------------------------------------------
(***************************************************************************)
(* What a step does to its attempt                                         *)
(***************************************************************************)

LEMMA Numbers ==
  /\ MaxAttempts \in Nat \ {0} /\ Horizon \in Nat \ {0} /\ Capacity \in Nat \ {0}
  /\ MaxTokens \in Nat /\ MaxRetries \in Nat /\ PerTurn \in {2, 3}
BY RolloutLoopAssumption DEF PerTurn

\* What most steps leave alone.
SameSteps(k, r)  == /\ r.turn = k.turn /\ r.steps = k.steps
                    /\ r.sent = k.sent /\ r.received = k.received
SameTokens(k, r) == r.tokens = k.tokens /\ r.last = k.last

LEMMA FreshIs ==
  /\ Fresh \in AttemptSet /\ [Fresh EXCEPT !.pc = "dead"] \in AttemptSet
  /\ Fresh.turn = 0 /\ Fresh.steps = <<>> /\ Fresh.sent = 0 /\ Fresh.received = 0
  /\ Fresh.result = "none" /\ Fresh.tokens = 0 /\ Fresh.last = 0 /\ Fresh.pc = "idle"
<1>1. <<>> \in Seq(Step)
  BY EmptySeq
<1>2. 0 \in 0..Horizon
  BY Numbers
<1>3. Fresh \in AttemptSet
  BY <1>1, <1>2 DEF Fresh, AttemptSet, Stop
<1>4. [Fresh EXCEPT !.pc = "dead"] \in AttemptSet
  BY <1>3 DEF AttemptSet, Stop
<1> QED BY <1>3, <1>4 DEF Fresh

\* An attempt that has not begun, one that a crash took, and one that begins.
LEMMA LocalFresh ==
  ASSUME NEW kind \in {"repo", "verifiers"}, NEW r \in AttemptSet,
         r = Fresh \/ r = [Fresh EXCEPT !.pc = "dead"]
  PROVE  Local(r, kind)
<1>1. /\ r.turn = 0 /\ r.steps = <<>> /\ r.sent = 0 /\ r.received = 0 /\ r.result = "none"
      /\ r.tokens = 0 /\ r.last = 0
      /\ \/ r.pc = "idle" /\ r = Fresh
         \/ r.pc = "dead" /\ r = [Fresh EXCEPT !.pc = "dead"]
  <2>1. CASE r = Fresh
    BY <2>1 DEF Fresh
  <2>2. CASE r = [Fresh EXCEPT !.pc = "dead"]
    <3>1. r.pc = "dead"
      BY <2>2 DEF Fresh
    <3>2. /\ r.turn = 0 /\ r.steps = <<>> /\ r.sent = 0 /\ r.received = 0
          /\ r.result = "none" /\ r.tokens = 0 /\ r.last = 0
      BY <2>2 DEF Fresh
    <3> QED BY <2>2, <3>1, <3>2
  <2> QED BY <2>1, <2>2
<1>2. Len(<<>>) = 0 /\ DOMAIN <<>> = {}
  BY EmptySeq
<1>3. InPlace(r, kind)
  BY <1>1 DEF InPlace, RepoPlaces, VerifiersPlaces, Ended
<1>4. OnChannel(r, kind)
  BY <1>1, <1>2, Numbers DEF OnChannel
<1>5. WithAnswer(r) /\ InBudget(r, kind)
  BY <1>1, Numbers DEF WithAnswer, InBudget
<1> QED BY <1>3, <1>4, <1>5 DEF Local

LEMMA LocalBegun ==
  ASSUME NEW kind \in {"repo", "verifiers"}, NEW r \in AttemptSet,
         r.pc = IF kind = "repo" THEN "mkdir" ELSE "check",
         SameSteps(Fresh, r), SameTokens(Fresh, r), r.result = "none"
  PROVE  Local(r, kind)
<1>1. /\ r.turn = 0 /\ r.steps = <<>> /\ r.sent = 0 /\ r.received = 0
      /\ r.tokens = 0 /\ r.last = 0
  BY FreshIs DEF SameSteps, SameTokens
<1>2. Len(<<>>) = 0 /\ DOMAIN <<>> = {}
  BY EmptySeq
<1>3. InPlace(r, kind)
  BY DEF InPlace, RepoPlaces, VerifiersPlaces, Ended
<1>4. OnChannel(r, kind)
  BY <1>1, <1>2, Numbers DEF OnChannel
<1>5. WithAnswer(r) /\ InBudget(r, kind)
  BY <1>1, Numbers DEF WithAnswer, InBudget
<1> QED BY <1>3, <1>4, <1>5 DEF Local

\* On to another place before the attempt knows how it ends.
LEMMA LocalGoesOn ==
  ASSUME NEW k, NEW kind, Local(k, kind), NEW r \in AttemptSet,
         SameSteps(k, r), SameTokens(k, r), r.answer = k.answer, r.result = k.result,
         \/ k.pc = "mkdir" /\ r.pc = "snapshot"
         \/ k.pc = "snapshot" /\ r.pc = "top"
         \/ k.pc = "top" /\ r.pc = "asking" /\ k.turn # Horizon
         \/ k.pc = "check" /\ r.pc = "permit"
         \/ k.pc = "permit" /\ r.pc = "calling"
         \/ k.pc = "returned" /\ r.pc = "closing"
         \/ k.pc = "closing" /\ r.pc = "done" /\ k.received = k.sent
         \/ k.pc \notin {"idle", "dead"} /\ r.pc = k.pc
  PROVE  Local(r, kind)
<1>1. InPlace(r, kind)
  BY DEF Local, InPlace, RepoPlaces, VerifiersPlaces, Ended
<1>2. OnChannel(r, kind)
  BY DEF Local, OnChannel, InPlace, RepoPlaces, VerifiersPlaces, Stop, SameSteps
<1>3. WithAnswer(r) /\ InBudget(r, kind)
  BY Numbers DEF Local, WithAnswer, InBudget, AttemptSet, SameSteps, SameTokens
<1> QED BY <1>1, <1>2, <1>3 DEF Local

\* Out of the loop from the snapshot, the top of a turn or the policy call.
LEMMA LocalReturns ==
  ASSUME NEW k, NEW kind, Local(k, kind), NEW r \in AttemptSet,
         SameSteps(k, r), SameTokens(k, r),
         \/ k.pc = "snapshot" /\ r.pc = "closing" /\ r.result = "error"
         \/ k.pc \in {"top", "asking"} /\ r.pc = "returned" /\ r.result \in {"cancelled", "error"}
         \/ k.pc = "top" /\ r.pc = "returned" /\ r.result = "completed"
  PROVE  Local(r, kind)
<1>1. kind = "repo"
  BY DEF Local, InPlace, RepoPlaces
<1>2. InPlace(r, kind)
  BY <1>1 DEF Local, InPlace, RepoPlaces, VerifiersPlaces, Ended
<1>3. OnChannel(r, kind)
  BY <1>1 DEF Local, OnChannel, Stop, SameSteps
<1>4. WithAnswer(r)
  BY <1>1 DEF WithAnswer
<1>5. InBudget(r, kind)
  <2>1. k.tokens \in Nat
    BY DEF Local, AttemptSet
  <2> QED BY <1>1, <2>1, Numbers DEF Local, InBudget, SameTokens
<1> QED BY <1>2, <1>3, <1>4, <1>5 DEF Local

LEMMA LocalAnswered ==
  ASSUME NEW k, NEW kind, Local(k, kind), NEW r \in AttemptSet, k.pc = "asking",
         SameSteps(k, r), r.pc = "acting", r.result = k.result, r.answer \in Answers,
         r.tokens - r.last = k.tokens
  PROVE  Local(r, kind)
<1>1. kind = "repo" /\ k.result = "none"
  BY DEF Local, InPlace, RepoPlaces, Ended
<1>2. InPlace(r, kind)
  BY <1>1 DEF InPlace, RepoPlaces, VerifiersPlaces, Ended
<1>3. OnChannel(r, kind)
  BY <1>1 DEF Local, OnChannel, Stop, SameSteps
<1>4. WithAnswer(r)
  BY DEF Local, WithAnswer, SameSteps
<1>5. InBudget(r, kind)
  BY <1>1 DEF Local, InBudget
<1> QED BY <1>2, <1>3, <1>4, <1>5 DEF Local

\* The tool has run: a turn more, and its two steps.
LEMMA LocalActed ==
  ASSUME NEW k, NEW kind, Local(k, kind), NEW r \in AttemptSet, k.pc = "acting",
         NEW x \in Step, NEW y \in Step, x.tool = k.answer.tool,
         r.pc = "sending", r.turn = k.turn + 1, r.steps = k.steps \o <<x, y>>,
         r.sent = k.sent, r.received = k.received, r.result = k.result,
         SameTokens(k, r), r.answer = k.answer
  PROVE  Local(r, kind)
<1>1. kind = "repo" /\ k.result = "none"
  BY DEF Local, InPlace, RepoPlaces, Ended
<1>2. /\ k.turn \in Nat /\ k.sent \in Nat /\ k.received \in Nat /\ k.steps \in Seq(Step)
      /\ Len(k.steps) \in Nat
  BY LenProperties DEF Local, AttemptSet
<1>3. /\ Len(r.steps) = Len(k.steps) + 2
      /\ r.steps[Len(k.steps) + 1] = x
  <2>1. <<x, y>> \in Seq(Step) /\ Len(<<x, y>>) = 2 /\ <<x, y>>[1] = x
    OBVIOUS
  <2>2. Len(k.steps \o <<x, y>>) = Len(k.steps) + 2
    BY <1>2, <2>1, ConcatProperties
  <2>3. (k.steps \o <<x, y>>)[Len(k.steps) + 1] = <<x, y>>[1]
    BY <1>2, <2>1
  <2> QED BY <2>1, <2>2, <2>3
<1>4. InPlace(r, kind)
  BY <1>1 DEF InPlace, RepoPlaces, VerifiersPlaces, Ended
<1>5. OnChannel(r, kind)
  <2>1. /\ k.received <= k.sent /\ k.sent - k.received <= Capacity
        /\ Len(k.steps) = 2 * k.turn /\ k.sent = PerTurn * k.turn
    BY <1>1 DEF Local, OnChannel
  <2>2. Len(r.steps) = 2 * r.turn
    BY <1>2, <1>3, <2>1
  <2>3. r.sent <= PerTurn * r.turn
    BY <1>2, <2>1, Numbers
  <2> QED BY <1>1, <2>1, <2>2, <2>3 DEF OnChannel, Stop
<1>6. WithAnswer(r)
  <2>1. r.steps[Len(r.steps) - 1].tool = r.answer.tool /\ r.turn >= 1
    BY <1>2, <1>3
  <2> QED BY <2>1 DEF Local, WithAnswer
<1>7. InBudget(r, kind)
  BY <1>1 DEF Local, InBudget, SameTokens
<1> QED BY <1>4, <1>5, <1>6, <1>7 DEF Local

\* One message more into a channel with room.
LEMMA LocalSent ==
  ASSUME NEW k, NEW kind, Local(k, kind), NEW r \in AttemptSet, k.pc = "sending",
         k.sent < PerTurn * k.turn, k.sent - k.received < Capacity,
         r.pc = "sending", r.turn = k.turn, r.steps = k.steps, r.sent = k.sent + 1,
         r.received = k.received, r.result = k.result, SameTokens(k, r), r.answer = k.answer
  PROVE  Local(r, kind)
<1>1. kind = "repo"
  BY DEF Local, InPlace, RepoPlaces
<1>2. k.turn \in Nat /\ k.sent \in Nat /\ k.received \in Nat
  BY DEF Local, AttemptSet
<1>3. InPlace(r, kind)
  BY <1>1 DEF Local, InPlace, RepoPlaces, VerifiersPlaces, Ended
<1>4. OnChannel(r, kind)
  <2>1. /\ k.received <= k.sent /\ Len(k.steps) = 2 * k.turn
    BY <1>1 DEF Local, OnChannel
  <2>2. PICK all \in Nat : all = PerTurn * k.turn
    BY <1>2, Numbers
  <2>3. r.sent <= all /\ r.received <= r.sent /\ r.sent - r.received <= Capacity
    BY <1>2, <2>1, <2>2, Numbers
  <2> QED BY <1>1, <2>1, <2>2, <2>3 DEF OnChannel, Stop
<1>5. WithAnswer(r) /\ InBudget(r, kind)
  BY DEF Local, WithAnswer, InBudget, SameTokens
<1> QED BY <1>3, <1>4, <1>5 DEF Local

LEMMA LocalTurnEnds ==
  ASSUME NEW k, NEW kind, Local(k, kind), NEW r \in AttemptSet, k.pc = "sending",
         k.sent = PerTurn * k.turn, SameSteps(k, r), SameTokens(k, r),
         \/ r.pc = "top" /\ r.result = "none" /\ k.tokens <= MaxTokens
         \/ r.pc = "returned" /\ r.result \in {"cancelled", "failed"}
         \/ r.pc = "returned" /\ r.result = "completed" /\ k.answer.tool = "finish"
  PROVE  Local(r, kind)
<1>1. kind = "repo"
  BY DEF Local, InPlace, RepoPlaces
<1>2. InPlace(r, kind)
  BY <1>1 DEF InPlace, RepoPlaces, VerifiersPlaces, Ended
<1>3. OnChannel(r, kind)
  BY <1>1 DEF Local, OnChannel, Stop, SameSteps
<1>4. WithAnswer(r)
  BY DEF WithAnswer
<1>5. k.turn >= 1 /\ k.steps[Len(k.steps) - 1].tool = k.answer.tool
  BY DEF Local, WithAnswer
<1>6. InBudget(r, kind)
  BY <1>1, <1>5 DEF Local, InBudget, SameSteps, SameTokens
<1> QED BY <1>2, <1>3, <1>4, <1>6 DEF Local

\* The forwarder of a repo attempt takes a message; a verifiers attempt appends
\* a step.
LEMMA LocalReceived ==
  ASSUME NEW k, NEW kind, Local(k, kind), NEW r \in AttemptSet, k.received < k.sent,
         r.pc = k.pc, r.turn = k.turn, r.steps = k.steps, r.sent = k.sent,
         r.received = k.received + 1, r.result = k.result, SameTokens(k, r),
         r.answer = k.answer
  PROVE  Local(r, kind)
<1>1. k.sent \in Nat /\ k.received \in Nat /\ k.turn \in Nat
  BY DEF Local, AttemptSet
<1>2. k.pc \notin Stop
  BY <1>1 DEF Local, OnChannel
<1>3. InPlace(r, kind)
  BY <1>2 DEF Local, InPlace, Stop
<1>4. OnChannel(r, kind)
  <2>1. r.received <= r.sent
    BY <1>1
  <2>2. k.sent - k.received <= Capacity => r.sent - r.received <= Capacity
    BY <1>1, Numbers
  <2> QED BY <1>2, <2>1, <2>2 DEF Local, OnChannel
<1>5. WithAnswer(r) /\ InBudget(r, kind)
  BY DEF Local, WithAnswer, InBudget, SameTokens
<1> QED BY <1>3, <1>4, <1>5 DEF Local

\* The ways out of the verifiers path, and the answer of the bridge.
LEMMA LocalVerifiersEnds ==
  ASSUME NEW k, NEW kind, Local(k, kind), NEW r \in AttemptSet,
         k.pc \in {"check", "calling", "storing"}, r.pc = "closing",
         r.result \in {"error"} \cup Ending,
         r.steps = k.steps, r.sent = k.sent, r.received \in {k.received, k.sent}
  PROVE  Local(r, kind)
<1>1. kind = "verifiers"
  BY DEF Local, InPlace, VerifiersPlaces
<1>2. k.sent \in Nat /\ k.received \in Nat /\ k.received <= k.sent /\ DOMAIN k.steps \subseteq Slots
  BY <1>1 DEF Local, AttemptSet, OnChannel
<1>3. InPlace(r, kind)
  BY DEF InPlace, RepoPlaces, VerifiersPlaces, Ended, Ending
<1>4. OnChannel(r, kind)
  BY <1>1, <1>2 DEF OnChannel, Stop
<1>5. WithAnswer(r) /\ InBudget(r, kind)
  BY <1>1 DEF WithAnswer, InBudget
<1> QED BY <1>3, <1>4, <1>5 DEF Local

LEMMA LocalBridge ==
  ASSUME NEW k, NEW kind, Local(k, kind), NEW r \in AttemptSet, k.pc = "calling",
         r.pc = "storing", r.result = k.result, r.received = k.received,
         r.sent = Len(r.steps), DOMAIN r.steps \subseteq Slots
  PROVE  Local(r, kind)
<1>1. kind = "verifiers"
  BY DEF Local, InPlace, VerifiersPlaces
<1>2. k.sent \in Nat /\ k.received \in Nat /\ k.received <= k.sent /\ k.sent = 0
  BY <1>1 DEF Local, AttemptSet, OnChannel
<1>3. r.sent \in Nat
  BY DEF AttemptSet
<1>4. InPlace(r, kind)
  BY <1>1 DEF Local, InPlace, RepoPlaces, VerifiersPlaces, Ended
<1>5. OnChannel(r, kind)
  BY <1>1, <1>2, <1>3 DEF OnChannel, Stop
<1>6. WithAnswer(r) /\ InBudget(r, kind)
  BY <1>1 DEF WithAnswer, InBudget
<1> QED BY <1>4, <1>5, <1>6 DEF Local
-----------------------------------------------------------------------------
(***************************************************************************)
(* The steps of an attempt                                                 *)
(***************************************************************************)

\* Attempt n becomes r, which is fine by itself.
Took(n, r) == r \in AttemptSet /\ att' = [att EXCEPT ![n] = r] /\ Local(r, route)

\* The step leaves the workspace as it is, and its attempt in it or out of it.
StaysIn(k, r) ==
  /\ r.pc \in InWorkspace => k.pc \in InWorkspace
  /\ r.pc \in {"top", "asking", "acting"} =>
       k.pc \in {"top", "asking", "acting"} \/ (k.pc = "sending" /\ k.answer.tool # "finish")
  /\ r.pc = "sending" => k.pc = "sending" /\ r.answer = k.answer
  /\ r.pc = "snapshot" => k.pc = "snapshot"
  /\ k.pc \in {"snapshot"} \cup InWorkspace =>
       r.pc \in InWorkspace \/ r.pc = k.pc \/ "snapshot" \in faults'

\* A step between two places before the end that handles no message.
Moves(k, r) ==
  k.pc \notin Stop /\ r.pc \notin Stop /\ r.received = k.received /\ StaysIn(k, r)

\* Nothing but the attempts and the faults has changed.
Apart ==
  UNCHANGED <<route, leased, cancel, entry, dirs, row, turns, rescore>> /\ faults \subseteq faults'

LEMMA AttemptIs ==
  ASSUME Shape, NEW n \in Attempts
  PROVE  att[n] \in AttemptSet /\ Local(att[n], route) /\ route \in {"repo", "verifiers"}
BY DEF Shape, Shared, Local

LEMMA FaultsGrow ==
  ASSUME NEW kind, Fault(kind)
  PROVE  faults' = faults \cup {kind}
BY DEF Fault

LEMMA SnapshotFailsMoves ==
  ASSUME Shape, NEW n \in Attempts, SnapshotFails(n)
  PROVE  (\E r : Took(n, r) /\ Moves(att[n], r)) /\ Apart
<1> DEFINE k == att[n]
           r == [k EXCEPT !.pc = "closing", !.result = "error"]
<1>1. k \in AttemptSet /\ Local(k, route) /\ k.pc = "snapshot"
  BY AttemptIs DEF SnapshotFails, At
<1>2. /\ r \in AttemptSet /\ r.pc = "closing" /\ r.result = "error"
      /\ SameSteps(k, r) /\ SameTokens(k, r)
  BY <1>1 DEF AttemptSet, SameSteps, SameTokens, Ended
<1>3. att' = [att EXCEPT ![n] = r] /\ Apart /\ "snapshot" \in faults'
  BY FaultsGrow DEF SnapshotFails, Now, Apart, queue, files
<1> HIDE DEF k, r
<1>4. Local(r, route)
  BY <1>1, <1>2, LocalReturns
<1>5. Moves(k, r)
  BY <1>1, <1>2, <1>3 DEF Moves, StaysIn, SameSteps, Stop, InWorkspace
<1> QED BY <1>2, <1>3, <1>4, <1>5 DEF Took, k

LEMMA TopOfTurnMoves ==
  ASSUME Shape, NEW n \in Attempts, TopOfTurn(n)
  PROVE  (\E r : Took(n, r) /\ Moves(att[n], r)) /\ Apart
<1> DEFINE k == att[n]
<1>1. k \in AttemptSet /\ Local(k, route) /\ k.pc = "top"
  BY AttemptIs DEF TopOfTurn, At
<1>2. PICK r : /\ att' = [att EXCEPT ![n] = r]
               /\ \/ k.turn = Horizon /\ r = [k EXCEPT !.pc = "returned", !.result = "completed"]
                  \/ r = [k EXCEPT !.pc = "returned", !.result = "cancelled"]
                  \/ k.turn # Horizon /\ r = [k EXCEPT !.pc = "asking"]
  BY DEF TopOfTurn, Now
<1>3. /\ r \in AttemptSet /\ SameSteps(k, r) /\ SameTokens(k, r) /\ r.answer = k.answer
      /\ \/ r.pc = "returned" /\ r.result \in {"completed", "cancelled"}
         \/ r.pc = "asking" /\ r.result = k.result /\ k.turn # Horizon
  BY <1>1, <1>2 DEF AttemptSet, SameSteps, SameTokens, RepoPlaces, Ending
<1>4. Apart
  BY DEF TopOfTurn, world, Apart
<1> HIDE DEF k
<1>5. Local(r, route)
  BY <1>1, <1>3, LocalReturns, LocalGoesOn
<1>6. Moves(k, r)
  BY <1>1, <1>3 DEF Moves, StaysIn, SameSteps, Stop, InWorkspace
<1> QED BY <1>2, <1>3, <1>4, <1>5, <1>6 DEF Took, k

LEMMA InterruptMoves ==
  ASSUME Shape, NEW n \in Attempts, Interrupt(n)
  PROVE  (\E r : Took(n, r) /\ Moves(att[n], r)) /\ Apart
<1> DEFINE k == att[n]
           r == [k EXCEPT !.pc = "returned", !.tries = 0, !.result = "cancelled"]
<1>1. k \in AttemptSet /\ Local(k, route) /\ k.pc = "asking"
  BY AttemptIs DEF Interrupt, At
<1>2. /\ r \in AttemptSet /\ r.pc = "returned" /\ r.result = "cancelled"
      /\ SameSteps(k, r) /\ SameTokens(k, r)
  BY <1>1 DEF AttemptSet, SameSteps, SameTokens, RepoPlaces, Ending
<1>3. att' = [att EXCEPT ![n] = r] /\ Apart
  BY DEF Interrupt, Now, Apart, world
<1> HIDE DEF k, r
<1>4. Local(r, route)
  BY <1>1, <1>2, LocalReturns
<1>5. Moves(k, r)
  BY <1>1, <1>2 DEF Moves, StaysIn, SameSteps, Stop, InWorkspace
<1> QED BY <1>2, <1>3, <1>4, <1>5 DEF Took, k

LEMMA AnsweredMoves ==
  ASSUME Shape, NEW n \in Attempts, Answered(n)
  PROVE  (\E r : Took(n, r) /\ Moves(att[n], r)) /\ Apart
<1> DEFINE k == att[n]
<1>1. k \in AttemptSet /\ Local(k, route) /\ k.pc = "asking"
  BY AttemptIs DEF Answered, At
<1>2. PICK a \in Answers :
        att' = [att EXCEPT ![n] = [k EXCEPT !.pc = "acting", !.answer = a, !.tries = 0,
                                            !.last = a.tokens, !.tokens = @ + a.tokens]]
  BY DEF Answered, Now
<1> DEFINE r == [k EXCEPT !.pc = "acting", !.answer = a, !.tries = 0,
                          !.last = a.tokens, !.tokens = @ + a.tokens]
<1>3. a.tokens \in Nat
  BY RolloutLoopAssumption DEF Answer
<1>4. k.tokens \in Nat /\ k.tokens + a.tokens \in Nat
  BY <1>1, <1>3 DEF AttemptSet
<1>5. /\ r \in AttemptSet /\ r.pc = "acting" /\ r.result = k.result /\ r.answer = a
      /\ SameSteps(k, r) /\ r.last = a.tokens /\ r.tokens = k.tokens + a.tokens
  BY <1>1, <1>3, <1>4 DEF AttemptSet, SameSteps, RepoPlaces
<1>6. att' = [att EXCEPT ![n] = r] /\ Apart
  BY <1>2 DEF Answered, Apart, world
<1> HIDE DEF k, r
<1>7. Local(r, route)
  <2>1. r.tokens - r.last = k.tokens
    BY <1>3, <1>4, <1>5
  <2> QED BY <1>1, <1>5, <2>1, LocalAnswered
<1>8. Moves(k, r)
  BY <1>1, <1>5 DEF Moves, StaysIn, SameSteps, Stop, InWorkspace
<1> QED BY <1>5, <1>6, <1>7, <1>8 DEF Took, k

LEMMA PolicyFailsMoves ==
  ASSUME Shape, NEW n \in Attempts, PolicyFails(n)
  PROVE  (\E r : Took(n, r) /\ Moves(att[n], r)) /\ Apart
<1> DEFINE k == att[n]
<1>1. k \in AttemptSet /\ Local(k, route) /\ k.pc = "asking"
  BY AttemptIs DEF PolicyFails, At
<1>2. PICK r : /\ att' = [att EXCEPT ![n] = r]
               /\ \/ r = [k EXCEPT !.tries = @ + 1]
                  \/ r = [k EXCEPT !.pc = "returned", !.tries = 0, !.result = "error"]
  BY DEF PolicyFails, Now
<1>3. /\ r \in AttemptSet /\ SameSteps(k, r) /\ SameTokens(k, r) /\ r.answer = k.answer
      /\ \/ r.pc = "returned" /\ r.result = "error"
         \/ r.pc = "asking" /\ r.result = k.result
  <2>1. PICK tries \in Nat : tries = k.tries + 1
    BY <1>1 DEF AttemptSet
  <2>2. CASE r = [k EXCEPT !.tries = tries]
    BY <1>1, <2>2 DEF AttemptSet, SameSteps, SameTokens
  <2>3. CASE r = [k EXCEPT !.pc = "returned", !.tries = 0, !.result = "error"]
    BY <1>1, <2>3 DEF AttemptSet, SameSteps, SameTokens, RepoPlaces
  <2> QED BY <1>2, <2>1, <2>2, <2>3
<1>4. Apart
  BY FaultsGrow DEF PolicyFails, queue, files, Apart
<1> HIDE DEF k
<1>5. Local(r, route)
  BY <1>1, <1>3, LocalReturns, LocalGoesOn
<1>6. Moves(k, r)
  BY <1>1, <1>3 DEF Moves, StaysIn, SameSteps, Stop, InWorkspace
<1> QED BY <1>2, <1>3, <1>4, <1>5, <1>6 DEF Took, k

LEMMA SendMoves ==
  ASSUME Shape, NEW n \in Attempts, Send(n)
  PROVE  (\E r : Took(n, r) /\ Moves(att[n], r)) /\ Apart
<1> DEFINE k == att[n]
           r == [k EXCEPT !.sent = @ + 1]
<1>1. /\ k \in AttemptSet /\ Local(k, route) /\ k.pc = "sending"
      /\ k.sent < PerTurn * k.turn /\ k.sent - k.received < Capacity
  BY AttemptIs DEF Send, At
<1>2. PICK sent \in Nat : sent = k.sent + 1
  BY <1>1 DEF AttemptSet
<1>3. r = [k EXCEPT !.sent = sent]
  BY <1>2
<1>4. att' = [att EXCEPT ![n] = r] /\ Apart
  BY DEF Send, Now, Apart, world
<1> HIDE DEF r
<1>5. /\ r \in AttemptSet /\ r.pc = "sending" /\ r.turn = k.turn /\ r.steps = k.steps
      /\ r.sent = k.sent + 1 /\ r.received = k.received /\ r.result = k.result
      /\ SameTokens(k, r) /\ r.answer = k.answer
  BY <1>1, <1>2, <1>3 DEF AttemptSet, SameTokens
<1> HIDE DEF k
<1>6. Local(r, route)
  BY <1>1, <1>5, LocalSent
<1>7. Moves(k, r)
  BY <1>1, <1>5 DEF Moves, StaysIn, Stop, InWorkspace
<1> QED BY <1>4, <1>5, <1>6, <1>7 DEF Took, k

LEMMA EndTurnMoves ==
  ASSUME Shape, NEW n \in Attempts, EndTurn(n)
  PROVE  (\E r : Took(n, r) /\ Moves(att[n], r)) /\ Apart
<1> DEFINE k == att[n]
<1>1. k \in AttemptSet /\ Local(k, route) /\ k.pc = "sending" /\ k.sent = PerTurn * k.turn
  BY AttemptIs DEF EndTurn, At
<1> DEFINE result == AfterTurn(n)
           pc     == IF result = "none" THEN "top" ELSE "returned"
           errors == IF result = "failed" THEN 1 ELSE 0
<1>2. /\ att' = [att EXCEPT ![n] = [k EXCEPT !.pc = pc, !.result = result,
                                             !.answer = NoAnswer, !.errors = errors]]
      /\ result = AfterTurn(n) /\ errors \in {0, 1}
      /\ pc = IF result = "none" THEN "top" ELSE "returned"
  BY DEF EndTurn, Now
<1> HIDE DEF result, pc, errors
<1> DEFINE r == [k EXCEPT !.pc = pc, !.result = result, !.answer = NoAnswer, !.errors = errors]
<1>3. \/ result = "none" /\ k.tokens <= MaxTokens /\ k.answer.tool # "finish"
      \/ result \in {"cancelled", "failed"}
      \/ result = "completed" /\ k.answer.tool = "finish"
  <2>1. k.tokens \in Nat /\ MaxTokens \in Nat
    BY <1>1, Numbers DEF AttemptSet
  <2> QED BY <1>2, <2>1 DEF AfterTurn
<1>4. pc \in RepoPlaces /\ result \in {"none"} \cup Ending /\ errors \in Nat
  BY <1>2, <1>3 DEF RepoPlaces, Ending
<1>5. /\ r \in AttemptSet /\ r.pc = pc /\ r.result = result
      /\ SameSteps(k, r) /\ SameTokens(k, r)
  BY <1>1, <1>4 DEF AttemptSet, SameSteps, SameTokens
<1>6. att' = [att EXCEPT ![n] = r] /\ Apart
  BY <1>2 DEF EndTurn, Apart, world
<1> HIDE DEF k, r
<1>7. Local(r, route)
  BY <1>1, <1>2, <1>3, <1>5, LocalTurnEnds
<1>8. Moves(k, r)
  BY <1>1, <1>2, <1>3, <1>5 DEF Moves, StaysIn, SameSteps, Stop, InWorkspace
<1> QED BY <1>5, <1>6, <1>7, <1>8 DEF Took, k

LEMMA CheckMoves ==
  ASSUME Shape, NEW n \in Attempts, Check(n)
  PROVE  (\E r : Took(n, r) /\ Moves(att[n], r)) /\ Apart
<1> DEFINE k == att[n]
<1>1. k \in AttemptSet /\ Local(k, route) /\ k.pc = "check"
  BY AttemptIs DEF Check, At
<1>2. PICK r : /\ att' = [att EXCEPT ![n] = r]
               /\ \/ r = [k EXCEPT !.pc = "closing", !.result = "cancelled"]
                  \/ r = [k EXCEPT !.pc = "permit"]
  BY DEF Check, Now
<1>3. /\ r \in AttemptSet /\ SameSteps(k, r) /\ SameTokens(k, r) /\ r.answer = k.answer
      /\ \/ r.pc = "closing" /\ r.result = "cancelled"
         \/ r.pc = "permit" /\ r.result = k.result
  <2>1. CASE r = [k EXCEPT !.pc = "closing", !.result = "cancelled"]
    BY <1>1, <2>1 DEF AttemptSet, SameSteps, SameTokens, Ended, Ending
  <2>2. CASE r = [k EXCEPT !.pc = "permit"]
    BY <1>1, <2>2 DEF AttemptSet, SameSteps, SameTokens, VerifiersPlaces
  <2> QED BY <1>2, <2>1, <2>2
<1>4. Apart
  BY DEF Check, world, Apart
<1> HIDE DEF k
<1>5. Local(r, route)
  BY <1>1, <1>3, LocalVerifiersEnds, LocalGoesOn DEF SameSteps, Ending
<1>6. Moves(k, r)
  BY <1>1, <1>3 DEF Moves, StaysIn, SameSteps, Stop, InWorkspace
<1> QED BY <1>2, <1>3, <1>4, <1>5, <1>6 DEF Took, k

LEMMA AcquireMoves ==
  ASSUME Shape, NEW n \in Attempts, Acquire(n)
  PROVE  (\E r : Took(n, r) /\ Moves(att[n], r)) /\ Apart
<1> DEFINE k == att[n]
           r == [k EXCEPT !.pc = "calling", !.permit = TRUE]
<1>1. k \in AttemptSet /\ Local(k, route) /\ k.pc = "permit"
  BY AttemptIs DEF Acquire, At
<1>2. /\ r \in AttemptSet /\ r.pc = "calling" /\ r.result = k.result
      /\ SameSteps(k, r) /\ SameTokens(k, r) /\ r.answer = k.answer
  BY <1>1 DEF AttemptSet, SameSteps, SameTokens, VerifiersPlaces
<1>3. att' = [att EXCEPT ![n] = r] /\ Apart
  BY DEF Acquire, Now, Apart, world
<1> HIDE DEF k, r
<1>4. Local(r, route)
  BY <1>1, <1>2, LocalGoesOn
<1>5. Moves(k, r)
  BY <1>1, <1>2 DEF Moves, StaysIn, SameSteps, Stop, InWorkspace
<1> QED BY <1>2, <1>3, <1>4, <1>5 DEF Took, k

LEMMA CallEndsMoves ==
  ASSUME Shape, NEW n \in Attempts, CallEnds(n)
  PROVE  (\E r : Took(n, r) /\ Moves(att[n], r)) /\ Apart
<1> DEFINE k == att[n]
<1>1. k \in AttemptSet /\ Local(k, route) /\ k.pc = "calling"
  BY AttemptIs DEF CallEnds, At
<1>2. PICK r : /\ att' = [att EXCEPT ![n] = r]
               /\ \/ r = [k EXCEPT !.pc = "closing", !.result = "cancelled"]
                  \/ r = [k EXCEPT !.pc = "closing", !.result = "error", !.permit = FALSE]
  BY DEF CallEnds, Now
<1>3. /\ r \in AttemptSet /\ SameSteps(k, r) /\ r.pc = "closing"
      /\ r.result \in {"error"} \cup Ending
  <2>1. CASE r = [k EXCEPT !.pc = "closing", !.result = "cancelled"]
    BY <1>1, <2>1 DEF AttemptSet, SameSteps, Ended, Ending
  <2>2. CASE r = [k EXCEPT !.pc = "closing", !.result = "error", !.permit = FALSE]
    BY <1>1, <2>2 DEF AttemptSet, SameSteps, Ended
  <2> QED BY <1>2, <2>1, <2>2
<1>4. Apart
  BY DEF CallEnds, world, Apart
<1> HIDE DEF k
<1>5. Local(r, route)
  BY <1>1, <1>3, LocalVerifiersEnds DEF SameSteps
<1>6. Moves(k, r)
  BY <1>1, <1>3 DEF Moves, StaysIn, SameSteps, Stop, InWorkspace
<1> QED BY <1>2, <1>3, <1>4, <1>5, <1>6 DEF Took, k

\* The trajectory of a bridge answer.
LEMMA AttributedSteps ==
  ASSUME NEW o \in Outcomes, NEW n \in Attempts
  PROVE  LET steps == [i \in DOMAIN o.steps |-> Attributed(o.steps[i], n)]
         IN  /\ steps \in Seq(Step) /\ DOMAIN steps = DOMAIN o.steps
             /\ DOMAIN steps \subseteq Slots
<1> DEFINE Plain == [actor : {"policy", "environment"}, tool : {"read", "test", "finish"},
                     rc : {0, 1}, says : SUBSET Criteria]
           steps == [i \in DOMAIN o.steps |-> Attributed(o.steps[i], n)]
<1>1. o.steps \in Seq(Plain)
  BY RolloutLoopAssumption DEF Outcome
<1>2. DOMAIN o.steps = 1..Len(o.steps) /\ Len(o.steps) \in Nat
  BY <1>1, LenProperties
<1>3. \A i \in 1..Len(o.steps) : o.steps[i] \in Plain
  BY <1>1, ElementOfSeq
<1>4. \A i \in 1..Len(o.steps) : Attributed(o.steps[i], n) \in Step
  BY <1>3 DEF Attributed, Step
<1>5. steps \in [1..Len(o.steps) -> Step]
  BY <1>2, <1>4
<1>6. steps \in Seq(Step)
  BY <1>2, <1>5
<1>7. DOMAIN o.steps \subseteq Slots
  BY DEF Slots
<1> QED BY <1>6, <1>7

LEMMA ClampBounded ==
  ASSUME NEW r \in Int
  PROVE  Clamp(r) \in UpToOne
BY DEF Clamp, UpToOne

LEMMA BridgeAnswersMoves ==
  ASSUME Shape, NEW n \in Attempts, BridgeAnswers(n)
  PROVE  (\E r : Took(n, r) /\ Moves(att[n], r)) /\ Apart
<1> DEFINE k == att[n]
<1>0. PICK o \in Outcomes : \E steps, reward :
        /\ steps = [i \in DOMAIN o.steps |-> Attributed(o.steps[i], n)]
        /\ reward = [terminal |-> Clamp(o.reward), rubric |-> "verifiers", flags |-> {}]
        /\ att' = [att EXCEPT ![n] =
             [k EXCEPT !.pc = "storing", !.tokens = o.tokens, !.errors = o.errors,
                       !.steps = steps, !.sent = Len(o.steps), !.reward = reward]]
  BY DEF BridgeAnswers, Now
<1>1. k \in AttemptSet /\ Local(k, route) /\ k.pc = "calling"
  BY AttemptIs DEF BridgeAnswers, At
<1>2. PICK steps, reward :
        /\ steps = [i \in DOMAIN o.steps |-> Attributed(o.steps[i], n)]
        /\ reward = [terminal |-> Clamp(o.reward), rubric |-> "verifiers", flags |-> {}]
        /\ att' = [att EXCEPT ![n] =
             [k EXCEPT !.pc = "storing", !.tokens = o.tokens, !.errors = o.errors,
                       !.steps = steps, !.sent = Len(o.steps), !.reward = reward]]
  BY <1>0
<1> DEFINE r == [k EXCEPT !.pc = "storing", !.tokens = o.tokens, !.errors = o.errors,
                          !.steps = steps, !.sent = Len(o.steps), !.reward = reward]
<1>3. steps \in Seq(Step) /\ DOMAIN steps = DOMAIN o.steps /\ DOMAIN steps \subseteq Slots
  BY <1>2, AttributedSteps
<1>4. o.tokens \in Nat /\ o.errors \in Nat /\ o.reward \in Int
  BY RolloutLoopAssumption DEF Outcome
<1>5. Len(steps) = Len(o.steps) /\ Len(steps) \in Nat
  <2> DEFINE Plain == [actor : {"policy", "environment"}, tool : {"read", "test", "finish"},
                       rc : {0, 1}, says : SUBSET Criteria]
  <2>1. o.steps \in Seq(Plain)
    BY RolloutLoopAssumption DEF Outcome
  <2> QED BY <1>3, <2>1, LenProperties
<1>6. reward \in BridgeRewards
  BY <1>2, <1>4, ClampBounded DEF RewardSet, BridgeRewards
<1>7. /\ r \in AttemptSet /\ r.pc = "storing" /\ r.result = k.result
      /\ r.received = k.received /\ r.sent = Len(r.steps) /\ r.steps = steps
  <2>1. Len(o.steps) \in Nat
    BY <1>5
  <2> QED BY <1>1, <1>3, <1>4, <1>5, <1>6, <2>1 DEF AttemptSet, VerifiersPlaces
<1>8. att' = [att EXCEPT ![n] = r] /\ Apart
  BY <1>2 DEF BridgeAnswers, Apart, world
<1> HIDE DEF k, r
<1>9. Local(r, route)
  BY <1>1, <1>3, <1>7, LocalBridge
<1>10. Moves(k, r)
  BY <1>1, <1>7 DEF Moves, StaysIn, Stop, InWorkspace
<1> QED BY <1>7, <1>8, <1>9, <1>10 DEF Took, k

LEMMA StoredAllMoves ==
  ASSUME Shape, NEW n \in Attempts, StoredAll(n)
  PROVE  (\E r : Took(n, r) /\ Moves(att[n], r)) /\ Apart
<1> DEFINE k == att[n]
<1>1. k \in AttemptSet /\ Local(k, route) /\ k.pc = "storing"
  BY AttemptIs DEF StoredAll, At
<1>2. PICK result \in {"failed", "completed"} :
        att' = [att EXCEPT ![n] = [k EXCEPT !.pc = "closing", !.result = result]]
  BY DEF StoredAll, Now
<1> DEFINE r == [k EXCEPT !.pc = "closing", !.result = result]
<1>3. r \in AttemptSet /\ r.pc = "closing" /\ r.result \in {"error"} \cup Ending /\ SameSteps(k, r)
  BY <1>1 DEF AttemptSet, SameSteps, Ended, Ending
<1>4. att' = [att EXCEPT ![n] = r] /\ Apart
  BY <1>2 DEF StoredAll, Apart, world
<1> HIDE DEF k, r
<1>5. Local(r, route)
  BY <1>1, <1>3, LocalVerifiersEnds DEF SameSteps
<1>6. Moves(k, r)
  BY <1>1, <1>3 DEF Moves, StaysIn, SameSteps, Stop, InWorkspace
<1> QED BY <1>3, <1>4, <1>5, <1>6 DEF Took, k
-----------------------------------------------------------------------------
(***************************************************************************)
(* What a step of an attempt leaves true of the others and of the run      *)
(***************************************************************************)

LEMMA TookIs ==
  ASSUME Shape, NEW n \in Attempts, NEW r, Took(n, r)
  PROVE  /\ att'[n] = r /\ DOMAIN att' = Attempts
         /\ \A m \in Attempts \ {n} : att'[m] = att[m]
BY DEF Shape, Took

LEMMA ShapeKept ==
  ASSUME Shape, NEW n \in Attempts, NEW r, Took(n, r), route' = route, Shared'
  PROVE  Shape'
<1>1. \A m \in Attempts : Local(att'[m], route')
  <2> SUFFICES ASSUME NEW m \in Attempts PROVE Local(att'[m], route')
    OBVIOUS
  <2>1. CASE m = n
    BY <2>1, TookIs DEF Took
  <2>2. CASE m # n
    <3>1. att'[m] = att[m] /\ Local(att[m], route)
      BY <2>2, TookIs DEF Shape
    <3> QED BY <3>1
  <2> QED BY <2>1, <2>2
<1> QED BY <1>1, TookIs DEF Shape

\* A begun attempt is one of those leased so far.
LEMMA BegunIsLeased ==
  ASSUME Shape, Owners, NEW n \in Attempts, att[n].pc # "idle"
  PROVE  n <= leased
<1>1. n \in Nat /\ leased \in Nat
  BY Numbers DEF Shape, Shared, Attempts
<1> QED BY <1>1 DEF Owners

LEMMA OwnersKept ==
  ASSUME Shape, Owners, NEW n \in Attempts, NEW r, Took(n, r), leased' = leased,
         faults \subseteq faults',
         \/ att[n].pc \notin Stop /\ (row'.status = row.status \/ r.pc \in Stop)
         \/ n = leased /\ row'.status = "running"
  PROVE  Owners'
<1>1. \A m \in Attempts : m > leased' => att'[m].pc = "idle"
  <2> SUFFICES ASSUME NEW m \in Attempts, m > leased PROVE att'[m].pc = "idle"
    OBVIOUS
  <2>1. m \in Nat /\ leased \in Nat
    BY Numbers DEF Shape, Shared, Attempts
  <2>2. m # n
    BY <2>1, BegunIsLeased DEF Stop
  <2> QED BY <2>2, TookIs DEF Owners
<1>2. ASSUME "overlap" \notin faults', NEW m \in Attempts, att'[m].pc \notin Stop
      PROVE  m = leased' /\ row'.status = "running"
  <2>1. \A i \in Attempts : att[i].pc \notin Stop => i = leased /\ row.status = "running"
    BY <1>2 DEF Owners, Active
  <2>2. CASE m = n
    BY <1>2, <2>1, <2>2, TookIs
  <2>3. CASE m # n
    BY <1>2, <2>1, <2>3, TookIs
  <2> QED BY <2>2, <2>3
<1> QED BY <1>1, <1>2 DEF Owners, Active

LEMMA WorkspacesKept ==
  ASSUME Shape, Workspaces, NEW n \in Attempts, NEW r, Took(n, r), StaysIn(att[n], r),
         entry' = entry, dirs' = dirs, faults \subseteq faults'
  PROVE  Workspaces'
<1> SUFFICES ASSUME "overlap" \notin faults', NEW m \in Attempts
             PROVE  /\ att'[m].pc = "snapshot" => m \in dirs
                    /\ att'[m].pc \in InWorkspace => entry.dir = m /\ m \in dirs
                    /\ att'[m].pc \in {"top", "asking", "acting"} => ~entry.finished
                    /\ att'[m].pc = "sending" /\ entry.finished =>
                         att'[m].answer.tool = "finish"
                    /\ m \in dirs /\ faults' \cap {"crash", "snapshot"} = {} =>
                         att'[m].pc \in {"snapshot"} \cup InWorkspace
  BY DEF Workspaces, At
<1>1. /\ att[m].pc = "snapshot" => m \in dirs
      /\ att[m].pc \in InWorkspace => entry.dir = m /\ m \in dirs
      /\ att[m].pc \in {"top", "asking", "acting"} => ~entry.finished
      /\ att[m].pc = "sending" /\ entry.finished => att[m].answer.tool = "finish"
      /\ m \in dirs /\ faults' \cap {"crash", "snapshot"} = {} =>
           att[m].pc \in {"snapshot"} \cup InWorkspace
  BY DEF Workspaces, At
<1>2. CASE m # n
  BY <1>1, <1>2, TookIs
<1>3. CASE m = n
  BY <1>1, <1>3, TookIs DEF StaysIn
<1> QED BY <1>2, <1>3

LEMMA TurnRowsKept ==
  ASSUME Shape, TurnRows, NEW n \in Attempts, NEW r, Took(n, r), route' = route,
         turns' = turns, faults \subseteq faults', r.pc \notin {"idle", "dead"},
         \/ att[n].pc \notin Stop \/ (att[n].pc = "idle" /\ r.received = 0),
         att[n].received <= r.received,
         route = "repo" /\ RecordTurns => \A t \in 1..Horizon :
           PerTurn * t <= r.received => PerTurn * t <= att[n].received,
         \A m \in Attempts : EndedBy(m)' => m = n \/ EndedBy(m)
  PROVE  TurnRows'
<1>0. PerTurn' = PerTurn /\ \A t \in 1..Horizon : PerTurn * t \in Nat /\ PerTurn * t > 0
  BY Numbers DEF PerTurn
<1>a. \A m \in Attempts : att[m].received \in Nat /\ r.received \in Nat
  BY DEF Shape, Local, AttemptSet, Took
<1>1. ASSUME NEW t \in 1..Horizon, NEW m \in Attempts, turns[t] = m
      PROVE  att'[m].pc # "idle" /\ (att'[m].pc # "dead" => PerTurn * t <= att'[m].received)
  <2>1. att[m].pc # "idle" /\ (att[m].pc # "dead" => PerTurn * t <= att[m].received)
    BY <1>1 DEF TurnRows, At
  <2>2. CASE m # n
    BY <2>1, <2>2, TookIs
  <2>3. CASE m = n
    BY <1>0, <1>a, <2>1, <2>3, TookIs DEF Stop
  <2> QED BY <2>2, <2>3
<1>2. ASSUME route = "repo", RecordTurns, faults' \cap {"overlap", "tokenize"} = {},
             NEW m \in Attempts, Active(m)' \/ EndedBy(m)', NEW t \in 1..Horizon,
             PerTurn * t <= att'[m].received
      PROVE  turns[t] = m
  <2>1. Active(m) \/ EndedBy(m) => (PerTurn * t <= att[m].received => turns[t] = m)
    BY <1>2 DEF TurnRows
  <2>2. CASE m # n
    <3>1. att'[m] = att[m]
      BY <2>2, TookIs
    <3>2. Active(m) \/ EndedBy(m)
      BY <1>2, <2>2, <3>1 DEF Active
    <3> QED BY <1>2, <2>1, <3>1, <3>2
  <2>3. CASE m = n
    <3>1. r.received # 0
      BY <1>0, <1>2, <1>a, <2>3, TookIs
    <3>2. Active(m)
      BY <2>3, <3>1 DEF Active
    <3>3. PerTurn * t <= att[m].received
      BY <1>2, <2>3, TookIs
    <3> QED BY <2>1, <3>2, <3>3
  <2> QED BY <2>2, <2>3
<1> QED BY <1>0, <1>1, <1>2 DEF TurnRows, At

\* While an attempt is active the run has not ended, unless a lease was lost.
LEMMA EndedRowKept ==
  ASSUME Shape, Owners, NEW n \in Attempts, att[n].pc \notin Stop,
         row'.status = row.status, faults \subseteq faults'
  PROVE  EndedRow'
<1>1. "overlap" \notin faults' => row'.status = "running"
  BY DEF Owners, Active
<1>2. "running" \notin Ending
  BY DEF Ending
<1> QED BY <1>1, <1>2 DEF EndedRow

\* All of it together, for the steps that only move their attempt.
LEMMA MovesKeep ==
  ASSUME LInv, NEW n \in Attempts, NEW r, Took(n, r), Moves(att[n], r), Apart
  PROVE  LInv'
<1>1. att[n].pc \notin Stop /\ r.pc \notin Stop /\ r.received = att[n].received
  BY DEF Moves
<1>2. route' = route /\ leased' = leased /\ row' = row /\ turns' = turns
  BY DEF Apart
<1>3. Shape'
  <2>1. Shared'
    BY DEF LInv, Shape, Shared, Apart, Filled
  <2> QED BY <1>2, <2>1, ShapeKept DEF LInv
<1>4. Owners'
  BY <1>1, <1>2, OwnersKept DEF LInv, Apart
<1>5. Workspaces'
  BY WorkspacesKept DEF LInv, Moves, Apart
<1>6. TurnRows'
  <2>1. att[n].received \in Nat
    BY DEF LInv, Shape, Local, AttemptSet
  <2>2. \A m \in Attempts : EndedBy(m)' => EndedBy(m)
    BY <1>2 DEF EndedBy
  <2>3. r.pc \notin {"idle", "dead"} /\ att[n].received <= r.received
    BY <1>1, <2>1 DEF Stop
  <2> QED BY <1>1, <1>2, <2>2, <2>3, TurnRowsKept DEF LInv, Apart
<1>7. EndedRow'
  BY <1>1, <1>2, EndedRowKept DEF LInv, Apart
<1> QED BY <1>3, <1>4, <1>5, <1>6, <1>7 DEF LInv
-----------------------------------------------------------------------------
(***************************************************************************)
(* The steps that change the workspace                                     *)
(***************************************************************************)

LEMMA MakeDirKeeps ==
  ASSUME LInv, NEW n \in Attempts, MakeDir(n)
  PROVE  LInv'
<1> DEFINE k == att[n]
           r == [k EXCEPT !.pc = "snapshot"]
<1>1. k \in AttemptSet /\ Local(k, route) /\ k.pc = "mkdir"
  BY AttemptIs DEF LInv, MakeDir, At
<1>2. /\ r \in AttemptSet /\ r.pc = "snapshot" /\ r.result = k.result
      /\ SameSteps(k, r) /\ SameTokens(k, r) /\ r.answer = k.answer
  BY <1>1 DEF AttemptSet, SameSteps, SameTokens, RepoPlaces
<1>3. /\ att' = [att EXCEPT ![n] = r] /\ dirs' = dirs \cup {n}
      /\ UNCHANGED <<route, leased, cancel, entry, row, turns, rescore, faults>>
  BY DEF MakeDir, Now, queue
<1> HIDE DEF r
<1>4. Took(n, r)
  <2> HIDE DEF k
  <2> QED BY <1>1, <1>2, <1>3, LocalGoesOn DEF Took
<1>5. Shape'
  <2>1. Shared'
    BY <1>3 DEF LInv, Shape, Shared, Filled
  <2> QED BY <1>3, <1>4, <2>1, ShapeKept DEF LInv
<1>6. Owners'
  BY <1>1, <1>3, <1>4, OwnersKept DEF LInv, Stop
<1>7. Workspaces'
  <2> SUFFICES ASSUME "overlap" \notin faults', NEW m \in Attempts
               PROVE  /\ att'[m].pc = "snapshot" => m \in dirs'
                      /\ att'[m].pc \in InWorkspace => entry'.dir = m /\ m \in dirs'
                      /\ att'[m].pc \in {"top", "asking", "acting"} => ~entry'.finished
                      /\ att'[m].pc = "sending" /\ entry'.finished =>
                           att'[m].answer.tool = "finish"
                      /\ m \in dirs' /\ faults' \cap {"crash", "snapshot"} = {} =>
                           att'[m].pc \in {"snapshot"} \cup InWorkspace
    BY DEF Workspaces, At
  <2>1. CASE m # n
    <3>1. att'[m] = att[m] /\ (m \in dirs' <=> m \in dirs)
      BY <1>3, <1>4, <2>1, TookIs DEF LInv
    <3> QED BY <1>3, <3>1 DEF LInv, Workspaces, At
  <2>2. CASE m = n
    <3>1. att'[m].pc = "snapshot" /\ m \in dirs'
      BY <1>2, <1>3, <1>4, <2>2, TookIs DEF LInv
    <3> QED BY <3>1 DEF InWorkspace
  <2> QED BY <2>1, <2>2
<1>8. TurnRows'
  <2>1. r.received = k.received /\ k.received \in Nat /\ r.pc \notin {"idle", "dead"}
    BY <1>1, <1>2 DEF SameSteps, AttemptSet
  <2>2. \A m \in Attempts : EndedBy(m)' => EndedBy(m)
    BY <1>3 DEF EndedBy
  <2>3. k.pc \notin Stop /\ k.received <= r.received
    BY <1>1, <2>1 DEF Stop
  <2> QED BY <1>3, <1>4, <2>1, <2>2, <2>3, TurnRowsKept DEF LInv
<1>9. EndedRow'
  BY <1>1, <1>3, EndedRowKept DEF LInv, Stop
<1> QED BY <1>5, <1>6, <1>7, <1>8, <1>9 DEF LInv

LEMMA SnapshotKeeps ==
  ASSUME LInv, NEW n \in Attempts, Snapshot(n)
  PROVE  LInv'
<1> DEFINE k == att[n]
           r == [k EXCEPT !.pc = "top"]
<1>1. k \in AttemptSet /\ Local(k, route) /\ k.pc = "snapshot"
  BY AttemptIs DEF LInv, Snapshot, At
<1>2. /\ r \in AttemptSet /\ r.pc = "top" /\ r.result = k.result
      /\ SameSteps(k, r) /\ SameTokens(k, r) /\ r.answer = k.answer
  BY <1>1 DEF AttemptSet, SameSteps, SameTokens, RepoPlaces
<1>3. /\ att' = [att EXCEPT ![n] = r] /\ entry' = [dir |-> n, finished |-> FALSE]
      /\ UNCHANGED <<route, leased, cancel, dirs, row, turns, rescore, faults>>
  BY DEF Snapshot, Now, queue
<1> HIDE DEF r
<1>4. Took(n, r)
  <2> HIDE DEF k
  <2> QED BY <1>1, <1>2, <1>3, LocalGoesOn DEF Took
<1>5. Shape'
  <2>1. n \in 0..MaxAttempts
    BY Numbers DEF Attempts
  <2>2. entry' \in [dir : 0..MaxAttempts, finished : BOOLEAN]
    BY <1>3, <2>1
  <2>3. Shared'
    BY <1>3, <2>2 DEF LInv, Shape, Shared, Filled
  <2> QED BY <1>3, <1>4, <2>3, ShapeKept DEF LInv
<1>6. Owners'
  BY <1>1, <1>3, <1>4, OwnersKept DEF LInv, Stop
<1>7. Workspaces'
  <2> SUFFICES ASSUME "overlap" \notin faults', NEW m \in Attempts
               PROVE  /\ att'[m].pc = "snapshot" => m \in dirs
                      /\ att'[m].pc \in InWorkspace => n = m /\ m \in dirs
                      /\ att'[m].pc = "sending" => FALSE
                      /\ m \in dirs /\ faults' \cap {"crash", "snapshot"} = {} =>
                           att'[m].pc \in {"snapshot"} \cup InWorkspace
    BY <1>3 DEF Workspaces, At
  <2>1. CASE m # n
    <3>1. att'[m] = att[m] /\ att[m].pc \in Stop
      BY <1>1, <1>3, <1>4, <2>1, TookIs DEF LInv, Owners, Active, Stop
    <3>2. att[m].pc \notin {"snapshot"} \cup InWorkspace
      BY <3>1 DEF Stop, InWorkspace
    <3> QED BY <1>3, <3>1, <3>2 DEF LInv, Workspaces, At, Stop, InWorkspace
  <2>2. CASE m = n
    <3>1. att'[m].pc = "top"
      BY <1>2, <1>4, <2>2, TookIs DEF LInv
    <3>2. m \in dirs
      BY <1>1, <1>3, <2>2 DEF LInv, Workspaces, At
    <3> QED BY <2>2, <3>1, <3>2 DEF InWorkspace
  <2> QED BY <2>1, <2>2
<1>8. TurnRows'
  <2>1. r.received = k.received /\ k.received \in Nat /\ r.pc \notin {"idle", "dead"}
    BY <1>1, <1>2 DEF SameSteps, AttemptSet
  <2>2. \A m \in Attempts : EndedBy(m)' => EndedBy(m)
    BY <1>3 DEF EndedBy
  <2>3. k.pc \notin Stop /\ k.received <= r.received
    BY <1>1, <2>1 DEF Stop
  <2> QED BY <1>3, <1>4, <2>1, <2>2, <2>3, TurnRowsKept DEF LInv
<1>9. EndedRow'
  BY <1>1, <1>3, EndedRowKept DEF LInv, Stop
<1> QED BY <1>5, <1>6, <1>7, <1>8, <1>9 DEF LInv

LEMMA CleanupKeeps ==
  ASSUME LInv, NEW n \in Attempts, Cleanup(n)
  PROVE  LInv'
<1> DEFINE k == att[n]
           r == [k EXCEPT !.pc = "closing"]
<1>1. k \in AttemptSet /\ Local(k, route) /\ k.pc = "returned"
  BY AttemptIs DEF LInv, Cleanup, At
<1>2. /\ r \in AttemptSet /\ r.pc = "closing" /\ r.result = k.result
      /\ SameSteps(k, r) /\ SameTokens(k, r) /\ r.answer = k.answer
  BY <1>1 DEF AttemptSet, SameSteps, SameTokens, Ended
<1>3. /\ att' = [att EXCEPT ![n] = r] /\ entry' = NoEntry /\ dirs' = dirs \ {entry.dir}
      /\ UNCHANGED <<route, leased, cancel, row, turns, rescore, faults>>
  BY DEF Cleanup, Now, queue
<1> HIDE DEF r
<1>4. Took(n, r)
  <2> HIDE DEF k
  <2> QED BY <1>1, <1>2, <1>3, LocalGoesOn DEF Took
<1>5. Shape'
  <2>1. entry' \in [dir : 0..MaxAttempts, finished : BOOLEAN]
    BY <1>3, Numbers DEF NoEntry
  <2>2. Shared'
    BY <1>3, <2>1 DEF LInv, Shape, Shared, Filled
  <2> QED BY <1>3, <1>4, <2>2, ShapeKept DEF LInv
<1>6. Owners'
  BY <1>1, <1>3, <1>4, OwnersKept DEF LInv, Stop
<1>7. Workspaces'
  <2> SUFFICES ASSUME "overlap" \notin faults', NEW m \in Attempts
               PROVE  /\ att'[m].pc \notin {"snapshot"} \cup InWorkspace
                      /\ m \in dirs' => faults' \cap {"crash", "snapshot"} # {}
    BY DEF Workspaces, At, InWorkspace
  <2>1. CASE m # n
    <3>1. att'[m] = att[m] /\ att[m].pc \in Stop
      BY <1>1, <1>3, <1>4, <2>1, TookIs DEF LInv, Owners, Active, Stop
    <3>2. att[m].pc \notin {"snapshot"} \cup InWorkspace
      BY <3>1 DEF Stop, InWorkspace
    <3> QED BY <1>3, <3>1, <3>2 DEF LInv, Workspaces, At
  <2>2. CASE m = n
    <3>1. att'[m].pc = "closing"
      BY <1>2, <1>4, <2>2, TookIs DEF LInv
    <3>2. entry.dir = n
      BY <1>1, <1>3 DEF LInv, Workspaces, At, InWorkspace
    <3> QED BY <1>3, <2>2, <3>1, <3>2 DEF InWorkspace
  <2> QED BY <2>1, <2>2
<1>8. TurnRows'
  <2>1. r.received = k.received /\ k.received \in Nat /\ r.pc \notin {"idle", "dead"}
    BY <1>1, <1>2 DEF SameSteps, AttemptSet
  <2>2. \A m \in Attempts : EndedBy(m)' => EndedBy(m)
    BY <1>3 DEF EndedBy
  <2>3. k.pc \notin Stop /\ k.received <= r.received
    BY <1>1, <2>1 DEF Stop
  <2> QED BY <1>3, <1>4, <2>1, <2>2, <2>3, TurnRowsKept DEF LInv
<1>9. EndedRow'
  BY <1>1, <1>3, EndedRowKept DEF LInv, Stop
<1> QED BY <1>5, <1>6, <1>7, <1>8, <1>9 DEF LInv

LEMMA StepsOfTurn ==
  ASSUME NEW n \in Attempts, NEW a \in Answers
  PROVE  /\ Action(n, a) \in Step /\ Action(n, a).tool = a.tool
         /\ Observation(n, a) \in Step
<1>1. /\ a.tool \in {"read", "test", "finish", "unknown"}
      /\ a.says \in SUBSET Criteria
  BY RolloutLoopAssumption DEF Answer
<1>2. Action(n, a) \in Step /\ Action(n, a).tool = a.tool
  BY <1>1 DEF Action, Step
<1>3. \A tool \in {"read", "test", "finish", "error"} : \A rc \in {0, 1} :
        \A says \in SUBSET Criteria : Observed(n, tool, rc, says) \in Step
  BY DEF Observed, Step
<1>4. RunCommand(n, a) \in Step
  BY <1>1, <1>3 DEF RunCommand
<1>5. Observation(n, a) \in Step
  <2>1. CASE entry.dir = 0 \/ entry.finished \/ a.tool = "unknown"
    BY <1>3, <2>1 DEF Observation
  <2>2. CASE ~(entry.dir = 0 \/ entry.finished \/ a.tool = "unknown")
    <3>1. a.tool \in {"test", "read", "finish"}
      BY <1>1, <2>2
    <3>2. CASE a.tool = "test"
      BY <1>4, <2>2, <3>2 DEF Observation
    <3>3. CASE a.tool = "read"
      BY <1>1, <1>3, <2>2, <3>3 DEF Observation
    <3>4. CASE a.tool = "finish"
      BY <1>1, <1>3, <2>2, <3>4 DEF Observation
    <3> QED BY <3>1, <3>2, <3>3, <3>4
  <2> QED BY <2>1, <2>2
<1> QED BY <1>2, <1>5

LEMMA ActKeeps ==
  ASSUME LInv, NEW n \in Attempts, Act(n)
  PROVE  LInv'
<1> DEFINE k == att[n]
<1>1. k \in AttemptSet /\ Local(k, route) /\ k.pc = "acting"
  BY AttemptIs DEF LInv, Act, At
<1>2. k.answer \in Answers /\ k.turn \in Nat /\ k.turn < Horizon
  BY <1>1 DEF Local, WithAnswer, AttemptSet
<1>3. PICK x \in Step, y \in Step : x = Action(n, k.answer) /\ y = Observation(n, k.answer)
  BY <1>2, StepsOfTurn
<1>4. PICK turn \in 0..Horizon : turn = k.turn + 1
  BY <1>2, Numbers
<1>5. PICK steps \in Seq(Step) : steps = k.steps \o <<x, y>>
  <2>1. <<x, y>> \in Seq(Step)
    OBVIOUS
  <2>2. k.steps \in Seq(Step)
    BY <1>1 DEF AttemptSet
  <2> QED BY <2>1, <2>2, ConcatProperties
<1> DEFINE r == [k EXCEPT !.pc = "sending", !.turn = turn, !.steps = steps]
<1>6. /\ att' = [att EXCEPT ![n] = r]
      /\ entry' = [entry EXCEPT !.finished =
                     @ \/ (entry.dir # 0 /\ k.answer.tool = "finish")]
      /\ UNCHANGED <<route, leased, cancel, dirs, row, turns, rescore, faults>>
  BY <1>3, <1>4, <1>5 DEF Act, Now, queue
<1>7. /\ r \in AttemptSet /\ r.pc = "sending" /\ r.turn = k.turn + 1
      /\ r.steps = k.steps \o <<x, y>> /\ r.sent = k.sent /\ r.received = k.received
      /\ r.result = k.result /\ SameTokens(k, r) /\ r.answer = k.answer
  BY <1>1, <1>4, <1>5 DEF AttemptSet, SameTokens, RepoPlaces
<1> HIDE DEF r
<1>8. Took(n, r)
  <2>1. x.tool = k.answer.tool
    BY <1>2, <1>3, StepsOfTurn
  <2> HIDE DEF k
  <2> QED BY <1>1, <1>6, <1>7, <2>1, LocalActed DEF Took
<1>9. /\ entry' \in [dir : 0..MaxAttempts, finished : BOOLEAN] /\ entry'.dir = entry.dir
      /\ entry'.finished <=> entry.finished \/ (entry.dir # 0 /\ k.answer.tool = "finish")
  BY <1>6 DEF LInv, Shape, Shared
<1>10. Shape'
  <2>1. Shared'
    BY <1>6, <1>9 DEF LInv, Shape, Shared, Filled
  <2> QED BY <1>6, <1>8, <2>1, ShapeKept DEF LInv
<1>11. Owners'
  BY <1>1, <1>6, <1>8, OwnersKept DEF LInv, Stop
<1>12. Workspaces'
  <2> SUFFICES ASSUME "overlap" \notin faults', NEW m \in Attempts
               PROVE  /\ att'[m].pc = "snapshot" => m \in dirs
                      /\ att'[m].pc \in InWorkspace => entry.dir = m /\ m \in dirs
                      /\ att'[m].pc \in {"top", "asking", "acting"} => ~entry'.finished
                      /\ att'[m].pc = "sending" /\ entry'.finished =>
                           att'[m].answer.tool = "finish"
                      /\ m \in dirs /\ faults' \cap {"crash", "snapshot"} = {} =>
                           att'[m].pc \in {"snapshot"} \cup InWorkspace
    BY <1>6, <1>9 DEF Workspaces, At
  <2>1. CASE m # n
    <3>1. att'[m] = att[m] /\ att[m].pc \in Stop
      BY <1>1, <1>6, <1>8, <2>1, TookIs DEF LInv, Owners, Active, Stop
    <3>2. att[m].pc \notin {"snapshot", "sending"} \cup InWorkspace
      BY <3>1 DEF Stop, InWorkspace
    <3> QED BY <1>6, <3>1, <3>2 DEF LInv, Workspaces, At, InWorkspace
  <2>2. CASE m = n
    <3>1. att'[m].pc = "sending" /\ att'[m].answer = k.answer
      BY <1>7, <1>8, <2>2, TookIs DEF LInv
    <3>2. entry.dir = n /\ n \in dirs /\ ~entry.finished
      BY <1>1, <1>6 DEF LInv, Workspaces, At, InWorkspace
    <3> QED BY <1>9, <2>2, <3>1, <3>2 DEF InWorkspace
  <2> QED BY <2>1, <2>2
<1>13. TurnRows'
  <2>1. r.received = k.received /\ k.received \in Nat /\ r.pc \notin {"idle", "dead"}
    BY <1>1, <1>7 DEF AttemptSet
  <2>2. \A m \in Attempts : EndedBy(m)' => EndedBy(m)
    BY <1>6 DEF EndedBy
  <2>3. k.pc \notin Stop /\ k.received <= r.received
    BY <1>1, <2>1 DEF Stop
  <2> QED BY <1>6, <1>8, <2>1, <2>2, <2>3, TurnRowsKept DEF LInv
<1>14. EndedRow'
  BY <1>1, <1>6, EndedRowKept DEF LInv, Stop
<1> QED BY <1>10, <1>11, <1>12, <1>13, <1>14 DEF LInv
-----------------------------------------------------------------------------
(***************************************************************************)
(* The row of the run                                                      *)
(***************************************************************************)

LEMMA NoStepIsNoStep == NoStep \notin Step
BY DEF NoStep, Step

\* A step is appended: one row more, or another one in its place.
LEMMA AppendKeepsRow ==
  ASSUME row \in RowSet, IsFiniteSet(Filled(row.steps)), NEW i, NEW step \in Step,
         row' = Appended(i, step)
  PROVE  /\ row' \in RowSet /\ IsFiniteSet(Filled(row'.steps))
         /\ row'.status = row.status /\ row'.by = row.by
<1> DEFINE steps == [row.steps EXCEPT ![i] = step]
<1>1. row.steps \in [Slots -> Step \cup {NoStep}]
  BY DEF RowSet
<1>2. steps \in [Slots -> Step \cup {NoStep}]
  BY <1>1
<1>3. IsFiniteSet(Filled(steps))
  <2>1. Filled(steps) \subseteq Filled(row.steps) \cup {i}
    BY <1>1 DEF Filled
  <2>2. IsFiniteSet(Filled(row.steps) \cup {i})
    BY FS_AddElement
  <2> QED BY <2>1, <2>2, FS_Subset
<1>4. CountOf(steps) \in Nat
  BY <1>3, FS_CardinalityType DEF CountOf
<1>5. row' = [row EXCEPT !.steps = steps, !.count = CountOf(steps)]
  BY DEF Appended
<1> HIDE DEF steps
<1> QED BY <1>2, <1>3, <1>4, <1>5 DEF RowSet

\* The message a repo attempt's forwarder handles is one of its turns.
LEMMA MessageIs ==
  ASSUME NEW received \in Nat, NEW turn \in Nat, received < PerTurn * turn
  PROVE  \E t \in Nat, kind \in 0..PerTurn - 1 :
           /\ t = received \div PerTurn + 1 /\ kind = received % PerTurn
           /\ 1 <= t /\ t <= turn /\ received = PerTurn * (t - 1) + kind
<1>1. CASE PerTurn = 2
  BY <1>1
<1>2. CASE PerTurn = 3
  BY <1>2
<1> QED BY <1>1, <1>2, Numbers

\* A message is handled, or a step appended: one received more, all else kept.
LEMMA HandledIs ==
  ASSUME Shape, NEW n \in Attempts, att[n].received < att[n].sent, route' = route,
         att' = [att EXCEPT ![n] = [att[n] EXCEPT !.received = @ + 1]]
  PROVE  \E r : /\ Took(n, r) /\ StaysIn(att[n], r)
                /\ r.pc = att[n].pc /\ r.pc \notin Stop /\ r.received = att[n].received + 1
<1> DEFINE k == att[n]
<1>1. k \in AttemptSet /\ Local(k, route)
  BY AttemptIs
<1>2. k.received \in Nat /\ k.sent \in Nat /\ k.pc \notin Stop
  BY <1>1 DEF AttemptSet, Local, OnChannel
<1>3. PICK received \in Nat : received = k.received + 1
  BY <1>2
<1> DEFINE r == [k EXCEPT !.received = received]
<1>4. att' = [att EXCEPT ![n] = r]
  BY <1>3
<1>5. /\ r \in AttemptSet /\ r.pc = k.pc /\ r.turn = k.turn /\ r.steps = k.steps
      /\ r.sent = k.sent /\ r.received = k.received + 1 /\ r.result = k.result
      /\ SameTokens(k, r) /\ r.answer = k.answer
  BY <1>1, <1>3 DEF AttemptSet, SameTokens
<1> HIDE DEF r
<1>6. Local(r, route)
  <2> HIDE DEF k
  <2>1. k.received < k.sent
    BY DEF k
  <2> QED BY <1>1, <1>5, <2>1, LocalReceived
<1>7. StaysIn(k, r)
  BY <1>5 DEF StaysIn
<1> QED BY <1>2, <1>4, <1>5, <1>6, <1>7 DEF Took

\* The message that the forwarder handles belongs to a turn of its attempt.
LEMMA HasMessageIs ==
  ASSUME Shape, NEW n \in Attempts, HasMessage(n)
  PROVE  /\ att[n].received \in Nat /\ att[n].received < att[n].sent
         /\ TurnOf(n) \in 1..Horizon /\ KindOf(n) \in 0..PerTurn - 1
         /\ att[n].received = PerTurn * (TurnOf(n) - 1) + KindOf(n)
         /\ att[n].steps \in Seq(Step) /\ 2 * TurnOf(n) <= Len(att[n].steps)
<1> DEFINE k == att[n]
<1>1. /\ k.received \in Nat /\ k.sent \in Nat /\ k.turn \in Nat /\ k.turn <= Horizon
      /\ k.received < k.sent /\ k.steps \in Seq(Step)
  BY AttemptIs, Numbers DEF AttemptSet, HasMessage
<1>2. k.sent <= PerTurn * k.turn /\ Len(k.steps) = 2 * k.turn
  BY AttemptIs DEF HasMessage, Local, OnChannel
<1>3. k.received < PerTurn * k.turn
  <2>1. PerTurn * k.turn \in Nat
    BY <1>1, Numbers
  <2> QED BY <1>1, <1>2, <2>1
<1>4. PICK t \in Nat, kind \in 0..PerTurn - 1 :
        /\ t = k.received \div PerTurn + 1 /\ kind = k.received % PerTurn
        /\ 1 <= t /\ t <= k.turn /\ k.received = PerTurn * (t - 1) + kind
  BY <1>1, <1>3, MessageIs
<1>5. TurnOf(n) = t /\ KindOf(n) = kind
  BY <1>4 DEF TurnOf, KindOf
<1>6. t \in 1..Horizon /\ 2 * t <= Len(k.steps)
  <2>1. PICK turn \in Nat : turn = k.turn /\ turn <= Horizon /\ t <= turn /\ 1 <= t
    BY <1>1, <1>4
  <2>2. t \in 1..Horizon
    BY <2>1, Numbers
  <2>3. 2 * t <= 2 * turn
    BY <2>1
  <2> QED BY <1>2, <2>1, <2>2, <2>3
<1> QED BY <1>1, <1>4, <1>5, <1>6

\* What a step that handles a message has to show.
LEMMA HandledKeeps ==
  ASSUME LInv, NEW n \in Attempts, NEW r, Took(n, r), StaysIn(att[n], r), r.pc \notin Stop,
         att[n].pc \notin Stop, row'.status = row.status, row'.by = row.by,
         UNCHANGED <<route, leased, entry, dirs>>, faults \subseteq faults', Shared', TurnRows'
  PROVE  LInv'
<1>1. Shape'
  BY ShapeKept DEF LInv
<1>2. Owners'
  BY OwnersKept DEF LInv
<1>3. Workspaces'
  BY WorkspacesKept DEF LInv
<1>4. EndedRow'
  BY EndedRowKept DEF LInv
<1> QED BY <1>1, <1>2, <1>3, <1>4 DEF LInv

LEMMA ReceiveKeeps ==
  ASSUME LInv, NEW n \in Attempts, Receive(n)
  PROVE  LInv'
<1> DEFINE k == att[n]
           i == 2 * (TurnOf(n) - 1) + KindOf(n) + 1
<1>1. /\ HasMessage(n) /\ KindOf(n) \in {0, 1}
      /\ att' = [att EXCEPT ![n] = [k EXCEPT !.received = @ + 1]]
      /\ UNCHANGED <<route, leased, cancel, entry, dirs, turns, rescore>>
      /\ (row' = Appended(i, k.steps[i]) /\ faults' = faults) \/ (Fault("append") /\ row' = row)
  BY DEF Receive, Now, queue, files
<1>2. /\ k.received \in Nat /\ k.received < k.sent
      /\ TurnOf(n) \in 1..Horizon
      /\ k.received = PerTurn * (TurnOf(n) - 1) + KindOf(n)
      /\ k.steps \in Seq(Step) /\ 2 * TurnOf(n) <= Len(k.steps)
  BY <1>1, HasMessageIs DEF LInv
<1>3. PICK r : /\ Took(n, r) /\ StaysIn(k, r)
               /\ r.pc = k.pc /\ r.pc \notin Stop /\ r.received = k.received + 1
  BY <1>1, <1>2, HandledIs DEF LInv
<1>4. /\ row' \in RowSet /\ IsFiniteSet(Filled(row'.steps))
      /\ row'.status = row.status /\ row'.by = row.by
  <2>1. row \in RowSet /\ IsFiniteSet(Filled(row.steps))
    BY DEF LInv, Shape, Shared
  <2>2. k.steps[i] \in Step
    <3>1. i \in 1..Len(k.steps)
      <4>1. PICK len \in Nat : len = Len(k.steps) /\ 2 * TurnOf(n) <= len
        BY <1>2, LenProperties
      <4>2. PICK t \in Nat : t = TurnOf(n) /\ 1 <= t /\ 2 * t <= len
        BY <1>2, <4>1, Numbers
      <4>3. PICK kind \in {0, 1} : kind = KindOf(n)
        BY <1>1
      <4>4. 2 * (t - 1) + kind + 1 \in Int
        BY <4>2, <4>3
      <4>5. 1 <= 2 * (t - 1) + kind + 1 /\ 2 * (t - 1) + kind + 1 <= len
        BY <4>2, <4>3
      <4> QED BY <4>1, <4>2, <4>3, <4>4, <4>5
    <3> HIDE DEF i, k
    <3> QED BY <1>2, <3>1, ElementOfSeq
  <2>3. CASE row' = Appended(i, k.steps[i])
    BY <2>1, <2>2, <2>3, AppendKeepsRow
  <2>4. CASE row' = row
    BY <2>1, <2>4 DEF Filled
  <2> QED BY <1>1, <2>3, <2>4
<1>5. faults \subseteq faults'
  BY <1>1, FaultsGrow
<1>6. Shared'
  BY <1>1, <1>4 DEF LInv, Shape, Shared, Filled
<1>7. TurnRows'
  <2>1. ASSUME route = "repo", RecordTurns, NEW t \in 1..Horizon, PerTurn * t <= r.received
        PROVE  PerTurn * t <= k.received
    <3>1. PerTurn = 3
      BY <2>1 DEF PerTurn
    <3>2. t \in Int /\ TurnOf(n) \in Int
      BY <1>2, Numbers
    <3>3. PICK u \in Int, kind \in {0, 1} : k.received = 3 * (u - 1) + kind
      BY <1>1, <1>2, <3>1, <3>2
    <3>4. 3 * t <= 3 * (u - 1) + kind + 1
      BY <1>3, <2>1, <3>1, <3>3
    <3> HIDE DEF k
    <3>5. 3 * t <= 3 * (u - 1) + kind
      BY <3>2, <3>4
    <3> QED BY <3>1, <3>3, <3>5
  <2>2. \A m \in Attempts : EndedBy(m)' => EndedBy(m)
    BY <1>4 DEF EndedBy
  <2>3. k.received <= r.received
    BY <1>2, <1>3
  <2>4. r.pc \notin {"idle", "dead"} /\ k.pc \notin Stop
    BY <1>3 DEF Stop
  <2> HIDE DEF k
  <2> QED BY <1>1, <1>3, <1>5, <2>1, <2>2, <2>3, <2>4, TurnRowsKept DEF LInv, k
<1> QED BY <1>1, <1>3, <1>4, <1>5, <1>6, <1>7, HandledKeeps

LEMMA RecordTurnKeeps ==
  ASSUME LInv, NEW n \in Attempts, RecordTurn(n)
  PROVE  LInv'
<1> DEFINE k == att[n]
<1>1. /\ HasMessage(n) /\ route = "repo" /\ RecordTurns /\ KindOf(n) = 2
      /\ att' = [att EXCEPT ![n] = [k EXCEPT !.received = @ + 1]]
      /\ UNCHANGED <<route, leased, cancel, entry, dirs, row, rescore>>
      /\ \/ turns' = [turns EXCEPT ![TurnOf(n)] = n] /\ faults' = faults
         \/ Fault("tokenize") /\ turns' = turns
  BY DEF RecordTurn, HasMessage, Now, queue, files
<1>2. PICK u \in 1..Horizon :
        /\ u = TurnOf(n) /\ k.received \in Nat /\ k.received < k.sent
        /\ k.received = PerTurn * (u - 1) + KindOf(n)
  BY <1>1, HasMessageIs DEF LInv
<1>3. PICK r : /\ Took(n, r) /\ StaysIn(k, r)
               /\ r.pc = k.pc /\ r.pc \notin Stop /\ r.received = k.received + 1
  BY <1>1, <1>2, HandledIs DEF LInv
<1>4. faults \subseteq faults' /\ (turns' = turns => "tokenize" \in faults' \/ turns[u] = n)
  BY <1>1, <1>2, FaultsGrow DEF LInv, Shape, Shared
<1>5. turns' \in [1..Horizon -> 0..MaxAttempts]
  <2>1. n \in 0..MaxAttempts
    BY Numbers DEF Attempts
  <2> QED BY <1>1, <2>1 DEF LInv, Shape, Shared
<1>6. Shared'
  BY <1>1, <1>5 DEF LInv, Shape, Shared, Filled
<1>7. PerTurn = 3 /\ PerTurn' = 3 /\ u \in Nat
  BY <1>1, Numbers DEF PerTurn
<1>8. r.received = 3 * u /\ k.received < r.received
  <2>1. PICK received \in Nat : received = k.received
    BY <1>2
  <2>2. received = 3 * (u - 1) + 2
    BY <1>1, <1>2, <1>7, <2>1
  <2>3. r.received = received + 1
    BY <1>3, <2>1
  <2> QED BY <1>7, <2>1, <2>2, <2>3
<1>9. ASSUME NEW t \in 1..Horizon, NEW m \in Attempts, turns'[t] = m
      PROVE  att'[m].pc # "idle" /\ (att'[m].pc # "dead" => 3 * t <= att'[m].received)
  <2>1. CASE t = u /\ m = n
    BY <1>3, <1>7, <1>8, <2>1, TookIs DEF LInv, Stop
  <2>2. CASE turns[t] = m
    <3>1. att[m].pc # "idle" /\ (att[m].pc # "dead" => 3 * t <= att[m].received)
      BY <1>7, <2>2 DEF LInv, TurnRows, At
    <3>2. CASE m # n
      BY <3>1, <3>2, <1>3, TookIs DEF LInv
    <3>3. CASE m = n
      <4>1. att'[m] = r /\ r.pc # "idle" /\ att[m].pc # "dead"
        BY <1>3, <3>3, TookIs DEF LInv, Stop
      <4>2. 3 * t \in Int /\ k.received \in Int /\ r.received \in Int
        BY <1>2, <1>3
      <4> QED BY <1>8, <3>1, <3>3, <4>1, <4>2
    <3> QED BY <3>2, <3>3
  <2>3. turns' = turns \/ turns' = [turns EXCEPT ![u] = n]
    BY <1>1, <1>2
  <2>4. turns \in [1..Horizon -> 0..MaxAttempts]
    BY DEF LInv, Shape, Shared
  <2> QED BY <1>9, <2>1, <2>2, <2>3, <2>4
<1>10. ASSUME faults' \cap {"overlap", "tokenize"} = {},
              NEW m \in Attempts, Active(m)' \/ EndedBy(m)', NEW t \in 1..Horizon,
              3 * t <= att'[m].received
       PROVE  turns'[t] = m
  <2>1. n = leased /\ row.status = "running"
    BY <1>3, <1>4, <1>10 DEF LInv, Owners, Active
  <2>2. m = n
    <3>1. ~EndedBy(m)'
      BY <1>1, <2>1 DEF EndedBy, Ending
    <3>2. att'[m].pc \notin Stop
      BY <1>10, <3>1 DEF Active
    <3>3. CASE m # n
      <4>1. att[m].pc \notin Stop
        BY <1>3, <3>2, <3>3, TookIs DEF LInv
      <4> QED BY <1>4, <1>10, <2>1, <4>1 DEF LInv, Owners, Active
    <3> QED BY <3>3
  <2>3. /\ turns \in [1..Horizon -> 0..MaxAttempts]
        /\ turns' = [turns EXCEPT ![u] = n]
    BY <1>1, <1>2, <1>10, FaultsGrow DEF LInv, Shape, Shared
  <2>4. CASE t = u
    BY <2>2, <2>3, <2>4
  <2>5. CASE t # u
    <3>1. 3 * t <= k.received
      <4>1. t \in Nat /\ 3 * t <= 3 * u
        BY <1>3, <1>8, <1>10, <2>2, TookIs, Numbers DEF LInv
      <4>2. 3 * t <= 3 * u - 1
        BY <1>7, <2>5, <4>1
      <4>3. k.received \in Nat /\ k.received + 1 = 3 * u
        BY <1>2, <1>3, <1>8
      <4> HIDE DEF k
      <4> QED BY <1>7, <4>1, <4>2, <4>3
    <3>2. Active(n) /\ faults \cap {"overlap", "tokenize"} = {}
      BY <1>3, <1>4, <1>10 DEF Active
    <3>3. turns[t] = n
      BY <1>1, <1>7, <3>1, <3>2 DEF LInv, TurnRows
    <3> QED BY <2>2, <2>3, <2>5, <3>3
  <2> QED BY <2>4, <2>5
<1>11. TurnRows'
  BY <1>7, <1>9, <1>10 DEF TurnRows, At
<1> QED BY <1>1, <1>3, <1>4, <1>6, <1>11, HandledKeeps

LEMMA StoreStepKeeps ==
  ASSUME LInv, NEW n \in Attempts, StoreStep(n)
  PROVE  LInv'
<1> DEFINE k == att[n]
           i == k.received + 1
<1>1. /\ k \in AttemptSet /\ Local(k, route) /\ k.pc = "storing" /\ k.received < k.sent
      /\ UNCHANGED <<route, leased, cancel, entry, dirs, turns, rescore>>
  BY AttemptIs DEF LInv, StoreStep, At, queue, files
<1>2. /\ route = "verifiers" /\ k.received \in Nat /\ k.sent \in Nat
      /\ k.sent = Len(k.steps) /\ k.steps \in Seq(Step)
  BY <1>1 DEF Local, InPlace, OnChannel, VerifiersPlaces, AttemptSet
<1>3. PICK r :
        /\ Took(n, r) /\ StaysIn(k, r) /\ r.pc \notin Stop /\ k.received <= r.received
        /\ (row' = Appended(i, k.steps[i]) /\ faults' = faults) \/ (Fault("append") /\ row' = row)
  <2>1. CASE row' = Appended(i, k.steps[i]) /\ faults' = faults /\ Now(n, [k EXCEPT !.received = i])
    <3>1. att' = [att EXCEPT ![n] = [k EXCEPT !.received = @ + 1]]
      BY <2>1 DEF Now
    <3>2. PICK r : /\ Took(n, r) /\ StaysIn(k, r) /\ r.pc \notin Stop /\ r.received = k.received + 1
      BY <1>1, <3>1, HandledIs DEF LInv
    <3> QED BY <1>2, <2>1, <3>2
  <2>2. CASE /\ Fault("append") /\ row' = row
             /\ Now(n, [k EXCEPT !.pc = "closing", !.result = "error",
                                 !.received = k.sent, !.permit = FALSE])
    <3> DEFINE r == [k EXCEPT !.pc = "closing", !.result = "error",
                              !.received = k.sent, !.permit = FALSE]
    <3>1. /\ r \in AttemptSet /\ r.pc = "closing" /\ r.result = "error"
          /\ r.steps = k.steps /\ r.sent = k.sent /\ r.received = k.sent
      BY <1>1, <1>2 DEF AttemptSet, Ended
    <3>2. att' = [att EXCEPT ![n] = r]
      BY <2>2 DEF Now
    <3> HIDE DEF r
    <3>3. Local(r, route)
      <4> HIDE DEF k
      <4> QED BY <1>1, <3>1, LocalVerifiersEnds
    <3>4. StaysIn(k, r)
      BY <1>1, <3>1 DEF StaysIn, InWorkspace
    <3>5. k.received <= r.received
      BY <1>1, <1>2, <3>1
    <3> QED BY <2>2, <3>1, <3>2, <3>3, <3>4, <3>5 DEF Took, Stop
  <2> QED BY <2>1, <2>2 DEF StoreStep
<1>4. /\ row' \in RowSet /\ IsFiniteSet(Filled(row'.steps))
      /\ row'.status = row.status /\ row'.by = row.by
  <2>1. row \in RowSet /\ IsFiniteSet(Filled(row.steps))
    BY DEF LInv, Shape, Shared
  <2>2. k.steps[i] \in Step
    <3>1. i \in 1..Len(k.steps)
      BY <1>1, <1>2
    <3> HIDE DEF i, k
    <3> QED BY <1>2, <3>1, ElementOfSeq
  <2>3. CASE row' = Appended(i, k.steps[i])
    BY <2>1, <2>2, <2>3, AppendKeepsRow
  <2>4. CASE row' = row
    BY <2>1, <2>4 DEF Filled
  <2> QED BY <1>3, <2>3, <2>4
<1>5. faults \subseteq faults'
  BY <1>3, FaultsGrow
<1>6. Shared'
  BY <1>1, <1>4 DEF LInv, Shape, Shared, Filled
<1>7. TurnRows'
  <2>1. \A m \in Attempts : EndedBy(m)' => EndedBy(m)
    BY <1>4 DEF EndedBy
  <2>2. r.pc \notin {"idle", "dead"} /\ k.pc \notin Stop
    BY <1>1, <1>3 DEF Stop
  <2> QED BY <1>1, <1>2, <1>3, <1>5, <2>1, <2>2, TurnRowsKept DEF LInv
<1>8. k.pc \notin Stop
  BY <1>1 DEF Stop
<1> QED BY <1>1, <1>3, <1>4, <1>5, <1>6, <1>7, <1>8, HandledKeeps

\* An attempt begins: the row is emptied.
LEMMA BeginKeeps ==
  ASSUME LInv, NEW n \in Attempts, Begin(n)
  PROVE  LInv'
<1> DEFINE k == att[n]
           pc == IF route = "repo" THEN "mkdir" ELSE "check"
           r  == [Fresh EXCEPT !.pc = pc, !.base = row.tokens]
<1>1. /\ k = Fresh /\ k.pc = "idle" /\ leased = n /\ route \in {"repo", "verifiers"}
      /\ row' = [NoRun EXCEPT !.status = "running", !.count = row.count, !.tokens = row.tokens]
      /\ att' = [att EXCEPT ![n] = r]
      /\ UNCHANGED <<route, leased, cancel, entry, dirs, turns, rescore, faults>>
  BY AttemptIs DEF LInv, Begin, At, Now, queue, files, Local, InPlace
<1>2. row \in RowSet /\ row.tokens \in Nat /\ row.count \in Nat
  BY DEF LInv, Shape, Shared, RowSet
<1>3. pc \in {"mkdir", "check"} /\ pc = IF route = "repo" THEN "mkdir" ELSE "check"
  OBVIOUS
<1> HIDE DEF pc
<1>4. /\ r \in AttemptSet /\ r.pc = pc /\ SameSteps(Fresh, r) /\ SameTokens(Fresh, r)
      /\ r.result = "none"
  <2>1. PICK f \in AttemptSet : f = Fresh /\ f.result = "none"
    BY FreshIs
  <2>2. PICK base \in Nat : base = row.tokens
    BY <1>2
  <2>3. r = [f EXCEPT !.pc = pc, !.base = base]
    BY <2>1, <2>2
  <2> HIDE DEF r
  <2>4. pc \in Stop \cup RepoPlaces \cup VerifiersPlaces \cup Ended
    BY <1>3 DEF RepoPlaces, VerifiersPlaces
  <2>5. r \in AttemptSet /\ r.pc = pc /\ r.result = "none"
    BY <2>1, <2>3, <2>4 DEF AttemptSet
  <2>6. SameSteps(f, r) /\ SameTokens(f, r)
    BY <2>3 DEF AttemptSet, SameSteps, SameTokens
  <2> QED BY <2>1, <2>5, <2>6
<1>5. r.received = 0
  BY <1>4, FreshIs DEF SameSteps
<1> HIDE DEF r
<1>6. Took(n, r)
  BY <1>1, <1>3, <1>4, LocalBegun DEF Took
<1>7. /\ row' \in RowSet /\ row'.status = "running" /\ Filled(row'.steps) = {}
  <2>1. [i \in Slots |-> NoStep] \in [Slots -> Step \cup {NoStep}]
    OBVIOUS
  <2>2. 0 \in 0..MaxAttempts
    BY Numbers
  <2>3. NoRun \in RowSet /\ NoRun.steps = [i \in Slots |-> NoStep]
    BY <2>1, <2>2 DEF NoRun, RowSet
  <2>4. row' \in RowSet /\ row'.status = "running" /\ row'.steps = NoRun.steps
    BY <1>1, <1>2, <2>3 DEF RowSet
  <2> QED BY <2>3, <2>4 DEF Filled
<1>8. Shape'
  <2>1. Shared'
    BY <1>1, <1>7, FS_EmptySet DEF LInv, Shape, Shared
  <2> QED BY <1>1, <1>6, <2>1, ShapeKept DEF LInv
<1>9. Owners'
  BY <1>1, <1>6, <1>7, OwnersKept DEF LInv
<1>11. Workspaces'
  <2>1. pc \notin {"snapshot"} \cup InWorkspace
    BY <1>3 DEF InWorkspace
  <2> SUFFICES ASSUME "overlap" \notin faults', NEW m \in Attempts
               PROVE  /\ att'[m].pc = "snapshot" => m \in dirs
                      /\ att'[m].pc \in InWorkspace => entry.dir = m /\ m \in dirs
                      /\ att'[m].pc \in {"top", "asking", "acting"} => ~entry.finished
                      /\ att'[m].pc = "sending" /\ entry.finished =>
                           att'[m].answer.tool = "finish"
                      /\ m \in dirs /\ faults' \cap {"crash", "snapshot"} = {} =>
                           att'[m].pc \in {"snapshot"} \cup InWorkspace
    BY <1>1 DEF Workspaces, At
  <2>2. CASE m # n
    BY <1>1, <1>6, <2>2, TookIs DEF LInv, Workspaces, At
  <2>3. CASE m = n
    <3>1. m \in dirs => faults' \cap {"crash", "snapshot"} # {}
      BY <1>1, <2>3 DEF LInv, Workspaces, At, InWorkspace
    <3> QED BY <1>4, <1>6, <2>1, <2>3, <3>1, TookIs DEF LInv, InWorkspace
  <2> QED BY <2>2, <2>3
<1>12. TurnRows'
  <2>1. r.pc \notin {"idle", "dead"} /\ k.received = 0
    BY <1>1, <1>3, <1>4, FreshIs
  <2>2. \A m \in Attempts : EndedBy(m)' => EndedBy(m)
    BY <1>7 DEF EndedBy, Ending
  <2>3. 0 <= r.received
    BY <1>5
  <2> QED BY <1>1, <1>5, <1>6, <2>1, <2>2, <2>3, TurnRowsKept DEF LInv
<1>13. EndedRow'
  BY <1>7 DEF EndedRow, Ending
<1> QED BY <1>8, <1>9, <1>11, <1>12, <1>13 DEF LInv

LEMMA SlotsPositive == Slots \subseteq Nat \ {0}
<1>1. \A o \in Outcomes : DOMAIN o.steps \subseteq Nat \ {0}
  <2> SUFFICES ASSUME NEW o \in Outcomes PROVE DOMAIN o.steps \subseteq Nat \ {0}
    OBVIOUS
  <2> DEFINE Plain == [actor : {"policy", "environment"}, tool : {"read", "test", "finish"},
                       rc : {0, 1}, says : SUBSET Criteria]
  <2>1. o.steps \in Seq(Plain)
    BY RolloutLoopAssumption DEF Outcome
  <2>2. DOMAIN o.steps = 1..Len(o.steps) /\ Len(o.steps) \in Nat
    BY <2>1, LenProperties
  <2> QED BY <2>2
<1>2. 1..2 * Horizon \subseteq Nat \ {0}
  BY Numbers
<1> QED BY <1>1, <1>2 DEF Slots

\* A trajectory laid out in the rows is stored in its order.
LEMMA LaidIs ==
  ASSUME NEW s \in Seq(Step)
  PROVE  /\ Laid(s) \in [Slots -> Step \cup {NoStep}]
         /\ Filled(Laid(s)) = Slots \cap 1..Len(s) /\ IsFiniteSet(Filled(Laid(s)))
<1>1. Len(s) \in Nat /\ \A i \in 1..Len(s) : s[i] \in Step
  BY LenProperties, ElementOfSeq
<1>2. \A i \in Slots : i \in Nat \ {0}
  BY SlotsPositive
<1>3. Laid(s) \in [Slots -> Step \cup {NoStep}]
  BY <1>1, <1>2 DEF Laid
<1>4. Filled(Laid(s)) = Slots \cap 1..Len(s)
  BY <1>1, <1>2, NoStepIsNoStep DEF Laid, Filled
<1>5. IsFiniteSet(1..Len(s))
  BY <1>1, FS_Interval
<1>6. IsFiniteSet(Slots \cap 1..Len(s))
  BY <1>5, FS_Subset
<1> QED BY <1>3, <1>4, <1>6

LEMMA KeptIs ==
  ASSUME Shape, NEW n \in Attempts
  PROVE  Kept(n) \in Seq(Step)
<1>1. att[n].steps \in Seq(Step) /\ <<>> \in Seq(Step)
  BY AttemptIs, EmptySeq DEF AttemptSet
<1> QED BY <1>1 DEF Kept

\* What the end of an attempt saves: a reward of the bridge is no rubric's.
LEMMA SavedIs ==
  ASSUME Shape, NEW n \in Attempts, att[n].pc = "closing"
  PROVE  /\ Saved(n) \in RowSet /\ IsFiniteSet(Filled(Saved(n).steps))
         /\ Saved(n).status \in Ending /\ Saved(n).by = n
         /\ Saved(n).steps = Laid(Kept(n)) /\ Saved(n).count = Len(Kept(n))
         /\ Saved(n).reward # NoReward /\ Saved(n).reward.rubric \in Rubrics =>
              Saved(n).reward = Score(Task, Kept(n), Saved(n).errors, Saved(n).reward.rubric)
<1> DEFINE k == att[n]
<1>1. /\ k.result \in {"error"} \cup Ending /\ k.tokens \in Nat /\ k.base \in Nat
      /\ k.errors \in Nat /\ k.reward \in {NoReward} \cup BridgeRewards
      /\ k.steps \in Seq(Step)
  <2>1. k \in AttemptSet /\ InPlace(k, route) /\ k.pc = "closing"
    BY AttemptIs DEF Local
  <2>2. k.result # "none"
    BY <2>1 DEF InPlace, Ended
  <2> QED BY <2>1, <2>2 DEF AttemptSet
<1>2. PICK status \in Ending : status = IF k.result = "error" THEN "failed" ELSE k.result
  BY <1>1 DEF Ending
<1>3. PICK steps \in [Slots -> Step \cup {NoStep}] : steps = Laid(Kept(n))
  BY KeptIs, LaidIs
<1>4. PICK count \in Nat : count = Len(Kept(n))
  BY KeptIs, LenProperties
<1>5. PICK tokens \in Nat : tokens = TokensOf(n)
  BY <1>1 DEF TokensOf
<1>6. PICK errors \in Nat : errors = Errors(n)
  BY <1>1 DEF Errors
<1>7. PICK reward \in {NoReward} \cup RewardSet :
        /\ reward = RewardOf(n)
        /\ reward # NoReward /\ reward.rubric \in Rubrics =>
             reward = Score(Task, Kept(n), errors, reward.rubric)
  <2>1. CASE k.result = "error"
    BY <2>1 DEF RewardOf
  <2>2. CASE k.result # "error" /\ route = "verifiers"
    BY <1>1, <2>2 DEF RewardOf, BridgeRewards, Rubrics
  <2>3. CASE k.result # "error" /\ route # "verifiers"
    <3>1. Len(k.steps) \in Nat /\ DefaultRubric \in Rubrics
      BY <1>1, LenProperties, RolloutLoopAssumption
    <3>2. PICK w : w = Score(Task, k.steps, k.errors, DefaultRubric)
      OBVIOUS
    <3>3. w \in RewardSet /\ w.rubric = DefaultRubric
      BY <3>1, <3>2, ScoreBounded
    <3>4. RewardOf(n) = w /\ Kept(n) = k.steps /\ errors = k.errors
      BY <1>6, <2>3, <3>2 DEF RewardOf, Kept, Errors
    <3> QED BY <3>2, <3>3, <3>4
  <2> QED BY <2>1, <2>2, <2>3
<1>8. n \in 0..MaxAttempts
  BY Numbers DEF Attempts
<1>9. Saved(n) = [status |-> status, steps |-> steps, count |-> count, tokens |-> tokens,
                  errors |-> errors, reward |-> reward, by |-> n]
  BY <1>2, <1>3, <1>4, <1>5, <1>6, <1>7 DEF Saved, Laid
<1>10. IsFiniteSet(Filled(steps))
  BY <1>3, KeptIs, LaidIs
<1>11. Saved(n) \in RowSet
  BY <1>8, <1>9 DEF RowSet
<1> QED BY <1>3, <1>4, <1>7, <1>9, <1>10, <1>11

LEMMA SaveFinalKeeps ==
  ASSUME LInv, NEW n \in Attempts, SaveFinal(n)
  PROVE  LInv'
<1> DEFINE k == att[n]
           r == [k EXCEPT !.pc = "done", !.permit = FALSE]
<1>1. /\ k \in AttemptSet /\ Local(k, route) /\ k.pc = "closing" /\ k.received = k.sent
      /\ k.received \in Nat
  BY AttemptIs DEF LInv, SaveFinal, At, AttemptSet
<1>2. /\ r \in AttemptSet /\ r.pc = "done" /\ r.result = k.result
      /\ SameSteps(k, r) /\ SameTokens(k, r) /\ r.answer = k.answer
  BY <1>1 DEF AttemptSet, SameSteps, SameTokens, Ended
<1>3. /\ att' = [att EXCEPT ![n] = r] /\ row' = Saved(n)
      /\ rescore' = [rescore EXCEPT !.stale = FALSE]
      /\ UNCHANGED <<route, leased, cancel, entry, dirs, turns, faults>>
  BY DEF SaveFinal, Now, queue, files
<1> HIDE DEF r
<1>4. Took(n, r) /\ StaysIn(k, r)
  <2>1. StaysIn(k, r)
    BY <1>1, <1>2 DEF StaysIn, InWorkspace
  <2> HIDE DEF k
  <2> QED BY <1>1, <1>2, <1>3, <2>1, LocalGoesOn DEF Took, k
<1>5. /\ row' \in RowSet /\ IsFiniteSet(Filled(row'.steps))
      /\ row'.status \in Ending /\ row'.by = n
      /\ row'.steps = Laid(Kept(n)) /\ row'.count = Len(Kept(n))
      /\ row'.reward # NoReward /\ row'.reward.rubric \in Rubrics =>
           row'.reward = Score(Task, Kept(n), row'.errors, row'.reward.rubric)
  <2>1. Shape /\ att[n].pc = "closing"
    BY <1>1 DEF LInv
  <2> QED BY <1>3, <2>1, SavedIs
<1>6. Shape'
  <2>1. PICK stage, steps, errors, rubric, stale :
           /\ rescore = [stage |-> stage, steps |-> steps, errors |-> errors,
                         rubric |-> rubric, stale |-> stale]
           /\ Len(steps) \in Nat /\ errors \in Nat /\ stale \in BOOLEAN
           /\ stage = "read" => rubric \in Rubrics
    BY DEF LInv, Shape, Shared, Rescoring
  <2>2. rescore' = [stage |-> stage, steps |-> steps, errors |-> errors,
                    rubric |-> rubric, stale |-> FALSE]
    BY <1>3, <2>1
  <2>3. Rescoring(rescore')
    BY <2>1, <2>2, Zenon DEF Rescoring
  <2>4. Shared'
    BY <1>3, <1>5, <2>3 DEF LInv, Shape, Shared
  <2> QED BY <1>3, <1>4, <2>4, ShapeKept DEF LInv
<1>7. Owners'
  BY <1>1, <1>2, <1>3, <1>4, OwnersKept DEF LInv, Stop
<1>8. Workspaces'
  BY <1>3, <1>4, WorkspacesKept DEF LInv
<1>9. TurnRows'
  <2>1. r.received = k.received /\ r.pc \notin {"idle", "dead"} /\ k.pc \notin Stop
    BY <1>1, <1>2 DEF SameSteps, Stop
  <2>2. \A m \in Attempts : EndedBy(m)' => m = n
    BY <1>5 DEF EndedBy
  <2>3. k.received <= r.received
    BY <1>1, <2>1
  <2> QED BY <1>3, <1>4, <2>1, <2>2, <2>3, TurnRowsKept DEF LInv
<1>10. EndedRow'
  <2>1. att'[n] = r /\ Kept(n)' = Kept(n)
    BY <1>2, <1>4, TookIs DEF LInv, Kept, SameSteps
  <2>2. At(n, "done")' /\ row'.by \in Attempts
    BY <1>2, <1>5, <2>1 DEF At
  <2>3. Kept(row.by)' = Kept(n)
    BY <1>5, <2>1 DEF Kept
  <2>4. At(row.by, "done")'
    BY <1>5, <2>2 DEF At
  <2>5. Laid(Kept(row.by))' = Laid(Kept(n))
    BY <2>3 DEF Laid
  <2> QED BY <1>5, <2>2, <2>3, <2>4, <2>5 DEF EndedRow
<1> QED BY <1>6, <1>7, <1>8, <1>9, <1>10 DEF LInv
-----------------------------------------------------------------------------
(***************************************************************************)
(* The calls of others, crashes and lost leases                            *)
(***************************************************************************)

\* Nothing but a cancel, a rescore or a fault.
LEMMA AsideKeeps ==
  ASSUME LInv, UNCHANGED <<route, att, leased, entry, dirs, turns>>, faults \subseteq faults',
         row'.status = row.status, row'.by = row.by, Shared', EndedRow'
  PROVE  LInv'
<1>1. Shape'
  BY DEF LInv, Shape
<1>2. Owners'
  BY DEF LInv, Owners, Active
<1>3. Workspaces'
  BY DEF LInv, Workspaces, At
<1>4. TurnRows'
  <2>1. PerTurn' = PerTurn /\ \A n \in Attempts : (EndedBy(n)' <=> EndedBy(n)) /\ (Active(n)' <=> Active(n))
    BY DEF PerTurn, EndedBy, Active
  <2> QED BY <2>1 DEF LInv, TurnRows, At
<1> QED BY <1>1, <1>2, <1>3, <1>4 DEF LInv

LEMMA EndedRowStays ==
  ASSUME EndedRow, UNCHANGED <<att, row>>, faults \subseteq faults', rescore'.stale = rescore.stale
  PROVE  EndedRow'
BY DEF EndedRow, At, Kept, Laid

LEMMA CancelKeeps ==
  ASSUME LInv, Cancel
  PROVE  LInv'
<1>1. /\ cancel' = TRUE /\ faults \subseteq faults'
      /\ UNCHANGED <<route, leased, entry, dirs, row, turns, rescore>>
      /\ \/ att' = att
         \/ Active(leased) /\ att' = [att EXCEPT ![leased] = [att[leased] EXCEPT !.signalled = TRUE]]
  BY FaultsGrow DEF Cancel, files, Now
<1>2. Shared'
  BY <1>1 DEF LInv, Shape, Shared
<1>3. CASE att' = att
  BY <1>1, <1>2, <1>3, EndedRowStays, AsideKeeps DEF LInv
<1>4. CASE /\ Active(leased)
           /\ att' = [att EXCEPT ![leased] = [att[leased] EXCEPT !.signalled = TRUE]]
  <2> DEFINE k == att[leased]
             r == [k EXCEPT !.signalled = TRUE]
  <2>1. leased \in Attempts
    BY DEF LInv, Shape, Shared
  <2>2. k \in AttemptSet /\ Local(k, route) /\ k.pc \notin Stop /\ k.received \in Nat
    BY <1>4, <2>1, AttemptIs DEF LInv, Active, AttemptSet
  <2>3. /\ r \in AttemptSet /\ r.pc = k.pc /\ r.result = k.result
        /\ SameSteps(k, r) /\ SameTokens(k, r) /\ r.answer = k.answer
    BY <2>2 DEF AttemptSet, SameSteps, SameTokens
  <2>4. att' = [att EXCEPT ![leased] = r]
    BY <1>4
  <2> HIDE DEF r
  <2>5. Took(leased, r) /\ StaysIn(k, r)
    <3>1. StaysIn(k, r)
      BY <2>3 DEF StaysIn
    <3>2. k.pc \notin {"idle", "dead"}
      BY <2>2 DEF Stop
    <3> HIDE DEF k
    <3> QED BY <1>1, <2>2, <2>3, <2>4, <3>1, <3>2, LocalGoesOn DEF Took, k
  <2>6. TurnRows'
    <3>1. r.received = k.received /\ r.pc \notin {"idle", "dead"} /\ k.received <= r.received
      BY <2>2, <2>3 DEF SameSteps, Stop
    <3>2. \A m \in Attempts : EndedBy(m)' => EndedBy(m)
      BY <1>1 DEF EndedBy
    <3> QED BY <1>1, <2>1, <2>2, <2>5, <3>1, <3>2, TurnRowsKept DEF LInv
  <2> QED BY <1>1, <1>2, <2>1, <2>2, <2>3, <2>5, <2>6, HandledKeeps DEF LInv
<1> QED BY <1>1, <1>3, <1>4

\* The trajectory that a finished run stores is the one that was laid out.
LEMMA StoredOfLaid ==
  ASSUME NEW s \in Seq(Step), DOMAIN s \subseteq Slots, row.steps = Laid(s)
  PROVE  Stored = s
<1>1. Len(s) \in Nat /\ DOMAIN s = 1..Len(s)
  BY LenProperties
<1>2. Filled(row.steps) = 1..Len(s)
  BY <1>1, LaidIs
<1>3. Cardinality(1..Len(s)) = Len(s)
  <2>1. PICK len \in Nat : len = Len(s)
    BY <1>1, Zenon
  <2>2. Cardinality(1..len) = IF 1 > len THEN 0 ELSE len - 1 + 1
    BY FS_Interval
  <2> QED BY <2>1, <2>2
<1>4. \A i \in 1..Len(s) : Cardinality({j \in 1..Len(s) : j <= i}) = i
  <2> SUFFICES ASSUME NEW i \in 1..Len(s) PROVE Cardinality({j \in 1..Len(s) : j <= i}) = i
    OBVIOUS
  <2>1. i \in Nat /\ {j \in 1..Len(s) : j <= i} = 1..i
    BY <1>1
  <2>2. Cardinality(1..i) = i
    BY <2>1, FS_Interval
  <2> QED BY <2>1, <2>2
<1> DEFINE Nth(k) == CHOOSE i \in 1..Len(s) : Cardinality({j \in 1..Len(s) : j <= i}) = k
<1>5. \A k \in 1..Len(s) : Nth(k) = k
  BY <1>4
<1>6. Stored = [k \in 1..Len(s) |-> row.steps[Nth(k)]]
  BY <1>2, <1>3 DEF Stored
<1> HIDE DEF Nth
<1>7. \A k \in 1..Len(s) : row.steps[k] = s[k]
  BY <1>1 DEF Laid
<1>8. Stored = [k \in 1..Len(s) |-> s[k]]
  BY <1>5, <1>6, <1>7
<1> QED BY <1>1, <1>8

\* What a run stores is a trajectory, and that of its attempt if it has ended.
LEMMA StoredIs ==
  ASSUME LInv
  PROVE  /\ Len(Stored) \in Nat
         /\ row.status \in Ending /\ "overlap" \notin faults => Stored = Kept(row.by)
<1>1. PICK count \in Nat : count = Cardinality(Filled(row.steps))
  BY FS_CardinalityType DEF LInv, Shape, Shared
<1>2. Len(Stored) \in Nat
  <2>1. \E f : Stored = [k \in 1..count |-> f[k]]
    <3> DEFINE f == Stored
    <3>1. Stored = [k \in 1..count |-> f[k]]
      BY <1>1 DEF Stored
    <3> QED BY <3>1
  <2>2. PICK f : Stored = [k \in 1..count |-> f[k]]
    BY <2>1
  <2>3. \A k \in 1..count : f[k] \in Range(f) \cup {f[j] : j \in 1..count}
    OBVIOUS
  <2>4. Stored \in Seq({f[j] : j \in 1..count})
    BY <2>2, <2>3
  <2> QED BY <2>4, LenProperties
<1>3. ASSUME row.status \in Ending, "overlap" \notin faults
      PROVE  Stored = Kept(row.by)
  <2>1. PICK n \in Attempts : n = row.by /\ att[n].pc = "done" /\ row.steps = Laid(Kept(n))
    BY <1>3 DEF LInv, EndedRow, At
  <2>2. Kept(n) \in Seq(Step)
    BY KeptIs DEF LInv
  <2>3. DOMAIN Kept(n) \subseteq Slots
    <3>1. CASE att[n].result = "error"
      BY <3>1, EmptySeq DEF Kept
    <3>2. CASE att[n].result # "error" /\ route = "verifiers"
      BY <3>2, AttemptIs DEF LInv, Local, OnChannel, Kept
    <3>3. CASE att[n].result # "error" /\ route = "repo"
      <4>1. /\ att[n].steps \in Seq(Step) /\ att[n].turn \in Nat /\ att[n].turn <= Horizon
            /\ Len(att[n].steps) = 2 * att[n].turn
        BY <3>3, AttemptIs, Numbers DEF LInv, Local, OnChannel, AttemptSet
      <4>2. DOMAIN att[n].steps = 1..Len(att[n].steps)
        BY <4>1, LenProperties
      <4>3. 2 * att[n].turn <= 2 * Horizon
        BY <4>1, Numbers
      <4>4. 1..2 * att[n].turn \subseteq 1..2 * Horizon
        BY <4>1, <4>3, Numbers
      <4> QED BY <3>3, <4>1, <4>2, <4>4 DEF Kept, Slots
    <3> QED BY <3>1, <3>2, <3>3, AttemptIs DEF LInv
  <2> QED BY <2>1, <2>2, <2>3, StoredOfLaid
<1> QED BY <1>2, <1>3

LEMMA RescoringIs ==
  ASSUME NEW stage, NEW steps, NEW errors \in Nat, NEW rubric, NEW stale \in BOOLEAN,
         Len(steps) \in Nat, stage = "read" => rubric \in Rubrics
  PROVE  Rescoring([stage |-> stage, steps |-> steps, errors |-> errors,
                    rubric |-> rubric, stale |-> stale])
BY Zenon DEF Rescoring

LEMMA RescoreReadKeeps ==
  ASSUME LInv, RescoreRead
  PROVE  LInv'
<1>1. PICK stage, steps, errors, rubric, stale :
        /\ rescore = [stage |-> stage, steps |-> steps, errors |-> errors,
                      rubric |-> rubric, stale |-> stale]
        /\ Len(steps) \in Nat /\ errors \in Nat /\ stale \in BOOLEAN
        /\ stage = "read" => rubric \in Rubrics
  BY DEF LInv, Shape, Shared, Rescoring
<1>2. PICK asked \in RescoreRubrics :
        rescore' = [rescore EXCEPT !.stage = "read", !.steps = Stored,
                                   !.errors = row.errors, !.rubric = asked]
  BY Zenon DEF RescoreRead
<1>3. /\ UNCHANGED <<route, att, leased, cancel, entry, dirs, row, turns>>
      /\ faults \subseteq faults'
  BY FaultsGrow DEF RescoreRead, files
<1>4. PICK stored : stored = Stored
  OBVIOUS
<1>5. rescore' = [stage |-> "read", steps |-> stored, errors |-> row.errors,
                  rubric |-> asked, stale |-> stale]
  BY <1>1, <1>2, <1>4
<1>6. Len(stored) \in Nat /\ row.errors \in Nat /\ asked \in Rubrics
  BY <1>4, StoredIs, RolloutLoopAssumption DEF LInv, Shape, Shared, RowSet
<1>7. Rescoring(rescore')
  BY <1>1, <1>5, <1>6, Zenon DEF Rescoring
<1>8. Shared'
  BY <1>3, <1>7 DEF LInv, Shape, Shared
<1>9. EndedRow'
  BY <1>1, <1>3, <1>5, EndedRowStays DEF LInv
<1> QED BY <1>3, <1>8, <1>9, AsideKeeps

\* A reward saved for the steps that were read is a score of the run's steps, or
\* it is marked stale.
LEMMA RescoreSaveKeeps ==
  ASSUME LInv, RescoreSave
  PROVE  LInv'
<1>1. PICK steps, errors, rubric :
        /\ errors \in Nat /\ rubric \in Rubrics
        /\ rescore.steps = steps /\ rescore.errors = errors /\ rescore.rubric = rubric
        /\ Len(steps) \in Nat
  <2>1. PICK stage, steps, errors, rubric, stale :
          /\ rescore = [stage |-> stage, steps |-> steps, errors |-> errors,
                        rubric |-> rubric, stale |-> stale]
          /\ Len(steps) \in Nat /\ errors \in Nat
          /\ stage = "read" => rubric \in Rubrics
    BY DEF LInv, Shape, Shared, Rescoring
  <2>2. /\ rescore.steps = steps /\ rescore.errors = errors /\ rescore.rubric = rubric
        /\ rescore.stage = stage
    BY <2>1
  <2>3. rubric \in Rubrics
    BY <2>1, <2>2 DEF RescoreSave
  <2> QED BY <2>1, <2>2, <2>3, Zenon
<1>2. PICK w \in RewardSet : w = Score(Task, steps, errors, rubric) /\ w.rubric = rubric
  BY <1>1, ScoreBounded
<1>3. PICK stale \in BOOLEAN : stale = (steps # Stored \/ errors # row.errors)
  OBVIOUS
<1>4. /\ row' = [row EXCEPT !.reward = w]
      /\ rescore' = [NoRescore EXCEPT !.stage = "done", !.stale = stale]
      /\ UNCHANGED <<route, att, leased, cancel, entry, dirs, turns, faults>>
  BY <1>1, <1>2, <1>3 DEF RescoreSave, files
<1>5. row \in RowSet /\ IsFiniteSet(Filled(row.steps))
  BY DEF LInv, Shape, Shared
<1>6. /\ row' \in RowSet /\ row'.steps = row.steps /\ row'.status = row.status
      /\ row'.by = row.by /\ row'.count = row.count /\ row'.errors = row.errors
      /\ row'.reward = w
  BY <1>4, <1>5 DEF RowSet
<1>7. rescore' = [stage |-> "done", steps |-> <<>>, errors |-> 0, rubric |-> "none",
                  stale |-> stale]
  BY <1>4 DEF NoRescore
<1>8. Rescoring(rescore')
  <2>1. PICK empty, zero, done, none :
          /\ zero \in Nat /\ Len(empty) \in Nat /\ done # "read"
          /\ rescore' = [stage |-> done, steps |-> empty, errors |-> zero, rubric |-> none,
                         stale |-> stale]
    <3>1. Len(<<>>) \in Nat /\ 0 \in Nat /\ "done" # "read"
      BY EmptySeq
    <3> QED BY <1>7, <3>1
  <2>2. stale \in BOOLEAN
    BY <1>3
  <2> QED BY <2>1, <2>2, RescoringIs
<1>9. Shared'
  BY <1>4, <1>5, <1>6, <1>8 DEF LInv, Shape, Shared
<1>10. EndedRow'
  <2> SUFFICES ASSUME row.status \in Ending, "overlap" \notin faults
               PROVE  /\ row.by \in Attempts /\ At(row.by, "done")
                      /\ row.steps = Laid(Kept(row.by)) /\ row.count = Len(Kept(row.by))
                      /\ ~stale => w = Score(Task, Kept(row.by), row.errors, rubric)
    <3>1. rescore'.stale = stale
      BY <1>7
    <3>2. At(row.by, "done")' = At(row.by, "done") /\ Kept(row.by)' = Kept(row.by)
      BY <1>4, <1>6 DEF At, Kept
    <3>3. Laid(Kept(row.by))' = Laid(Kept(row.by))
      BY <3>2 DEF Laid
    <3> QED BY <1>2, <1>4, <1>6, <3>1, <3>2, <3>3 DEF EndedRow
  <2>1. ~stale => steps = Kept(row.by) /\ errors = row.errors
    BY <1>3, StoredIs
  <2> QED BY <1>2, <2>1 DEF LInv, EndedRow
<1> QED BY <1>4, <1>6, <1>9, <1>10, AsideKeeps

LEMMA CrashKeeps ==
  ASSUME LInv, Crash
  PROVE  LInv'
<1>1. /\ att' = [n \in Attempts |-> IF att[n].pc \notin Stop THEN [Fresh EXCEPT !.pc = "dead"]
                                                            ELSE att[n]]
      /\ leased < MaxAttempts /\ leased' = leased + 1 /\ entry' = NoEntry
      /\ faults' = faults \cup {"crash"}
      /\ UNCHANGED <<route, cancel, dirs, row, turns, rescore>>
  BY FaultsGrow DEF Crash, Active
<1>2. leased \in Nat /\ leased' \in Attempts
  BY <1>1, Numbers DEF LInv, Shape, Shared, Attempts
<1>3. PICK d \in AttemptSet : d = [Fresh EXCEPT !.pc = "dead"] /\ d.pc = "dead"
  BY FreshIs DEF AttemptSet
<1>4. \A n \in Attempts : /\ att[n].pc \notin Stop => att'[n] = d
                          /\ att[n].pc \in Stop => att'[n] = att[n]
                          /\ att'[n].pc \in Stop
  BY <1>1, <1>3 DEF Stop
<1>5. Shape'
  <2>1. entry' \in [dir : 0..MaxAttempts, finished : BOOLEAN]
    BY <1>1, Numbers DEF NoEntry
  <2>2. Shared'
    BY <1>1, <1>2, <2>1 DEF LInv, Shape, Shared
  <2>3. \A n \in Attempts : Local(att'[n], route)
    <3>1. Local(d, route)
      <4>1. route \in {"repo", "verifiers"}
        BY DEF LInv, Shape, Shared
      <4> QED BY <1>3, <4>1, LocalFresh
    <3> QED BY <1>4, <3>1, AttemptIs DEF LInv
  <2> QED BY <1>1, <2>2, <2>3 DEF Shape
<1>6. Owners'
  <2>1. \A n \in Attempts : n > leased' => n > leased
    BY <1>1, <1>2 DEF Attempts
  <2>2. \A n \in Attempts : n > leased' => att'[n].pc = "idle"
    BY <1>4, <2>1 DEF LInv, Owners, Stop
  <2> QED BY <1>4, <2>2 DEF Owners, Active
<1>7. Workspaces'
  <2>1. \A n \in Attempts : att'[n].pc \notin {"snapshot"} \cup InWorkspace
    BY <1>4 DEF Stop, InWorkspace
  <2> QED BY <1>1, <2>1 DEF Workspaces, At, InWorkspace
<1>8. TurnRows'
  <2>1. ASSUME NEW t \in 1..Horizon, NEW n \in Attempts, turns[t] = n
        PROVE  att'[n].pc # "idle" /\ (att'[n].pc # "dead" => PerTurn * t <= att'[n].received)
    BY <1>3, <1>4, <2>1 DEF LInv, TurnRows, At, Stop
  <2>2. ASSUME "overlap" \notin faults', NEW n \in Attempts, Active(n)' \/ EndedBy(n)'
        PROVE  EndedBy(n) /\ att'[n] = att[n]
    <3>1. EndedBy(n) /\ "overlap" \notin faults
      BY <1>1, <1>4, <2>2 DEF Active, EndedBy
    <3>2. att[n].pc \in Stop
      BY <3>1 DEF LInv, Owners, Active, EndedBy, Ending
    <3> QED BY <1>4, <3>1, <3>2
  <2>3. PerTurn' = PerTurn
    BY DEF PerTurn
  <2>4. ASSUME route = "repo", RecordTurns, faults' \cap {"overlap", "tokenize"} = {},
               NEW n \in Attempts, Active(n)' \/ EndedBy(n)', NEW t \in 1..Horizon,
               PerTurn * t <= att'[n].received
        PROVE  turns[t] = n
    <3>1. EndedBy(n) /\ att'[n] = att[n]
      BY <2>2, <2>4
    <3>2. faults \cap {"overlap", "tokenize"} = {}
      BY <1>1, <2>4
    <3> QED BY <2>4, <3>1, <3>2 DEF LInv, TurnRows
  <2> QED BY <1>1, <2>1, <2>3, <2>4 DEF TurnRows, At
<1>9. EndedRow'
  <2> SUFFICES ASSUME row.status \in Ending, "overlap" \notin faults
               PROVE  row.by \in Attempts /\ att'[row.by] = att[row.by]
    BY <1>1 DEF LInv, EndedRow, At, Kept, Laid
  <2>1. row.by \in Attempts /\ att[row.by].pc = "done"
    BY DEF LInv, EndedRow, At
  <2> QED BY <1>4, <2>1 DEF Stop
<1> QED BY <1>5, <1>6, <1>7, <1>8, <1>9 DEF LInv

LEMMA LoseLeaseKeeps ==
  ASSUME LInv, LoseLease
  PROVE  LInv'
<1>1. /\ leased < MaxAttempts /\ leased' = leased + 1 /\ faults' = faults \cup {"overlap"}
      /\ UNCHANGED <<route, att, cancel, entry, dirs, row, turns, rescore>>
  BY FaultsGrow DEF LoseLease, files
<1>2. leased \in Nat /\ leased' \in Attempts
  BY <1>1, Numbers DEF LInv, Shape, Shared, Attempts
<1>3. Shape'
  BY <1>1, <1>2 DEF LInv, Shape, Shared
<1>4. Owners'
  <2>1. \A n \in Attempts : n > leased' => n > leased
    BY <1>1, <1>2 DEF Attempts
  <2> QED BY <1>1, <2>1 DEF LInv, Owners
<1>5. TurnRows'
  <2>1. PerTurn' = PerTurn
    BY DEF PerTurn
  <2> QED BY <1>1, <2>1 DEF LInv, TurnRows, At
<1>6. Workspaces' /\ EndedRow'
  BY <1>1 DEF Workspaces, EndedRow
<1> QED BY <1>3, <1>4, <1>5, <1>6 DEF LInv
-----------------------------------------------------------------------------
(***************************************************************************)
(* The invariant                                                           *)
(***************************************************************************)

LEMMA LInitHolds ==
  ASSUME LInit
  PROVE  LInv
<1>1. \A n \in Attempts : att[n] = Fresh /\ att[n].pc = "idle" /\ att[n].received = 0
  BY FreshIs DEF LInit
<1>2. Shared
  <2>1. NoRun \in RowSet /\ Filled(NoRun.steps) = {}
    <3>1. [i \in Slots |-> NoStep] \in [Slots -> Step \cup {NoStep}]
      OBVIOUS
    <3>2. 0 \in 0..MaxAttempts
      BY Numbers
    <3> QED BY <3>1, <3>2 DEF NoRun, RowSet, Filled
  <2>2. Rescoring(NoRescore)
    <3>1. Len(<<>>) \in Nat /\ 0 \in Nat /\ FALSE \in BOOLEAN /\ "none" # "read"
      BY EmptySeq
    <3> QED BY <3>1, Zenon DEF Rescoring, NoRescore
  <2>3. NoEntry \in [dir : 0..MaxAttempts, finished : BOOLEAN]
    BY Numbers DEF NoEntry
  <2>4. 1 \in Attempts /\ [t \in 1..Horizon |-> 0] \in [1..Horizon -> 0..MaxAttempts]
    BY Numbers DEF Attempts
  <2> QED BY <2>1, <2>2, <2>3, <2>4, FS_EmptySet DEF LInit, Shared
<1>3. Shape
  <2>1. Local(Fresh, route)
    BY FreshIs, LocalFresh DEF LInit
  <2> QED BY <1>1, <1>2, <2>1 DEF Shape, LInit
<1>4. Owners
  BY <1>1 DEF Owners, Active, Stop
<1>5. Workspaces
  BY <1>1 DEF LInit, Workspaces, At, InWorkspace
<1>6. EndedRow
  BY DEF LInit, NoRun, EndedRow, Ending
<1>7. TurnRows
  <2>1. \A n \in Attempts : ~Active(n) /\ ~EndedBy(n)
    BY <1>1 DEF LInit, NoRun, Active, Stop, EndedBy, Ending
  <2>2. \A t \in 1..Horizon : \A n \in Attempts : turns[t] # n
    BY Numbers DEF LInit, Attempts
  <2> QED BY <2>1, <2>2 DEF TurnRows
<1> QED BY <1>3, <1>4, <1>5, <1>6, <1>7 DEF LInv

LEMMA WorkKeeps ==
  ASSUME LInv, NEW n \in Attempts, Work(n)
  PROVE  LInv'
<1>0. Shape
  BY DEF LInv
<1>1. CASE SnapshotFails(n)
  BY <1>0, <1>1, SnapshotFailsMoves, MovesKeep
<1>2. CASE TopOfTurn(n)
  BY <1>0, <1>2, TopOfTurnMoves, MovesKeep
<1>3. CASE Interrupt(n)
  BY <1>0, <1>3, InterruptMoves, MovesKeep
<1>4. CASE Answered(n)
  BY <1>0, <1>4, AnsweredMoves, MovesKeep
<1>5. CASE PolicyFails(n)
  BY <1>0, <1>5, PolicyFailsMoves, MovesKeep
<1>6. CASE Send(n)
  BY <1>0, <1>6, SendMoves, MovesKeep
<1>7. CASE EndTurn(n)
  BY <1>0, <1>7, EndTurnMoves, MovesKeep
<1>8. CASE Check(n)
  BY <1>0, <1>8, CheckMoves, MovesKeep
<1>9. CASE Acquire(n)
  BY <1>0, <1>9, AcquireMoves, MovesKeep
<1>10. CASE CallEnds(n)
  BY <1>0, <1>10, CallEndsMoves, MovesKeep
<1>11. CASE BridgeAnswers(n)
  BY <1>0, <1>11, BridgeAnswersMoves, MovesKeep
<1>12. CASE StoredAll(n)
  BY <1>0, <1>12, StoredAllMoves, MovesKeep
<1>13. CASE Begin(n) \/ MakeDir(n) \/ Snapshot(n) \/ Act(n) \/ Cleanup(n) \/ SaveFinal(n)
  BY <1>13, BeginKeeps, MakeDirKeeps, SnapshotKeeps, ActKeeps, CleanupKeeps, SaveFinalKeeps
<1>14. CASE Receive(n) \/ RecordTurn(n) \/ StoreStep(n)
  BY <1>14, ReceiveKeeps, RecordTurnKeeps, StoreStepKeeps
<1> QED BY <1>1, <1>2, <1>3, <1>4, <1>5, <1>6, <1>7, <1>8, <1>9, <1>10, <1>11, <1>12,
           <1>13, <1>14 DEF Work, Loop, Forwarder, VerifiersPath

LEMMA LNextKeeps ==
  ASSUME LInv, [LNext]_vars
  PROVE  LInv'
<1>1. CASE \E n \in Attempts : Work(n)
  BY <1>1, WorkKeeps
<1>2. CASE Cancel \/ RescoreRead \/ RescoreSave \/ Crash \/ LoseLease
  BY <1>2, CancelKeeps, RescoreReadKeeps, RescoreSaveKeeps, CrashKeeps, LoseLeaseKeeps
<1>3. CASE UNCHANGED vars
  <2>1. UNCHANGED <<route, att, leased, cancel, entry, dirs, row, turns, rescore, faults>>
    BY <1>3 DEF vars
  <2>2. Shared' /\ EndedRow'
    BY <2>1, EndedRowStays DEF LInv, Shape, Shared
  <2> QED BY <2>1, <2>2, AsideKeeps
<1> QED BY <1>1, <1>2, <1>3 DEF LNext

LEMMA LInvInvariant == LSpec => []LInv
<1>1. LInit => LInv
  BY LInitHolds
<1>2. LInv /\ [LNext]_vars => LInv'
  BY LNextKeeps
<1> QED BY <1>1, <1>2, PTL DEF LSpec
-----------------------------------------------------------------------------
(***************************************************************************)
(* What it is for                                                          *)
(***************************************************************************)

LEMMA TypeOfLInv ==
  ASSUME LInv
  PROVE  LTypeOK
<1>1. /\ route \in {"repo", "verifiers"} /\ leased \in Attempts /\ cancel \in BOOLEAN
      /\ entry.dir \in 0..MaxAttempts /\ entry.finished \in BOOLEAN
      /\ dirs \subseteq Attempts /\ turns \in [1..Horizon -> 0..MaxAttempts]
  BY DEF LInv, Shape, Shared
<1>2. /\ row.status \in {"queued", "running"} \cup Ending
      /\ row.steps \in [Slots -> Step \cup {NoStep}]
      /\ row.reward \in {NoReward} \cup RewardSet
  BY DEF LInv, Shape, Shared, RowSet
<1>3. ASSUME NEW n \in Attempts
      PROVE  /\ Range(att[n].steps) \subseteq Step
             /\ att[n].received <= att[n].sent
             /\ route = "repo" => /\ att[n].sent - att[n].received <= Capacity
                                  /\ Len(att[n].steps) = 2 * att[n].turn
             /\ att[n].answer \in Answers \cup {NoAnswer}
  <2>1. /\ att[n].steps \in Seq(Step) /\ att[n].answer \in Answers \cup {NoAnswer}
        /\ OnChannel(att[n], route)
    BY AttemptIs DEF LInv, Local, AttemptSet
  <2>2. Range(att[n].steps) \subseteq Step
    <3>1. \A i \in DOMAIN att[n].steps : att[n].steps[i] \in Step
      BY <2>1, LenProperties, ElementOfSeq
    <3> QED BY <3>1 DEF Range
  <2> QED BY <2>1, <2>2 DEF OnChannel
<1>4. row.reward # NoReward => -10000 <= row.reward.terminal /\ row.reward.terminal <= 10000
  BY <1>2 DEF RewardSet, UpToOne
<1> QED BY <1>1, <1>2, <1>3, <1>4 DEF LTypeOK

\* Whatever the policy and the bridge answer and whatever fails, the channel of
\* an attempt holds no more than its capacity, a repo attempt has two steps per
\* turn, and the reward of the run is between -1 and 1, the bridge's and those of
\* every rubric (Coordinator::execute, run_repo_rollout, rewards::score).
THEOREM LoopTypeCorrect == LSpec => []LTypeOK
BY LInvInvariant, TypeOfLInv, PTL

\* Unless a lease was lost a tool runs in the workspace that its own attempt
\* made, and unless a process crashed or a snapshot failed the directory is gone
\* when the attempt is over (RepoRunner::create_task, step, cleanup_task).
THEOREM WorkspaceKept == LSpec => []WorkspaceLifecycle
<1>1. LInv => WorkspaceLifecycle
  <2> SUFFICES ASSUME LInv PROVE WorkspaceLifecycle
    OBVIOUS
  <2>1. ASSUME "overlap" \notin faults, NEW n \in Attempts, At(n, "acting")
        PROVE  entry = [dir |-> n, finished |-> FALSE] /\ n \in dirs
    <3>1. entry \in [dir : 0..MaxAttempts, finished : BOOLEAN]
      BY DEF LInv, Shape, Shared
    <3>2. entry.dir = n /\ n \in dirs /\ ~entry.finished
      BY <2>1 DEF LInv, Workspaces, InWorkspace, At
    <3> QED BY <3>1, <3>2
  <2>2. ASSUME faults \cap {"overlap", "crash", "snapshot"} = {}, NEW n \in dirs
        PROVE  Active(n)
    <3>1. n \in Attempts
      BY DEF LInv, Shape, Shared
    <3>2. att[n].pc \in {"snapshot"} \cup InWorkspace
      BY <2>2, <3>1 DEF LInv, Workspaces
    <3> QED BY <3>2 DEF Active, InWorkspace, Stop
  <2> QED BY <2>1, <2>2 DEF WorkspaceLifecycle
<1> QED BY <1>1, LInvInvariant, PTL

\* A repo attempt exceeds its token budget by at most its last answer, and
\* completes beyond it only by finishing the task (check_budget after every turn
\* of run_repo_rollout).
THEOREM BudgetKept == LSpec => []BudgetRespected
<1>1. LInv => BudgetRespected
  <2> SUFFICES ASSUME LInv, NEW n \in Attempts, route = "repo"
               PROVE  /\ att[n].tokens - att[n].last <= MaxTokens
                      /\ att[n].result = "completed" /\ att[n].tokens > MaxTokens =>
                           att[n].steps[Len(att[n].steps) - 1].tool = "finish"
    BY DEF BudgetRespected
  <2>1. InBudget(att[n], route)
    BY AttemptIs DEF LInv, Local
  <2> QED BY <2>1 DEF InBudget
<1> QED BY <1>1, LInvInvariant, PTL

LEMMA WorkIsOf ==
  ASSUME Shape, NEW n \in Attempts, Work(n)
  PROVE  (Active(n) \/ Begin(n)) /\ \E r : Now(n, r)
<1>1. CASE Begin(n) \/ MakeDir(n) \/ Snapshot(n) \/ SnapshotFails(n) \/ TopOfTurn(n) \/ Interrupt(n)
  BY <1>1 DEF Begin, MakeDir, Snapshot, SnapshotFails, TopOfTurn, Interrupt, At, Active, Stop
<1>2. CASE Answered(n) \/ PolicyFails(n) \/ Act(n) \/ Send(n) \/ EndTurn(n) \/ Cleanup(n) \/ SaveFinal(n)
  BY <1>2, Zenon
     DEF Answered, PolicyFails, Act, Send, EndTurn, Cleanup, SaveFinal, At, Active, Stop
<1>3. CASE Receive(n) \/ RecordTurn(n)
  <2>1. HasMessage(n) /\ \E r : Now(n, r)
    BY <1>3 DEF Receive, RecordTurn
  <2>2. att[n].received < att[n].sent /\ att[n].received \in Nat /\ att[n].sent \in Nat
    BY <2>1, AttemptIs DEF HasMessage, AttemptSet
  <2>3. att[n].pc \in Stop => att[n].received = att[n].sent
    BY AttemptIs DEF Local, OnChannel
  <2> QED BY <2>1, <2>2, <2>3 DEF Active
<1>4. CASE Check(n) \/ Acquire(n) \/ CallEnds(n) \/ BridgeAnswers(n) \/ StoreStep(n) \/ StoredAll(n)
  BY <1>4, Zenon
     DEF Check, Acquire, CallEnds, BridgeAnswers, StoreStep, StoredAll, At, Active, Stop
<1> QED BY <1>1, <1>2, <1>3, <1>4 DEF Work, Loop, Forwarder, VerifiersPath

\* Only what an active attempt does is stored of it.
LEMMA ReceivesActive ==
  ASSUME LInv, LNext, NEW n \in Attempts, att'[n].received > att[n].received
  PROVE  Active(n)
<1>1. Shape /\ att[n].received \in Nat /\ DOMAIN att = Attempts
  BY AttemptIs DEF LInv, Shape, AttemptSet
<1>2. ASSUME NEW m \in Attempts, Work(m) PROVE Active(n)
  <2>1. PICK r : att' = [att EXCEPT ![m] = r] /\ (Active(m) \/ Begin(m))
    BY <1>1, <1>2, WorkIsOf DEF Now
  <2>2. n = m
    BY <1>1, <2>1
  <2>3. ~Begin(m)
    <3>1. Begin(m) => att'[n].received = 0
      BY <1>1, <2>2 DEF Begin, Now, Fresh
    <3> QED BY <1>1, <3>1
  <2> QED BY <2>1, <2>2, <2>3
<1>3. ASSUME Cancel PROVE FALSE
  <2>1. \/ att' = att
        \/ att' = [att EXCEPT ![leased] = [att[leased] EXCEPT !.signalled = TRUE]]
    BY <1>3 DEF Cancel, Now
  <2>2. att[leased] \in AttemptSet /\ leased \in Attempts
    BY AttemptIs DEF LInv, Shape, Shared
  <2>3. PICK r : r = [att[leased] EXCEPT !.signalled = TRUE] /\ r.received = att[leased].received
    <3>1. [att[leased] EXCEPT !.signalled = TRUE].received = att[leased].received
      BY <2>2 DEF AttemptSet
    <3> QED BY <3>1, Zenon
  <2>4. att'[n].received = att[n].received
    BY <1>1, <2>1, <2>2, <2>3
  <2> QED BY <1>1, <2>4
<1>4. ASSUME Crash PROVE FALSE
  <2>1. att'[n] = att[n] \/ att'[n] = [Fresh EXCEPT !.pc = "dead"]
    BY <1>4 DEF Crash
  <2>2. [Fresh EXCEPT !.pc = "dead"].received = 0
    BY DEF Fresh
  <2>3. att'[n].received \in {att[n].received, 0}
    BY <2>1, <2>2
  <2> QED BY <1>1, <2>3
<1>5. ASSUME RescoreRead \/ RescoreSave \/ LoseLease PROVE FALSE
  <2>1. att' = att
    BY <1>5, Zenon DEF RescoreRead, RescoreSave, LoseLease
  <2> QED BY <1>1, <2>1
<1> QED BY <1>2, <1>3, <1>4, <1>5 DEF LNext

\* Nothing is stored of an attempt once its run is saved as ended, unless a lease
\* was lost: the forwarder is joined first, and what it still had to handle was
\* handled (the join of the forwarder before finish() in Coordinator::execute).
THEOREM LastWordKept == LSpec => LastWord
<1>1. LInv /\ [LNext]_vars =>
        [\A n \in Attempts : att'[n].received > att[n].received /\ "overlap" \notin faults
           => row.status = "running"]_vars
  <2> SUFFICES ASSUME LInv, LNext, NEW n \in Attempts,
                      att'[n].received > att[n].received, "overlap" \notin faults
               PROVE  row.status = "running"
    OBVIOUS
  <2>1. Active(n)
    BY ReceivesActive
  <2> QED BY <2>1 DEF LInv, Owners
<1> QED BY <1>1, LInvInvariant, PTL DEF LSpec, LastWord

\* Every policy step a finished run holds has the training row of the attempt that ended
\* it, unless tokenizing failed, and that attempt left no row for a step it did not save,
\* unless an error dropped them (the forwarder's order of step and turn messages and the
\* join before finish()).  Rows beyond its last turn may be left of a longer attempt that
\* crashed: nothing deletes them.
THEOREM TurnsKept == LSpec => []TurnsMatchSteps
<1>1. LInv => TurnsMatchSteps
  <2> SUFFICES ASSUME LInv, row.status \in Ending, route = "repo", RecordTurns,
                      "overlap" \notin faults, NEW t \in 1..Horizon
               PROVE  /\ row.steps[2 * t - 1] # NoStep /\ "tokenize" \notin faults =>
                           turns[t] = row.by
                      /\ turns[t] = row.by /\ att[row.by].result # "error" =>
                           row.steps[2 * t - 1] # NoStep
    BY DEF TurnsMatchSteps
  <2>1. PICK n \in Attempts : n = row.by /\ att[n].pc = "done" /\ row.steps = Laid(Kept(n))
    BY DEF LInv, EndedRow, At
  <2>2. /\ att[n].turn \in Nat /\ att[n].turn <= Horizon /\ att[n].steps \in Seq(Step)
        /\ Len(att[n].steps) = 2 * att[n].turn
        /\ att[n].received = PerTurn * att[n].turn /\ att[n].received \in Nat
    <3>1. att[n] \in AttemptSet /\ OnChannel(att[n], "repo")
      BY AttemptIs DEF LInv, Local
    <3> QED BY <2>1, <3>1, Numbers DEF OnChannel, AttemptSet, Stop
  <2>3. t \in Nat /\ 1 <= t /\ 2 * t - 1 \in Slots
    BY Numbers DEF Slots
  <2>4. PerTurn = 3
    BY DEF PerTurn
  <2>5. PerTurn * t <= att[n].received <=> 2 * t - 1 <= Len(att[n].steps)
    <3>1. PICK u \in Nat : u = att[n].turn
      BY <2>2
    <3>2. 3 * t <= 3 * u <=> 2 * t - 1 <= 2 * u
      BY <2>3
    <3> QED BY <2>2, <2>4, <3>1, <3>2
  <2>6. ASSUME row.steps[2 * t - 1] # NoStep, "tokenize" \notin faults
        PROVE  turns[t] = n
    <3>1. 2 * t - 1 <= Len(Kept(n))
      BY <2>1, <2>3, <2>6 DEF Laid
    <3>2. Kept(n) = att[n].steps
      BY <2>3, <3>1, EmptySeq DEF Kept
    <3>3. PerTurn * t <= att[n].received
      BY <2>5, <3>1, <3>2
    <3>4. EndedBy(n) /\ faults \cap {"overlap", "tokenize"} = {}
      BY <2>1, <2>6 DEF EndedBy
    <3> QED BY <3>3, <3>4 DEF LInv, TurnRows
  <2>7. ASSUME turns[t] = n, att[n].result # "error"
        PROVE  row.steps[2 * t - 1] # NoStep
    <3>1. PerTurn * t <= att[n].received
      BY <2>1, <2>7 DEF LInv, TurnRows, At
    <3>2. 2 * t - 1 \in 1..Len(att[n].steps)
      BY <2>2, <2>3, <2>5, <3>1
    <3>3. att[n].steps[2 * t - 1] \in Step
      BY <2>2, <3>2, ElementOfSeq
    <3>4. row.steps[2 * t - 1] = att[n].steps[2 * t - 1]
      BY <2>1, <2>3, <2>7, <3>2 DEF Laid, Kept
    <3> QED BY <3>3, <3>4, NoStepIsNoStep
  <2> QED BY <2>1, <2>6, <2>7
<1> QED BY <1>1, LInvInvariant, PTL

\* A finished run holds the trajectory of the attempt that ended it, whatever was
\* appended, lost or left before, and a rubric's reward is the score of exactly
\* these steps unless a rescore saved a stale one (finish(), save_run's rewrite
\* of the steps, rescore_run).
THEOREM StoredKept == LSpec => []StoredIsFinishers
<1>1. LInv => StoredIsFinishers
  <2> SUFFICES ASSUME LInv, row.status \in Ending, "overlap" \notin faults
               PROVE  /\ Stored = Kept(row.by) /\ row.count = Len(Stored)
                      /\ row.reward # NoReward /\ row.reward.rubric \in Rubrics
                           /\ ~rescore.stale =>
                           row.reward = Score(Task, Stored, row.errors, row.reward.rubric)
    BY DEF StoredIsFinishers
  <2>1. Stored = Kept(row.by)
    BY StoredIs
  <2> QED BY <2>1 DEF LInv, EndedRow
<1> QED BY <1>1, LInvInvariant, PTL
=============================================================================

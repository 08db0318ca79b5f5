----------------------------- MODULE Statistics -----------------------------
(***************************************************************************)
(* What the dashboard computes from the tables of runs and steps: the rolled *)
(* up figures of stats, the buckets of timeseries, the reward histogram and  *)
(* the percentiles.                                                         *)
(*                                                                          *)
(* A table is a function from runs to rows: status, started, finished,       *)
(* reward, and at and took, the time and duration of the one policy step of  *)
(* the run.  Times are seconds, a reward is an integer in -Unit..Unit, a     *)
(* column that is NULL is None, a mean is a sum and a count.                 *)
(***************************************************************************)
EXTENDS Integers, FiniteSets, FiniteSetsExt, Functions

CONSTANTS
  Unit, None,
  Scored,    \* 50, the runs that mean_reward looks at
  Sampled    \* 5000, the steps that a latency of stats looks at

Least(x, y) == IF x <= y THEN x ELSE y
Clamped(x, lo, hi) == IF x < lo THEN lo ELSE Least(x, hi)

Where(t, status) == {r \in DOMAIN t : t[r].status = status}

\* WHERE finished_at IS NOT NULL AND finished_at >= since.
FinishedSince(t, since) == {r \in DOMAIN t : t[r].finished # None /\ t[r].finished >= since}

MeanReward(t, runs) ==
  LET scored == {r \in runs : t[r].reward # None}
  IN  <<MapThenSumSet(LAMBDA r : t[r].reward, scored), Cardinality(scored)>>
-----------------------------------------------------------------------------
\* percentiles: nearest rank in the sorted samples.
RankBelow(p, n) == Clamped((p * n) \div 100, 1, n)
Rank(p, n) == Clamped((p * n + 99) \div 100, 1, n)

SteppedSince(t, since) == {r \in DOMAIN t : t[r].at # None /\ t[r].at >= since}

\* ORDER BY column DESC LIMIT n.
Newest(t, rows, column, n) ==
  CHOOSE last \in kSubset(Least(n, Cardinality(rows)), rows) :
    \A r \in last, s \in rows \ last : t[r][column] >= t[s][column]

\* The samples of these runs, sorted.
Sorted(t, runs) ==
  CHOOSE v \in Bijection(1..Cardinality(runs), runs) :
    \A i, j \in 1..Cardinality(runs) : i < j => t[v[i]].took <= t[v[j]].took

Percentiles(t, runs) ==
  LET n == Cardinality(runs)
      v == Sorted(t, runs)
      pick(p) == t[v[Rank(p, n)]].took
  IN  IF runs = {} THEN [samples |-> 0, p50 |-> 0, p95 |-> 0, p99 |-> 0]
      ELSE [samples |-> n, p50 |-> pick(50), p95 |-> pick(95), p99 |-> pick(99)]

\* The last completed runs with a reward, in the order of finished_at.
LastScored(t) ==
  Newest(t, {r \in Where(t, "completed") : t[r].reward # None}, "finished", Scored)

\* Store::stats over the trailing window.
Stats(t, now, window) ==
  LET recent == FinishedSince(t, now - window)
  IN  [running   |-> Cardinality(Where(t, "running")),
       queued    |-> Cardinality(Where(t, "queued")),
       completed |-> Cardinality(recent \cap Where(t, "completed")),
       failed    |-> Cardinality(recent \cap Where(t, "failed")),
       reward    |-> MeanReward(t, LastScored(t)),
       latency   |-> Percentiles(t, Newest(t, SteppedSince(t, now - window), "at", Sampled))]
-----------------------------------------------------------------------------
\* Store::timeseries: the first bucket is aligned, the last one is still open.
StartOf(now, window, bucket) == ((now - window) \div bucket) * bucket
Buckets(now, window, bucket) == (now - StartOf(now, window, bucket)) \div bucket + 1

IndexOf(time, start, bucket) == (time - start) \div bucket + 1

InFlightAt(t, time) ==
  Cardinality({r \in DOMAIN t :
                 /\ t[r].started # None /\ t[r].started <= time
                 /\ \/ t[r].finished = None
                    \/ t[r].finished > time})

Series(t, now, window, bucket) ==
  LET start == StartOf(now, window, bucket)
      runsOf(i) == {r \in FinishedSince(t, start) : IndexOf(t[r].finished, start, bucket) = i}
      stepsOf(i) == {r \in SteppedSince(t, start) : IndexOf(t[r].at, start, bucket) = i}
  IN  [i \in 1..Buckets(now, window, bucket) |->
        [from      |-> start + (i - 1) * bucket,
         completed |-> Cardinality(runsOf(i) \cap Where(t, "completed")),
         failed    |-> Cardinality(runsOf(i) \cap Where(t, "failed")),
         reward    |-> MeanReward(t, runsOf(i)),
         latency   |-> Percentiles(t, stepsOf(i)).p95,
         running   |-> InFlightAt(t, Least(start + i * bucket, now))]]

\* Store::reward_histogram over [-Unit, Unit].
BinBelow(reward, bins) == ((Clamped(reward, -Unit, Unit) + Unit) * bins) \div (2 * Unit)
BinOf(reward, bins) == Least(BinBelow(reward, bins), bins - 1) + 1

Histogram(t, now, window, bins) ==
  [b \in 1..bins |-> Cardinality({r \in FinishedSince(t, now - window) :
                                 t[r].reward # None /\ BinOf(t[r].reward, bins) = b})]
=============================================================================

------------------------------ MODULE Dashboard ------------------------------
(***************************************************************************)
(* What a dashboard sees: the nodes of the fleet, through events, and the    *)
(* figures the server computes from its tables for one request.  The rows    *)
(* of a table are any that the coordinator may have saved, see RolloutRun.   *)
(***************************************************************************)
EXTENDS Fleet, Statistics

CONSTANTS
  Runs,      \* the runs of a table
  Times,     \* bound: the times in its rows
  Now,       \* the time of the request
  Windows, BucketSizes, Bins   \* bound: the parameters of a request

ASSUME DashboardAssumption ==
  /\ IsFiniteSet(Runs) /\ Now \in Int /\ Times \subseteq Int /\ \A time \in Times : time <= Now
  /\ Windows \subseteq Nat /\ BucketSizes \cup Bins \cup {Unit, Scored, Sampled} \subseteq Nat \ {0}
  /\ None \notin Int

VARIABLE answer   \* the request that is answered, with its figures
dvars == <<fvars, answer>>

NoAnswer == <<>>

\* A run that was cancelled before it started has neither time, one that was rejected
\* for the budget never started, and the step of a run lasts until its end.  The cancel of
\* a run that another process just started saves the manifest without the times over its
\* row, the steps stay; and so they do when its job is leased again and rejected.
Rows ==
  LET row(status, started, finished, reward, at, took) ==
        [status |-> status, started |-> started, finished |-> finished,
         reward |-> reward, at |-> at, took |-> took]
  IN  {row(s, None, None, None, None, None) : s \in {"queued", "cancelled"}}
        \cup {row("cancelled", None, None, None, at, 0) : at \in Times}
        \cup {row("failed", None, to, None, None, None) : to \in Times}
        \cup {row("failed", None, to, None, at, 0) : to \in Times, at \in Times}
        \cup {row("running", from, None, None, at, 0) : from \in Times, at \in Times}
        \cup {row(s, from, to, r, to, to - from) :
                s \in {"completed", "failed", "cancelled"}, from \in Times, to \in Times,
                r \in {None, -Unit, 0, Unit}}

Legal(r) ==
  /\ r.started # None /\ r.finished # None => r.started <= r.finished
  /\ r.started # None /\ r.at # None => r.started <= r.at
  /\ r.at # None /\ r.finished # None => r.at <= r.finished

DInit == FInit /\ answer = NoAnswer

\* GET /api/stats, /api/stats/timeseries and /api/stats/rewards.  Bound: they are asked
\* before any loop of the fleet has started, of which they are independent.
Unstarted == faults = {} /\ proc = [p \in Procs |-> Started] /\ node = [n \in Nodes |-> Absent]

Ask ==
  /\ answer = NoAnswer /\ Unstarted
  /\ \E t \in [Runs -> {r \in Rows : Legal(r)}], w \in Windows, b \in BucketSizes, n \in Bins :
       answer' = [table |-> t, window |-> w, bucket |-> b,
                  stats |-> Stats(t, Now, w), series |-> Series(t, Now, w, b),
                  bins |-> Histogram(t, Now, w, n)]
  /\ UNCHANGED fvars

Respond == answer # NoAnswer /\ answer' = NoAnswer /\ UNCHANGED fvars

DNext ==
  \/ answer = NoAnswer /\ FNext /\ UNCHANGED answer
  \/ Ask \/ Respond

DSpec == DInit /\ [][DNext]_dvars /\ FFairness /\ WF_dvars(Respond)
-----------------------------------------------------------------------------
Total(f) == FoldFunction(LAMBDA x, sum : x + sum, 0, f)

Column(name) == [i \in DOMAIN answer.series |-> answer.series[i][name]]

\* Every run that ended in the window is in one bucket and no run is in two; the open
\* bucket counts as in flight what stats counts as running.
SeriesAdds ==
  LET t == answer.table  from == answer.series[1].from
  IN  /\ from <= Now - answer.window
      /\ \A status \in {"completed", "failed"} :
           /\ Total(Column(status)) = Cardinality(FinishedSince(t, from) \cap Where(t, status))
           /\ Total(Column(status)) >= answer.stats[status]
      /\ answer.series[Len(answer.series)].running = answer.stats.running

\* Every reward of the window is in one bin.
BinsAdd ==
  Total(answer.bins) =
    Cardinality({r \in FinishedSince(answer.table, Now - answer.window) : answer.table[r].reward # None})

\* The percentiles are those of the last steps of the window: each is the least of
\* these samples with at least that share of them at or below it.
PercentilesRight ==
  LET t == answer.table
      steps == SteppedSince(t, Now - answer.window)
      below(runs, x) == Cardinality({r \in runs : t[r].took <= x})
      right(runs, p, x) ==
        /\ 100 * below(runs, x) >= p * Cardinality(runs)
        /\ \A r \in runs : t[r].took < x => 100 * below(runs, t[r].took) < p * Cardinality(runs)
  IN  steps # {} => \E runs \in SUBSET steps :
        /\ Cardinality(runs) = Least(Sampled, Cardinality(steps))
        /\ \A r \in runs, s \in steps \ runs : t[r].at >= t[s].at
        /\ right(runs, 50, answer.stats.latency.p50)
        /\ right(runs, 95, answer.stats.latency.p95)
        /\ right(runs, 99, answer.stats.latency.p99)

\* What the dashboard is told about the same runs on different ways agrees: buckets,
\* bins and figures neither lose a run nor count it twice, whatever window, bucket and
\* number of bins are asked for.
AnswersAgree == answer # NoAnswer => SeriesAdds /\ BinsAdd /\ PercentilesRight
=============================================================================

------------------------------ MODULE JobQueue ------------------------------
(***************************************************************************)
(* The `jobs` table of horizon-store (SqliteStore) and the processes that  *)
(* work on it: the JobRunner of horizon-server, its heartbeats, and the    *)
(* handler that flags a job for cancellation.                              *)
(*                                                                         *)
(* Several processes share the database file.  Inside one process every    *)
(* Store method runs under one connection mutex; between processes only    *)
(* single statements and transactions are atomic.  What a task does while  *)
(* it executes a job is abstracted to the outcome it reports: module       *)
(* RolloutRun refines it for rollouts.                                     *)
(***************************************************************************)
EXTENDS Integers, FiniteSets

CONSTANTS
  Jobs,         \* identities of the rows that may be inserted
  Workers,      \* processes, each with its own worker_id (the lease owner)
  Rollouts,     \* the jobs of kind 'rollout'; the others are 'training'
  BadPayload,   \* rollouts whose payload this program cannot parse
  MaxAttempts,  \* settings.job_max_attempts
  Slots,        \* settings.max_parallel_rollouts (at least 1)
  MaxFaults,    \* bound: crashes, exits, spurious expiries and lost writes
  NoWorker      \* lease_owner IS NULL

ASSUME JobQueueAssumption ==
  /\ Rollouts \subseteq Jobs /\ BadPayload \subseteq Rollouts
  /\ MaxAttempts \in Nat
  /\ Slots \in Nat \ {0}
  /\ MaxFaults \in Nat
  /\ NoWorker \notin Workers

VARIABLES
  jobs,      \* the table: one row per job, "absent" before the INSERT
  inserted,  \* how many rows exist; stands for the order of created_at
  tasks,     \* tokio tasks spawned by the runners, one per lease
  cancels,   \* request_cancel calls between their SELECT and their UPDATE
  up,        \* state of each process
  permits,   \* free permits of each process's rollout semaphore
  faults     \* faults so far, at most MaxFaults

vars == <<jobs, inserted, tasks, cancels, up, permits, faults>>
-----------------------------------------------------------------------------
Terminal == {"completed", "failed", "cancelled"}
Status   == {"absent", "queued", "running"} \cup Terminal

\* lease_until against the current time: NULL, in the future, in the past.
Lease == {"none", "live", "expired"}

Row == [status: Status, owner: Workers \cup {NoWorker}, lease: Lease,
        attempts: Nat, cancel: BOOLEAN, created: Nat]

\* A task holds the copy of the row it leased: n is the row's attempts then.
\* heart: its heartbeat task is running.  outcome: what execute() returned.
Task == [job: Jobs, n: Nat \ {0}, worker: Workers,
         phase: {"leased", "executing", "finishing"}, heart: BOOLEAN,
         outcome: Terminal \cup {"none"}]

Cancel == [worker: Workers, job: Jobs, sawQueued: BOOLEAN]

IsRollout(j) == j \in Rollouts

\* No call of this process holds the connection mutex (with_conn).
ConnFree(w) == up[w] # "down" /\ \A c \in cancels : c.worker # w

LeasableLive(j) == ~jobs[j].cancel /\ jobs[j].status \in {"queued", "running"}

LeasableOnce(j) == ~jobs[j].cancel /\ jobs[j].status = "queued"

\* The WHERE clause of lease_job, without the kind.
Leasable(j) ==
  /\ ~jobs[j].cancel
  /\ \/ jobs[j].status = "queued"
     \/ jobs[j].status = "running" /\ jobs[j].lease = "expired"

SameKind(i, j) == IsRollout(i) <=> IsRollout(j)

OldestAny(j) == TRUE

\* ORDER BY created_at ASC LIMIT 1.
Oldest(j) ==
  \A i \in Jobs : Leasable(i) /\ SameKind(i, j) => jobs[j].created <= jobs[i].created

ClaimUncounted(w, j) ==
  [jobs EXCEPT ![j] =
    [@ EXCEPT !.status = "running", !.owner = w, !.lease = "live"]]

\* The UPDATE of lease_job.
Claim(w, j) ==
  [jobs EXCEPT ![j] =
    [@ EXCEPT !.status = "running", !.owner = w, !.lease = "live",
              !.attempts = jobs[j].attempts + 1]]

\* The task of the attempt the row counts last is still alive.
CurrentTaskAlive(j) == \E t \in tasks : t.job = j /\ t.n = jobs[j].attempts

\* try_acquire_owned: only a rollout needs a permit.
MayLease(w, j) == IsRollout(j) => permits[w] > 0

\* drop(permit) at the end of run_rollout_job; training jobs hold none.
ReleasePermit(t) ==
  permits' = IF IsRollout(t.job)
             THEN [permits EXCEPT ![t.worker] = @ + 1] ELSE permits

Fault == faults < MaxFaults /\ faults' = faults + 1
-----------------------------------------------------------------------------
Init ==
  /\ jobs = [j \in Jobs |-> [status |-> "absent", owner |-> NoWorker,
               lease |-> "none", attempts |-> 0, cancel |-> FALSE, created |-> 0]]
  /\ inserted = 0
  /\ tasks = {}
  /\ cancels = {}
  /\ up = [w \in Workers |-> "up"]
  /\ permits = [w \in Workers |-> Slots]
  /\ faults = 0

\* enqueue_job: the INSERT.
Enqueue(w, j) ==
  /\ ConnFree(w)
  /\ jobs[j].status = "absent"
  /\ jobs' = [jobs EXCEPT ![j] =
               [@ EXCEPT !.status = "queued", !.created = inserted + 1]]
  /\ inserted' = inserted + 1
  /\ UNCHANGED <<tasks, cancels, up, permits, faults>>

\* One turn of the runner loop that finds a job: the permit is taken first
\* (rollouts), the row is claimed in one transaction, a task is spawned.
LeaseJob(w, j) ==
  /\ ConnFree(w) /\ up[w] = "up"
  /\ MayLease(w, j)
  /\ Leasable(j) /\ Oldest(j)
  /\ jobs' = Claim(w, j)
  /\ tasks' = tasks \cup {[job |-> j, n |-> jobs[j].attempts + 1, worker |-> w,
                           phase |-> "leased", heart |-> FALSE, outcome |-> "none"]}
  /\ permits' = IF IsRollout(j) THEN [permits EXCEPT ![w] = @ - 1] ELSE permits
  /\ UNCHANGED <<inserted, cancels, up, faults>>

\* finish_job: one UPDATE by primary key, whoever calls it.
FinishRow(j, s) ==
  jobs' = [jobs EXCEPT ![j] = [@ EXCEPT !.status = s, !.lease = "none"]]

WithinLimitOffByOne(t) == t.n <= MaxAttempts + 1

WithinLimit(t) == t.n <= MaxAttempts

\* The payload parses, and job.attempts is within job_max_attempts.
Executable(t) == t.job \notin BadPayload /\ WithinLimit(t)

\* Either test fails: the task fails the job without an execution.
GiveUp(t) ==
  /\ t.phase = "leased" /\ ~Executable(t) /\ ConnFree(t.worker)
  /\ FinishRow(t.job, "failed")
  /\ tasks' = tasks \ {t}
  /\ ReleasePermit(t)
  /\ UNCHANGED <<inserted, cancels, up, faults>>

\* spawn_heartbeat, then execute() begins.
BeginExecute(t) ==
  /\ t.phase = "leased" /\ Executable(t)
  /\ tasks' = (tasks \ {t}) \cup {[t EXCEPT !.phase = "executing", !.heart = TRUE]}
  /\ UNCHANGED <<jobs, inserted, cancels, up, permits, faults>>

Holds(t) == jobs[t.job].status = "running" /\ jobs[t.job].owner = t.worker

\* heartbeat_job: renews the lease of a running row with this owner; when no
\* row matches the heartbeat task ends and the execution goes on without it.
Heartbeat(t) ==
  /\ t.heart /\ ConnFree(t.worker)
  /\ \/ /\ Holds(t)
        /\ jobs' = [jobs EXCEPT ![t.job] = [@ EXCEPT !.lease = "live"]]
        /\ UNCHANGED tasks
     \/ /\ ~Holds(t)
        /\ tasks' = (tasks \ {t}) \cup {[t EXCEPT !.heart = FALSE]}
        /\ UNCHANGED jobs
  /\ UNCHANGED <<inserted, cancels, up, permits, faults>>

\* execute() has returned; heartbeat.cancel().
EndExecute(t, s) ==
  /\ t.phase = "executing"
  /\ tasks' = (tasks \ {t}) \cup
       {[t EXCEPT !.phase = "finishing", !.heart = FALSE, !.outcome = s]}
  /\ UNCHANGED <<jobs, inserted, cancels, up, permits, faults>>

FinishJobForgotten(t) ==
  /\ t.phase = "finishing" /\ ConnFree(t.worker)
  /\ tasks' = tasks \ {t}
  /\ ReleasePermit(t)
  /\ UNCHANGED <<jobs, inserted, cancels, up, faults>>

\* The task's last store call, and the release of its permit.
FinishJob(t) ==
  /\ t.phase = "finishing" /\ ConnFree(t.worker)
  /\ FinishRow(t.job, t.outcome)
  /\ tasks' = tasks \ {t}
  /\ ReleasePermit(t)
  /\ UNCHANGED <<inserted, cancels, up, faults>>

\* The same call fails in the store; the runner discards the error.
FinishLost(t) ==
  /\ Fault
  /\ \/ t.phase = "finishing"
     \/ t.phase = "leased" /\ ~Executable(t)
  /\ tasks' = tasks \ {t}
  /\ ReleasePermit(t)
  /\ UNCHANGED <<jobs, inserted, cancels, up>>

\* lease_until passes.  While the task of that lease lives its heartbeat
\* should have prevented it: a stalled process or a busy database, a fault.
Expire(j) ==
  /\ jobs[j].status = "running" /\ jobs[j].lease = "live"
  /\ IF CurrentTaskAlive(j) THEN Fault ELSE UNCHANGED faults
  /\ jobs' = [jobs EXCEPT ![j] = [@ EXCEPT !.lease = "expired"]]
  /\ UNCHANGED <<inserted, tasks, cancels, up, permits>>

\* request_cancel, its SELECT.  A terminal row: the call returns false.
\* Only runs are cancelled, so only rollout jobs.
CancelSelect(w, j) ==
  /\ ConnFree(w) /\ IsRollout(j)
  /\ jobs[j].status \in {"queued", "running"}
  /\ cancels' = cancels \cup {[worker |-> w, job |-> j,
                               sawQueued |-> jobs[j].status = "queued"]}
  /\ UNCHANGED <<jobs, inserted, tasks, up, permits, faults>>

CancelUpdateSeen(c) ==
  /\ jobs' = [jobs EXCEPT ![c.job] =
       [@ EXCEPT !.cancel = TRUE,
                 !.status = IF c.sawQueued THEN "cancelled" ELSE "running"]]
  /\ cancels' = cancels \ {c}
  /\ UNCHANGED <<inserted, tasks, up, permits, faults>>

\* request_cancel, its UPDATE: by primary key, on what the SELECT saw.
CancelUpdate(c) ==
  /\ jobs' = [jobs EXCEPT ![c.job] =
       [@ EXCEPT !.cancel = TRUE,
                 !.status = IF c.sawQueued THEN "cancelled" ELSE jobs[c.job].status]]
  /\ cancels' = cancels \ {c}
  /\ UNCHANGED <<inserted, tasks, up, permits, faults>>

\* ctrl-c: the runner leaves its loop, the tasks go on until the exit.
Drain(w) ==
  /\ up[w] = "up" /\ up' = [up EXCEPT ![w] = "draining"]
  /\ Fault
  /\ UNCHANGED <<jobs, inserted, tasks, cancels, permits>>

\* The process is gone, and with it its tasks, heartbeats and calls.
Die(w) ==
  /\ up' = [up EXCEPT ![w] = "down"]
  /\ tasks' = {t \in tasks : t.worker # w}
  /\ cancels' = {c \in cancels : c.worker # w}
  /\ permits' = [permits EXCEPT ![w] = Slots]
  /\ UNCHANGED <<jobs, inserted>>

Crash(w) == up[w] = "up" /\ Fault /\ Die(w)

Exit(w) == up[w] = "draining" /\ Die(w) /\ UNCHANGED faults

Start(w) ==
  /\ up[w] = "down" /\ up' = [up EXCEPT ![w] = "up"]
  /\ UNCHANGED <<jobs, inserted, tasks, cancels, permits, faults>>
-----------------------------------------------------------------------------
TaskStep(t) ==
  \/ GiveUp(t) \/ BeginExecute(t) \/ Heartbeat(t)
  \/ (\E s \in Terminal : EndExecute(t, s))
  \/ FinishJob(t) \/ FinishLost(t)

ProcessStep(w) ==
  \/ Drain(w) \/ Crash(w) \/ Exit(w) \/ Start(w)
  \/ \E j \in Jobs : Enqueue(w, j) \/ LeaseJob(w, j) \/ CancelSelect(w, j)

Next ==
  \/ \E w \in Workers : ProcessStep(w)
  \/ \E t \in tasks : TaskStep(t)
  \/ \E c \in cancels : CancelUpdate(c)
  \/ \E j \in Jobs : Expire(j)

Spec == Init /\ [][Next]_vars

TaskOf(w, j) == {t \in tasks : t.worker = w /\ t.job = j}

\* What the tokio scheduler and the 250 ms poll justify: a running process
\* polls, a spawned task runs, a call in progress returns, an abandoned lease
\* runs out.  Strong where a step needs the connection mutex, which others take
\* and release meanwhile.  That executions return is assumed of the policy
\* servers, and of whoever operates a stopped process that it starts again.
Fairness ==
  /\ \A w \in Workers :
       /\ WF_vars(Start(w)) /\ WF_vars(Exit(w))
       /\ SF_vars(\E j \in Rollouts : LeaseJob(w, j))
       /\ SF_vars(\E j \in Jobs \ Rollouts : LeaseJob(w, j))
       /\ WF_vars(\E c \in cancels : c.worker = w /\ CancelUpdate(c))
       /\ \A j \in Jobs :
            /\ WF_vars(\E t \in TaskOf(w, j) :
                 BeginExecute(t) \/ \E s \in Terminal : EndExecute(t, s))
            /\ SF_vars(\E t \in TaskOf(w, j) : GiveUp(t) \/ FinishJob(t))
  /\ \A j \in Jobs : WF_vars(~CurrentTaskAlive(j) /\ Expire(j))

FairSpec == Spec /\ Fairness
-----------------------------------------------------------------------------
(***************************************************************************)
(* Properties                                                              *)
(***************************************************************************)

\* The shape of the table, of the tasks and of the calls in progress.
TypeOK ==
  /\ jobs \in [Jobs -> Row]
  /\ inserted \in Nat
  /\ tasks \subseteq Task
  /\ \A t \in tasks : t.phase = "finishing" => t.outcome \in Terminal
  /\ cancels \subseteq Cancel
  /\ up \in [Workers -> {"up", "draining", "down"}]
  /\ permits \in [Workers -> Nat]
  /\ faults \in 0..MaxFaults

\* A lease is handed out once: no two tasks hold the same attempt of a job,
\* none holds an attempt the row has not counted, and the task of the last
\* attempt runs in the process the row names as owner (lease_job is one
\* transaction, and no statement but lease_job writes lease_owner).
AttemptsAreUnique ==
  \A t \in tasks :
    /\ t.n <= jobs[t.job].attempts
    /\ t.n = jobs[t.job].attempts => t.worker = jobs[t.job].owner
    /\ \A u \in tasks : t.job = u.job /\ t.n = u.n => t = u

\* The columns of a row agree: a queued row has never been leased nor
\* cancelled, a running one has been leased; creation ranks are distinct; a
\* cancel that did not see its row queued cannot find it queued later (no
\* statement sets a row back to 'queued').
RowsOK ==
  /\ \A j \in Jobs :
       /\ jobs[j].status \in {"absent", "queued"} => jobs[j].attempts = 0 /\ ~jobs[j].cancel
       /\ jobs[j].status = "running" => jobs[j].attempts > 0 /\ jobs[j].lease # "none"
       /\ jobs[j].created <= inserted
       /\ jobs[j].status = "absent" <=> jobs[j].created = 0
  /\ \A i, j \in Jobs : jobs[i].created = jobs[j].created /\ i # j
       => jobs[i].created = 0
  /\ \A c \in cancels :
       /\ jobs[c.job].status # "absent"
       /\ ~c.sawQueued => jobs[c.job].status # "queued"

\* The table and the tasks on it are consistent: no two tasks hold one attempt, the
\* owner of a running row runs its last one, and the columns agree, whatever leases,
\* retries and cancels of several processes interleave.  This is what makes the
\* invariant inductive.
QInv == TypeOK /\ AttemptsAreUnique /\ RowsOK

\* As long as no lease ran out under a live task and no process stopped, a job
\* has at most one task and a second runner does not touch it.  With faults it
\* may have several: neither finish_job nor the execution checks the lease.
ExclusiveWithoutFaults ==
  faults = 0 => \A t, u \in tasks : t.job = u.job => t = u

\* RL_JOB_MAX_ATTEMPTS bounds the executions of a job across every process,
\* crash and lost lease: never do more tasks than that execute it, each within
\* the limit; a task beyond it only gives the job up.
ExecutionsBounded ==
  \A j \in Jobs :
    LET executing == {t \in tasks : t.job = j /\ t.phase # "leased"}
    IN  Cardinality(executing) <= MaxAttempts /\ \A t \in executing : t.n <= MaxAttempts

\* "Oldest runnable first": no job waits in the queue, never leased, while a
\* younger job of its kind has been leased.
FirstLeaseInOrder ==
  \A i, j \in Jobs :
    /\ SameKind(i, j) /\ jobs[i].status = "queued"
    /\ jobs[j].attempts > 0
    => jobs[j].created < jobs[i].created

\* What a cancel leaves running is what was leased before its UPDATE, also by a
\* runner of another process after its SELECT: from then on the job gets no new
\* task, and its status changes only by the report of such a task or by another
\* cancel that had seen the row queued.  A job cancelled before any lease so
\* never runs, and a cancel never takes back what a task has reported by
\* writing the status its SELECT saw.
CancelLeavesNothingNew ==
  [][\A j \in Jobs : jobs[j].cancel =>
       /\ jobs'[j].cancel
       /\ \A t \in tasks' : t.job = j => \E u \in tasks : u.job = j /\ u.n = t.n
       /\ \/ jobs'[j].status = jobs[j].status
          \/ \E t \in tasks \ tasks' : t.job = j
          \/ /\ jobs'[j].status = "cancelled"
             /\ \E c \in cancels \ cancels' : c.job = j /\ c.sawQueued]_vars

\* Permits are conserved: free permits and live rollout tasks of a process add
\* up to its slots, on every path that ends a task and over restarts.
PermitsConserved ==
  \A w \in Workers :
    permits[w] + Cardinality({t \in tasks : t.worker = w /\ IsRollout(t.job)}) = Slots

\* A job that reached a terminal status never becomes runnable again, although
\* finish_job and the cancel write by primary key only and may replace one
\* terminal status by another.
NoResurrection ==
  [][\A j \in Jobs : jobs[j].status \in Terminal => jobs'[j].status \in Terminal]_vars

\* A lease that ran out comes back to life by a new lease or by a heartbeat of
\* a task of the owning process; a task that lost the job to another process
\* never extends its successor's lease.
OnlyOwnerExtends ==
  [][\A j \in Jobs :
       /\ jobs[j].lease = "expired" /\ jobs'[j].lease = "live"
       /\ jobs'[j].attempts = jobs[j].attempts
       => \E t \in tasks : t.job = j /\ t.heart /\ t.worker = jobs[j].owner]_vars

\* Once a cancel has been written no process leases the job again.
NoLeaseAfterCancel ==
  [][\A j \in Jobs : jobs[j].cancel =>
       jobs'[j].cancel /\ jobs'[j].attempts = jobs[j].attempts]_vars

\* The queue implements its contract: first leases in order of submission, new
\* leases only of a running job that is not cancelled, settled for good.
Contract == INSTANCE JobContract WITH
  phase <- [j \in Jobs |->
    IF jobs[j].status = "queued" THEN "pending"
    ELSE IF jobs[j].status = "running" THEN "active"
    ELSE IF jobs[j].status = "absent" THEN "absent" ELSE "settled"],
  starts <- [j \in Jobs |-> jobs[j].attempts],
  withdrawn <- [j \in Jobs |-> jobs[j].cancel],
  arrival <- [j \in Jobs |-> jobs[j].created]

\* Every step of the table and its clients is a step of JobContract or none.
ImplementsContract == Contract!Spec

\* Every job that is enqueued becomes terminal, or somebody asked to cancel it:
\* crashes, lost leases and lost writes only delay it.
UncancelledJobsSettle ==
  \A j \in Jobs : jobs[j].status = "queued" ~>
    jobs[j].status \in Terminal \/ jobs[j].cancel

\* "A crashed process leaves an expired lease that the next runner picks up"
\* (jobs.rs:1-3): a running job, cancelled or not, becomes terminal.
RunningJobsSettle ==
  \A j \in Jobs : jobs[j].status = "running" ~> jobs[j].status \in Terminal
=============================================================================

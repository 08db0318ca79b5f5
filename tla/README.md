# Open Horizon in TLA+

A verification project for the control plane of Open Horizon: TLA+ models of the
components that carry its own logic, TLC configurations that check them on small
instances, and proofs that TLAPS checks for every instance. `PROJECT.json` maps
every definition to the lines it models.

    tlc -workers 2 -config MCJobQueue.cfg MCJobQueue     # one run
    tlapm JobQueueProofs.tla                             # one proof module

Contents: [the system](#the-system), [inventory](#inventory),
[models](#models), [runs](#runs), [proofs](#proofs), [findings](#findings),
[bounds, fairness and abstractions](#bounds-fairness-and-abstractions),
[not modelled](#not-modelled), [plan](#plan).

## The system

Open Horizon runs long rollouts of language-model policies, scores them, and
trains adapters on them. One binary (`horizon-server`) is API server, job runner
and dashboard backend at once; several of them may share one SQLite file.

    HTTP API ──submit──► Coordinator ──save_run──► runs     ┐
       │                     │                              │ one SQLite file,
       │ cancel              └─enqueue_job──► jobs          │ several processes
       ▼                                       ▲  │         │
    Coordinator.request_cancel ──flag──────────┘  │ lease   ┘
       │ token map (in memory)                    ▼
       └──────────signal──────────► task: run_rollout_job ─► execute ─► finish
                                        │ heartbeat task       │
                                        │                      ├─ repo: rollout loop, sandbox
                                        │                      └─ verifiers: Python bridge
    every state change ──publish──► events table, replay ring, broadcast ──► WebSocket

Concurrency is of four kinds, and most of what can go wrong is in their mixture:
tokio tasks in one process that interleave at every `.await`; threads of one
process that serialise on the connection mutex (`SqliteStore::with_conn`);
processes that share the database, between which only statements and
transactions are atomic; and the crash of a process between any two steps.

## Inventory

| component | state | operations | hard behaviour | what makes it correct |
| --- | --- | --- | --- | --- |
| job queue (`sqlite.rs`, `jobs.rs`) | rows of `jobs`; spawned tasks; semaphore; heartbeats | enqueue, lease, heartbeat, finish, request_cancel, give up, drain, crash, restart | lease races between processes, lost leases, retries, cancels between two statements | an attempt has one task; attempts are bounded; order of first leases; nothing terminal runs again; what nobody cancels ends |
| coordinator (`coordinator.rs`) | manifest of each run, token map, handlers in progress | submit, execute, finish, request_cancel, budget check, rescore, submit_inline | stale reads in the cancel handler, two records of one status, overlapping attempts | run and job end together; cancels reach live attempts; a heard cancel wins; a finished run is not restarted |
| rollout loop (`rollout.rs`, `openai.rs`) | messages, usage, trajectory | turn, probe, retry, finish | precedence of cancel, finish, overflow, horizon; retries of the chat call | every turn contributes two steps; tokens only grow; a cancel ends the loop within a turn |
| event stream (`event_bus.rs`, `api.rs`, `logging.rs`, dashboard hub) | events table, ring, broadcast channel, subscribers' positions | publish, since, recent, subscribe, handle_ws | three-step publish by concurrent threads, backlog and live stream joined, lag | every durable event reaches a subscriber once and in order |
| Python bridge (`horizon-bridge`, `worker.py`) | worker slot, pending map, reader task | call, reader, retire, respawn, shutdown, timeout | answers racing deadlines, calls racing the death of the worker | every call returns; a dead worker is replaced; one process at a time |
| training and adapters (`training.rs`, `adapters.rs`) | training record, metrics, adapter files | start, execute, metric, register | retries after partial success | one adapter per training run; record and job agree |
| eval (`eval.rs`) | inline runs, report | run | no job row, so cancels cannot be stored; stale adapter record | the report scores the tasks in order; no other field of the adapter is lost |
| fleet (`fleet.rs`, `expire_nodes`) | rows of `nodes` | upsert, probe, expire | list and update under two locks | a node that reports is not marked down |
| budget (`reject_if_over_budget`) | sum of recorded costs | check, record | check before, spend after | overspending is bounded by what is in flight |
| repo runner, sandbox, snapshots | one workspace per task id | create, step, cleanup | overlapping attempts share the workspace | no attempt works in a removed workspace |
| rewards, pricing, statistics | none | score, percentiles, histogram | boundaries | the reference definitions |
| settings, CLI, mock policy, OpenAPI, dashboard views | none | read once, render | none | not modelled |

## Models

**`JobQueue`** – the `jobs` table and its clients. A row keeps status, owner,
lease (none, live, expired: `lease_until` against the clock), attempts, cancel
flag and rank of creation. `tasks` are the spawned `run_rollout_job` and
`run_training_job` futures, each with the copy of `attempts` it leased, its phase,
and whether its heartbeat runs. `cancels` are `request_cancel` calls between
their SELECT and their UPDATE: inside a process the connection mutex hides that
window (`ConnFree`), between processes it is real. One action per operation:
`Enqueue`, `LeaseJob`, `GiveUp`, `BeginExecute`, `Heartbeat`, `EndExecute`,
`FinishJob`, `CancelSelect`, `CancelUpdate`, and the environment's `Expire`,
`FinishLost`, `Drain`, `Crash`, `Exit`, `Start`. What an execution does is left
open: it returns some terminal status. A job whose payload does not parse (`BadPayload`) is
given up as one whose attempts are exhausted: both tests come before the execution
(`Executable`).

**`JobContract`** – what the queue promises a caller, without processes, leases
or tasks: a submitted job waits, is started at most in order of submission among
its kind for the first time, may be started again while it is active and not
withdrawn, and settles for good. `JobQueue` implements it (`ImplementsContract`,
with the mapping at the `INSTANCE`).

**`RolloutRun`** – the coordinator, composed with the queue: it extends
`JobQueue`, and each of its actions is a queue action conjoined with what happens
to the run, or leaves the queue alone. `run` is the manifest's status; `exec` is
how far `execute()` has come for each attempt (`registered`, `started`,
`calling`, `ending` or `failing`, `saved`) and whether its token is cancelled;
`tokens` is `Coordinator.cancels`, one map per process; `call` is the handler
`request_cancel` between its four steps: read the manifest, select and flag the
job row, then signal the token or save the run. Repo and verifiers runs differ
where the code does: the repo loop probes the job row after each turn, the
verifiers path only before the bridge is called. Every store call of `execute` and of the
cancel handler may fail: the manifest then stays as it is, whatever the other record says.

**`EventStream`** – one server process and its WebSocket clients. `log` is the
`events` table, `ring` and `sent` are `EventBus`'s ring and channel, `publishing`
the publish calls between append, push and broadcast. `conn` is a `handle_ws`
task: where its receiver stands, the backlog still to replay, `last_seq`, and the
wire to the browser; `lastSeq` is what `hub.ts` resumes from. The server's lag
warning is an event that the task publishes itself, as `BusLayer` makes it. Four
history variables record when a client came (`base`), what it received (`got`),
and which events the design gives up: overtaken by a later one or published by
another process (`late`), or left out for this client (`skipped`).

**`RolloutLoop`** with **`Rewards`** – an attempt from the inside. `att[n]` is the
future `execute` of attempt `n`: for a repo profile the workspace and its
snapshot, then per turn the probe, the chat call with its retries (`select!` with
the token), the tool call and the messages to the forwarder, `sent` through a
bounded channel and `received` by the task that appends steps and training rows;
for a verifiers profile the permit of the semaphore and the answer of the bridge.
`row` is the run with its steps and reward, `turns` the rows of `turn_training`,
`entry` and `dirs` the workspace registered for the task id and the directories on
disk. `SaveFinal` waits for the forwarder and then replaces the trajectory. A
rescore reads the run and saves its reward in a later step. `Rewards` is the
scoring of `rewards.rs` in fixed point: five signals, three rubrics, the clamp.

**`Budget`** – what `reject_if_over_budget` and the save of a cost do, abstractly:
actors that look at `spent`, run, and record. **`Adapters`** extends it: the
attempts of one training run (`record`, `train`, its `job`), `manifest.json` of each
adapter with the moment in which it is truncated, eval requests with their inline
runs and tokens, the job runner's other rollouts on the same budget, and the
reloader that reads announcements from the bounded broadcast channel. An eval has
no job row: a cancel finds a token, or saves `cancelled` over the queued run, which
`execute` then starts all the same; the manifest it saves is the one it read before, so a
cost that was recorded meanwhile is gone from the budget. An attempt reports a set of metric
points, as many as its trainer likes; it fails in the store, the registry or the trainer;
and its `finish_job` may be lost, after which the job is leased and executed again
(`LeaseAgain`).

**`Fleet`** – the loop of every server: its own node, the probes one after the
other, each up to its timeout, the ping of the bridge, then `expire_nodes` in its
two steps (list; mark) and the announcements one by one. The clock ticks when every
live loop sleeps or waits. **`Statistics`** holds the figures of `stats`,
`timeseries` and `reward_histogram` as functions of a table of runs, and
**`Dashboard`** composes both: what a page shows is what the fleet announced
(`shown`), and the answers to requests over any legal table.

**`Bridge`** – `PythonBridge` and the process behind it. `call[c]` is one
invocation of `call`, from `ensure_worker` to its return: `got` a worker,
`inserted` its channel in the pending map, `writing` under the mutex of stdin,
`waiting` on the channel, `retire` and `killing`. `worker[w]` is a `Worker`: the
process (`child`), the reader task, the pending map, who holds stdin, and, on the
Python side, the requests in `work` and the lines in `out`. `slot` and its mutex
(`holder`) are the bridge's. Every await of the Rust code is a point where other
tasks run; what has no await between is one action, so `ensure_worker` with its
spawn is, and `retire` is three (slot, map, kill), with the lock of the slot held between
them. A dropped future
(`execute_verifiers` drops the call when the run is cancelled) may leave half a
line on stdin: the next line is appended to it and `serve` refuses both.

The `MC` modules give the constants small values. Definitions right before an
action with a similar name, such as `LeasableOnce`, `SaveTrainedOrNot` or
`OldSinceProbe`, are faulty variants; no specification uses them, the mutation runs
put them in place of the original to confirm that a property can fail.

## Runs

| run | instance | question and answer |
| --- | --- | --- |
| `job_queue` | 2 rollouts, one with an unreadable payload, 2 processes, 2 attempts, 1 slot, 3 faults | Can leases, heartbeats, retries and cancels of several processes give one attempt to two tasks, run a job beyond its limit, lease a cancelled one, take back what a task reported, or break the contract (order of first leases, nothing settled revives)? No. |
| `job_cancel_crash` | 1 rollout, 1 process, 1 fault, fair | Does a running job always end? No: see findings. |
| `rollout_run` | 1 repo run, 2 processes of 2 slots, 2 attempts, 1 fault, 1 failing store call | Do run, job, tokens and cancels agree in every order? Yes, in the sense of the properties below. |
| `rollout_live` | 1 verifiers run, 1 process, 2 faults, 1 failing store call, fair | Do an uncancelled run and its job end? Yes, or the job is given up, or the store failed under the last attempt and the run stays as it was. |
| `rollout_late_start` | 1 verifiers run, 2 processes, no fault | Does a cancelled queued run stay cancelled? No: see findings. |
| `rollout_exhausted` | 1 verifiers run, 2 processes, 1 attempt, 1 fault | Has the run of a given-up job failed? No: see findings. |
| `rollout_loop` | 1 run, repo or verifiers, 2 attempts, 2 turns, 3 policy answers of 1 to 3 tokens on a budget of 2, 2 bridge answers, pairs of disturbances, fair | Does what is stored in the end come from one attempt, turn by turn, within its budgets, and does every attempt end? Yes. |
| `adapters` | 1 training run of 2 attempts, 2 evals of 2 tasks, 1 slot, budget of one rollout, single disturbances and some pairs, fair | Can a completed training run lack its adapter or a row of its metrics, a failed job leave another record than a failed one, a published adapter be unreadable, a score lack its report, a run or token be left behind, the budget be overshot by more than one rollout per actor? Only for the reasons the properties name. |
| `event_stream` | 2 publishers, 1 client, ring 2, channel 1, backlog 1, 3 rows, pairs of faults, fair | What can a client miss between its subscription and the last number it saw? Only overtaken, lagged, trimmed or cut-off events; crashes and broken sockets lose nothing, and everything else arrives. |
| `event_overtaken` | 2 publishers, no fault, ample buffers | Is nothing published in between lost? No: see findings. |
| `bridge` | 2 calls, one with a deadline and an event that may be dropped, workers that die, fail to spawn, are shut down or print garbage, fair | Can a call be stranded, forgotten or left in the map, get a worker known to be dead, or see an answer before its event? No. Does every call end? Yes, by its deadline, the death of the process, or an answer. |
| `dashboard` | 2 servers, 1 policy endpoint, a death, a restart, hanging endpoints, failing saves; tables of 3 runs, 2 sampled | Is a live server shown as down, or a dead one as up for ever? No, if the timeouts of a round fit into the limit. Do buckets, bins, percentiles and figures over the same runs agree? Yes. |

The properties behind them, in the words of their hazards:

* `QInv`: a lease is handed out once, the columns of a row agree. It is the queue's
  inductive invariant.
* `ExclusiveWithoutFaults`: only a fault (lost lease, crash, drain) puts two tasks
  on one job. With a lost lease two tasks do overlap: the code does not stop the
  first one, and `finish_job` does not look at the lease.
* `ExecutionsBounded`, `ImplementsContract`: see the comment at each. The contract
  includes the order of first leases and that nothing settled runs again.
* `CancelLeavesNothingNew`: what a cancel ends although its UPDATE acts on what an earlier
  SELECT saw. A flagged job gets no new attempt, in any process, and its status moves only
  by the report of a task leased before, or by another cancel that had seen it queued.
* `TokenMapExact`: although `unregister_cancel` removes whatever token the map holds
  for the run, and the two attempts of a process whose lease was lost replace each other's,
  the map never holds the token of an attempt that is over, and the attempt of a job that
  was leased once is always found by it.
* `RunFollowsJob`: the two records of a status meet again, with the one exception the
  code has: a handler that read `queued` may write `cancelled` over a run that has
  completed since. `CancelsHold`, `FinishedRunsNotRestarted`: when a cancel, or an end,
  is final; the second only as long as no fault happens, because after a lost
  `finish_job` a finished run does start again. `UncancelledRunsSettle`: what nobody cancels
  ends. Two ends are not ends of the run: a job that was given up, and one whose last
  attempt failed in the store, which leaves the run queued or running (`StoreGaveUp`).
* `StoredIsFinishers`, `TurnsMatchSteps`, `LastWord`: appended steps are provisional.
  What remains is the trajectory of the attempt that ended the run, its reward is the
  score of exactly these steps, each of its policy steps has the training row of that
  attempt, and nothing is appended after the end. Rows of a longer attempt that crashed
  stay beside them.
* `BudgetRespected`: the token budget is exceeded by the last answer at most, and a
  run over it completes only if that answer finished the task. One answer of the run's three
  is over the budget by itself, with a turn left.
  `WorkspaceLifecycle`: a tool runs in its own attempt's workspace, and no directory
  stays. `AttemptsEnd`: loop, channel, forwarder and semaphore never wait in a ring.
* `OvershootBounded`: check-then-act overshoots the budget by less than one rollout per
  actor. It bounds the recorded cost: what an attempt spent that failed, vanished or was
  cancelled too late is not recorded. `TrainingRecordTrue`: a completed record has its
  adapter and the metric rows of its own attempt, and record and job end alike, but for
  failures in the store or the registry. `PublishedIsDurable`:
  what was announced can be read back. `ScoreHasReport`: a score is that of a stored
  report, which is that of runs that ended. `InlineRunsAccounted`: no run or token waits
  for nobody. `RequestsEnd`: requests, announcements and the training job end.
* `NothingElseIsLost`, `ClientsCatchUp`: every loss has a reason in the design.
  `DeliversInOrder`: the seam between backlog and live events shows nothing twice.
  `RingIsEndOfLog`: the ring and the log agree whenever no publish is in progress.
* `CallsAccounted`: the two ends of a waiting call, and the map. Its channel has a
  reader that will use or close it, its request is at the worker or its answer on the
  way (unless the line was appended to half a line), and no call that returned has an
  entry; that of a dropped call stays until the worker is cleared. `CallsEnd`: deadlines
  hold, the death of a process releases its calls, and if workers answer every call
  returns, unless nobody read its line.
* `DiedMeansReplaced`, `OneChild`, `EventsBeforeAnswer`: retirement replaces a worker
  before the call that noticed returns; one process at a time; order through pipe,
  reader and channel.
* `LiveNeverDown`: if all timeouts of one round fit into the limit of 30 s, a live
  server is never marked, listed or shown as down. `NodesSettle`: a dead one is shown
  as down in the end, a live one not for ever. `AnswersAgree`: buckets and bins neither
  lose a run nor count it twice, percentiles are nearest rank.

## Proofs

`JobQueueProofs` and `RolloutRunProofs` hold for every finite or infinite set of
jobs and processes, every limit and every number of faults. The assumptions are
`JobQueueAssumption` and `RolloutRunAssumption`: the constants have the expected
kinds, there is at least one slot, and all jobs of `RolloutRun` are rollouts.

* **`QueueInvariant`** (`QInv == TypeOK /\ AttemptsAreUnique /\ RowsOK`). Unique
  attempts are not inductive alone: a cancel that saw its row queued writes
  "cancelled" by primary key, so one has to know that a queued row was never
  leased, and that an attempt's number is at most the row's count. One lemma per
  UPDATE statement says what it does to the columns; the step lemmas use only
  these. `TypeCorrect`, `AttemptUniqueness` and `RowsConsistent` follow.
* **`CancelEndsLeasing`** says of every step from a flagged row what it may do
  (`NothingNewStep`): the lease refuses the row, a later phase of a task keeps its
  attempt, and the UPDATE of a second cancel writes "cancelled" only if its SELECT saw
  the row queued. **`WithdrawnForever`** is its consequence for a job without a task.
* **`Exclusive`** rests on `Healthy`: while nothing failed, every task holds the
  last attempt of its job and no lease of a live task has run out, hence
  `lease_job` finds nothing to take over.
* **`BoundedExecutions`** counts: executing tasks of a job map injectively, by
  their attempt, into `1..MaxAttempts`.
* **`NeverResurrected`**, **`CancelStopsLeases`**, **`OwnersExtend`**: one lemma,
  `ForwardStep`, says what no step may do to a row; the three action properties
  are its conjuncts.
* **`OldestFirst`** is inductive on top of `QueueInvariant`: a queued row is never
  flagged, so an older one would have been leasable, and ranks are distinct.
* **`KeepsContract`**: `Init` maps to the contract's, and each step to a step of the
  contract or to none. A task that settles its job finds it active or settled,
  never pending, because queued rows were never leased.
* **`PermitsAddUp`** adds that the tasks of a process are finitely many; a task
  replaced by a later phase of itself is counted once, since attempts are unique.
* **`RunInvariant`**: `RTypeOK` and `NoStaleToken` need each other (a cancel
  signals the attempt its token names; an attempt that is not idle has a task),
  and both need `Linked`: a store call in progress belongs to the handler of its
  process. `RunTypeCorrect` and `TokensAreLive` follow.
* **`ImplementsQueue`**: `RSpec => Spec`. Not by construction alone: the task must
  report an outcome the queue knows, which is part of the invariant. So every
  theorem about the queue is one about the coordinator.
* **`Reachable`** is about a job that was leased once: its attempts are unique, so no
  other attempt has replaced or removed the token. With `TokensAreLive`, which holds for
  overlapping attempts too, it makes **`TokensExact`**.
* **`HeardCancelHolds`** needs that the outcome of an attempt is open until it ends
  (`Undecided`); **`EarlyCancelHolds`** that before its first lease a run is queued or
  cancelled and its handlers read `queued` (`Early`). Together: **`CancelsKept`**.
* **`RunAndJobAgree`** and **`FinishedRunsRest`** rest on `FInv`, which adds `Follows`:
  while nothing fails, what the manifest may say is a function of the place of the one
  task of its job (`Following`), and of the job row once there is none (`Followed`). A
  job cancelled before any lease leaves its run to the handler that flagged it. A job
  that was given up is excepted (`GivenUp`): attempting this proof showed that
  with `JOB_MAX_ATTEMPTS = 0`, which the environment may set, the first lease gives
  the job up without any fault and leaves the run queued, finding 2 once more.

Of `EventStream`, for any clients, publishers, sizes of ring, channel, backlog and wire,
and any faults (`EventStreamProofs`), from the invariant `IInv`:

* **`RingEndsTheLog`**. Rows get their numbers in one order and reach the ring in
  another. `RingIsSuffix` says it without the moment of rest: the rows up to some `k` are
  pushed, the ring ends with row `k` and goes back one by one. At rest `k` is the log.
* **`OrderKept`**: the backlog's numbers go up, from what the client was sent
  (`BacklogGoesUp`), so over an open connection the seam to live events shows nothing
  twice, as long as no publish overtook another.
* **`NothingLost`**: every number above the client's first is received, on the wire, in the
  backlog, broadcast and not yet looked at, being published, or given up for a reason
  (`OnItsWay`); and wherever an event stands, all with smaller numbers
  are in front of it (`WireInOrder`, `TodoInOrder`, `AheadInOrder`, `SentUpTo`). It is this
  second half that a reconnect from `lastSeq` needs (`Reached`). **`EventTypeCorrect`**
  gives the bounds of the buffers.

Of `RolloutLoop`, for any attempts, turns, answers, budgets and channel sizes
(`RolloutLoopProofs`). `Local` says of one attempt what its place in the loop implies: what
is on the channel, how many steps it has, what it spent. `LInv` relates the attempt
that holds the lease to the run, the workspace and the training rows.

* **`LoopTypeCorrect`** includes that a score is between -1 and 1 whatever the steps.
* **`BudgetKept`** is `Local` alone; **`WorkspaceKept`** adds `Owners` (unless a lease was
  lost, only the attempt leased last is active) and `Workspaces`.
* **`TurnsKept`** and **`StoredKept`**: the forwarder writes rows for turns whose
  messages it has received (`TurnRows`), and who ends the run has closed its channel
  before (`EndedRow`), so no row is written after. `TurnsKept` compares the saved steps
  with the rows of the ending attempt; it does not say that nobody else's row is left.
  **`LastWordKept`** follows from the same.

Of `Bridge`, for any set of calls, deadlines, drops and faults
(`BridgeProofs`):

* **`BridgeTypeCorrect`**. The bound on workers is not inductive by itself:
  `TInv` adds that there are at most as many workers as calls that have begun, and
  that a call on its way has a worker.
* **`NeverReused`**. A call may only report `died` after it has marked its worker
  dead, and a dead worker is never alive again because a number is spawned once;
  `ensure_worker` then refuses it in whatever order calls fail and respawn.
* **`LeavesNoEntry`**, from `Routes`: who is in a pending map is a call of that
  worker that has not returned and has no answer in its channel. The second part
  is what makes it inductive: the reader removes the entry in the step that
  sends the answer, so an answered call that returns has none left.
* **`OneProcess`**, from `Alone`: a worker not yet taken for dead is in the slot or in
  the hands of the call that kills it, and the slot is empty or holds the only one.
* **`AllCallsAccounted`**: `Heard` is inductive for each pair of a call and a worker. Once
  the line is written the worker owes the call an answer or its death, and no
  step of another call takes the entry out of the map. A call whose line nobody could
  read is excused, and a dropped one keeps its entry.
* **`AnswerComesLast`**: the order is kept at both ends of the pipe, `Told` at the
  channel of the call and `InOrder` at the worker; an entry that the reader took out
  never comes back, so nothing follows an answer.

Of `Budget` and `Adapters`, for any actors, costs, caps, attempts, evals, tasks and
disturbances (`AdaptersProofs`, from `BudgetAssumption` and `AdaptersAssumption`: the
actors are the evals and the slots, finitely many, and outcomes cost at most
`MaxCost`):

* **`BudgetOvershoot`**: `OvershootBounded` is inductive as it stands, because it counts
  what the running rollouts may still add. An actor that starts finds less than the
  cap and is not running yet; one that ends moves its share from the second term to
  the first. The arithmetic is split from the cardinalities in three lemmas.
* **`ImplementsBudget`**: `ASpec => BSpec`. Every step of training, evals, cancels and
  crashes admits, records or lets go of one actor, or leaves the budget alone; a retry
  replaces at most what is recorded. **`CompositionOvershoot`** is the consequence.
* **`AdaptersTypeCorrect`** and **`RunsAccounted`** follow from `AdaptersInvariant`. The
  invariant says for each run of an eval, by itself, that the request is at its task
  and at the right place, or that something happened to the request: the runs of the
  tasks before and after can only have the second excuse, so a request may move on to
  its next task without looking at them (lemma `Serves`).
* **`TrainingRecordKept`** from `InTurn` (attempts run in order, one at a time unless a
  lease was lost), `Rows` (every metric row was reported by an attempt that began),
  `Made` (whoever saves a completed record has made its adapter) and `Told` (the record
  says what the last save says, unless an error of the store or a lost `finish_job`
  explains it). Here the proof corrected the property: it said that the record of a
  failed job has failed unless a store call did. A job given up after as many crashes as
  it has attempts refutes it (with one attempt, one crash): its record stays running.
* **`PublishedKept`** from `InPlace`: only the attempt that made an adapter, and then the
  evals of it, write its manifest, so a published one is readable or being rewritten.
* **`ScoreKept`** from `Summed`. The sum of the rewards is a recursive function; `SumIsSum`
  shows by induction over the tasks, as a set (`SetInduction`), that it is what the request
  adds up one run at a time.

Of `Fleet`, for any servers, policies and timeouts (`FleetProofs`, from `FleetAssumption`):

* **`LiveKeptUp`** is an argument about time. `Allowance` bounds the age that the node of a
  server can have at each place of its loop: the probes still to come may all time
  out. While the sum fits into `STALE_AFTER_SECS`, no listed node is that of a live
  server. **`FleetTypeCorrect`** comes from the same invariant `FInv`.

Of `Statistics` and `Dashboard`, for any finite table of legal rows, window, bucket size,
number of bins and number of samples (`DashboardProofs`, from `DashboardAssumption`):

* **`AnswersAlwaysAgree`**. The sums are folds, the sorted samples and the rows of a `LIMIT`
  are choices. `SubsetInduction`, which the well-foundedness of finite subsets gives, shows
  once that a fold over a function is its sum (`TotalIsSum`), that every finite set can be
  sorted (`SortingExists`), and so that its last `k` exist (`LastOfExists`). With
  these, numbering runs by bucket or bin counts each once (`TotalCounts`), provided that every
  number is in range, which is the arithmetic of `BucketsCover` and `BinsCover`; and
  `RankCovers` makes the sample at the nearest rank the percentile (`PickIsPercentile`).
* **`FleetUndisturbed`**: what holds of the fleet holds beside the requests.

Only model-checked is what fairness decides (with ENABLED it is out of the prover's
reach): `UncancelledRunsSettle`, `ClientsCatchUp`, `CallsEnd`, `AttemptsEnd`,
`RequestsEnd` and `NodesSettle`, and the counterexamples of the findings. Induction over
data is possible where the induction can be stated as a set, as above; a theorem that
takes a predicate as its parameter cannot be applied.

## Findings

1. **A cancelled job whose process dies is stuck** (`job_cancel_crash`).
   `lease_job` skips rows with `cancel_requested = 1` also when it looks for
   expired leases (`sqlite.rs:868`). Job and run stay `running`, against
   `jobs.rs:2-3`.
2. **Exhausted runs stay running** (`rollout_exhausted`). `run_rollout_job` fails
   the job and returns (`jobs.rs:134-141`); the run keeps its last status,
   against `README.md:87-88`.
3. **A run cancelled while queued may start afterwards** (`rollout_late_start`).
   The handler decides on a manifest it read before; a runner that leases the job
   in between starts the run after `rollout.cancelled` (`coordinator.rs:246`),
   against `coordinator.rs:235`.
4. **An overtaken event is never delivered** (`event_overtaken`). Publishers
   append, push and broadcast without a common lock; `handle_ws` drops an event
   whose number is below the last one (`api.rs:653`), against `api.rs:628`.

Limits that the models show and no promise contradicts as sharply:

* *A long backlog leaves a gap.* `handle_ws` replays at most 1000 rows and goes on
  with live events (`api.rs:631`); `skipped` counts the rows in between.
* *Unreadable output strands a call.* The reader also ends on a read error, while
  the process goes on. A call that took the worker just before registers after the
  only `clear()` of the map, writes its line, and waits for ever (`lib.rs:261`), even
  after the process dies; `Unheard` and `mangled` mark such calls. A deadline releases
  the call; `train` with `bridge_timeout_s = 0` and `verifiers.rollout` without
  `rollout_timeout_s` have none.
* *Half a line takes the next one with it.* A call whose line is appended to the
  half line of a dropped call is never answered; only its deadline ends it, and the
  deadline starts after the line is written.
* *A long probe makes a live server look dead.* Policies are probed in sequence, 5 s
  each, and the bridge with 10 s, between two heartbeats of the loop; from four
  hanging endpoints on (three, when another server looks) this exceeds the 30 s of
  `expire_nodes` (`fleet.rs:148`). The server is then marked down, by itself or the
  other, and up again. `Fits` is the condition under which
  `LiveNeverDown` holds.
* *An expiry may go unannounced.* A crash or an error between the UPDATEs of
  `expire_nodes` and the events leaves nodes down in the table that no later round
  lists again (`sqlite.rs:453-470`).
* *`manifest.json` is written in place* (`adapters.rs:64`): truncated by a failed write or a
  crash, or written by two evals at once, it is unreadable and the adapter is gone
  from the registry. `Rewritten` and the faults named in `PublishedIsDurable` are exactly
  these cases. A training run that reads its parent at that moment loses the lineage.
* *A failed training attempt leaves traces.* An error of the store before the training
  starts leaves the record queued while the job fails (`training.rs:104-116`); one of
  `register` or `save` leaves it running (`training.rs:163`, `186`); so does the last lease of an
  exhausted job; and an `error` that a failed attempt left stays in a record that a later
  one completes. After a lost `finish_job` a completed record is executed again, with a
  second adapter (`jobs.rs:206`), and where the second attempt reports fewer points the
  metric rows of the first stay. A crash between the save and the enqueue of `start` leaves a queued
  record for ever.
* *A failing store leaves a run queued.* When `execute` cannot read or save the run at its
  start the job fails and the run stays as it was (`coordinator.rs:286`, `302`); when the
  cancel handler fails between its two writes the job row is flagged and the run is not.
* *A late cancel takes a cost back.* The cancel of a run whose attempt began and ended
  meanwhile saves the manifest it read, without cost, tokens and reward
  (`coordinator.rs:247-253`): the budget forgets what was spent.
* *A dropped eval request leaves its run.* When the client goes away, axum drops the
  handler: the run stays running and its token registered (`eval.rs:64`). A task that
  failed or was rejected for the budget counts as 0 in the mean.
* *Policy errors cost nothing.* An attempt that ends with an error of the policy drops its
  tokens, so the budget does not see them; a failed snapshot leaks the directory
  (`repo_runner.rs:65-70`); and training rows of a longer attempt that crashed survive
  beside those of the attempt that ended the run, unless they share a turn.

## Bounds, fairness and abstractions

*Bounds.* `MaxFaults` counts crashes, drains, leases that run out under a live
task, and lost `finish_job` writes; `MaxLost` counts store calls of the
coordinator that fail. Two processes are enough for every race of the table,
since a statement involves one process and the state it finds; two jobs for
every order; two attempts and three faults for an attempt that is overtaken,
a second one that crashes, and the give-up of the third. The jobs of the run are of one
kind: what `SameKind` separates is proved, not checked. `RolloutRun` has one
run, because runs meet only in the queue's slots, and two slots in each process, so that
a process whose lease was lost may hold both attempts of it. It admits one cancel handler
per process at a time; two processes give two concurrent handlers. SQLite's
transactions are taken as atomic.

`EventStream` has one client, because clients meet only in the log and in their
lag warnings; two publishers, because overtaking takes two; a ring, a channel and
a backlog shorter than the three rows of the log, so that all of them overflow.

`RolloutLoop` has two attempts, because what an attempt leaves is met by one other; two
turns and answers of one, two and three tokens, for a budget of two that is met, exceeded
in the first turn by one answer, and exceeded on the last turn by two; and a channel of one
message, so that loop and forwarder wait for each other. The bridge answers with more
steps than the horizon allows. `Together` names which disturbances meet: all pairs, but
overlap alone, because overlapping attempts share the workspace and the trajectory and
the properties that survive it are few.

`Adapters` has one rollout's worth of budget and three actors, so that all of them can
pass the check; two evals of one adapter, because a stamp is overtaken by one other; two
tasks, so that there is a task before the last; a channel of one announcement; one
metric step, which an attempt reports or not. A lost `finish_job` meets crashes and
failing trainers, a cancel a failing store. A second eval request counts as a
disturbance, and so meets only some others. The table of `Dashboard` has three runs at
two times, window and bucket edges among them, and the latencies sample two steps, so
that the `LIMIT` is exceeded; the theorem about them has no such bounds. Requests are
asked at the start because they do not depend on the fleet. In `Fleet` the timeouts are
scaled (a tick is 5 s) so that one hanging endpoint and the ping just fit.

`Bridge` has no bound but `Garbled`, the workers that may print garbage: a call spawns
one worker at most, each call happens once and sends one event at most. Two calls are
a victim and the one that retires its worker, or what a dropped call leaves and to
whom; shutdown is a third actor.

*Fairness.* A process that is up polls every 250 ms; tokio runs what is spawned;
a call in progress returns; a lease without a live task runs out; a stopped
process is started again. Steps that take the connection mutex are strongly fair,
because other threads take and release it meanwhile. That executions return
rests on the timeouts of the provider client and, for the bridge, is assumed.
Cancels, faults and submissions are never fair. In `EventStream` a publish that
has begun ends, the socket task and the browser go on, the browser reconnects (its
timer is at most 8 s) and the server is restarted; when the log is full the lag
warning, an event itself, is left out, which is a bound. In `Bridge` the tasks of the
server run, a mutex is granted in turn (tokio's is a queue) and a process that lives
takes the line written to it (`serve` reads in a thread of its own); answers are fair
only where `CallsReturn` needs them; deaths, drops and garbage never. In `RolloutLoop`,
`Adapters` and `Fleet` what tokio has spawned runs on, a policy answers or fails within its
timeout, a training job that lost its process is leased again (that is `job_queue`'s
and `rollout_live`'s result), and time passes.

*Abstractions.* Time is the lease's three values. Payloads, errors and
timestamps other than the order of `created_at` are left out; ranks of creation
are distinct, as timestamps with sub-second digits are in practice. Horizons are
at least one turn. `RejectOverBudget` may happen at any start. Two probes in a row
(after a turn, and before the next) are one. A panic inside a task is not
modelled. `get_run` and `save_run` at the end of the cancel handler are one step.
In `Bridge` a result and an exception of the worker are one answer, lines without
effect (blank, not JSON, unknown id) are left out, and the end of the process
closes stdout: a grandchild that inherits the pipe and keeps it open is not
modelled.

In `RolloutLoop` a reward is in units of 0.0001, and the cost of a rollout is a function
of its tokens. In `Adapters` a mean is kept as a sum over a known number of rewards. In
`Statistics` rewards and times are integers, and in `Dashboard` the statements of one
answer of the server are one step. In `Fleet` the ping of the bridge takes at most its
timeout: the locks that it waits for before its deadline starts are taken to be free,
which they are unless a caller hangs in a write (see the limits above). Rows that a
`LIMIT` or a sort finds equal are taken in any order. The rank of a percentile is an
integer division there and a product of floats in the code; for the at most 5000 samples
of a query both give the same rank.

*Left as they are in the code, without a property.* `FleetCounters.in_flight` is read
(`fleet.rs:68`) and nothing increments it, so no node is ever shown busy; only
`training_in_flight` moves. `has_training_metadata` of a step is set when the step is
made (`rollout.rs:216`), before anything is known of its tokens.

## Not modelled

Settings and profiles are read once and are constants here. The mock policy, the command
line and the OpenAPI export keep no state. The Python environments and trainers are
external libraries behind the bridge. Command execution, path checks, diffs and sandboxes
are I/O of one process; `RolloutLoop` keeps their outcome. The read-only handlers of the
API, `query_runs` and `job_counts` are single statements. What the pages render is not
modelled, beyond `hub.ts` and the figures.

## Plan

Done: `JobQueue` with `JobContract`, `RolloutRun`, `EventStream`, `Bridge`, `RolloutLoop` with
`Rewards`, `Budget` with `Adapters`, `Fleet` with `Statistics` and `Dashboard`; a theorem for
every invariant and every action property that the runs check. Left, in this order:

1. An abstract log that a client reads from, and its refinement by `EventStream`, step by
   step from `IInv`.
2. That every call that waits without a deadline is released by the death of its worker,
   stated as a safety property of the steps that remain.
3. The composition of `RolloutLoop` with `JobQueue`, in place of its own rule for when an
   attempt starts; it needs a smaller abstraction of the loop to stay checkable.

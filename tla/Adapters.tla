------------------------------ MODULE Adapters ------------------------------
(***************************************************************************)
(* Adapters from training to evaluation: the attempts of one training run   *)
(* (TrainingService::execute under run_training_job), the manifests of the  *)
(* file registry, eval requests with their inline rollouts (EvalHarness),   *)
(* and the SGLang reloader that follows the published adapters.             *)
(*                                                                          *)
(* Attempt n of the training run makes adapter n.  JobQueue decides when an *)
(* attempt starts: here attempt n + 1 follows a crash, or a lost lease of    *)
(* attempt n.  A reward is an integer, a mean is kept as the sum over the    *)
(* Tasks of an eval.  The reward of a run is its reward record.             *)
(***************************************************************************)
EXTENDS Budget, Sequences

CONSTANTS
  Evals,        \* eval requests
  Slots,        \* slots of the job runner that execute other rollouts
  Tasks,        \* tasks of an eval, in this order: 1..Tasks
  Outcomes,     \* how a rollout may end: status, terminal reward and cost
  Steps,        \* the steps of a training run that a metric point may name
  MaxAttempts,  \* settings.job_max_attempts
  EventBuffer,  \* capacity of the broadcast channel
  Requested,    \* bound: the adapters that eval requests name
  Together      \* bound: the sets of disturbances that one behaviour may meet

Final == {"completed", "failed", "cancelled"}

\* An error of the store is "save" within execute of a training run, "finish" in
\* finish_job, "append" at a metric point, and "store" elsewhere.
Disturbances ==
  {"crash", "overlap", "append", "register", "save", "finish", "trainer", "cancel", "hangup", "store",
   "age", "again"}

ASSUME AdaptersAssumption ==
  /\ Actors = Evals \cup Slots /\ Evals \cap Slots = {}
  /\ {Tasks, Steps, MaxAttempts, EventBuffer} \subseteq Nat \ {0}
  /\ Outcomes \subseteq [status : Final, reward : Int, cost : 0..MaxCost]
  /\ Requested \subseteq 1..MaxAttempts /\ Together \subseteq SUBSET Disturbances

VARIABLES
  record,     \* the training run: status, adapter_out, error, the attempt of each metric row
  job,        \* status of its job row
  leased,     \* the attempt that the queue leased last
  train,      \* what attempt n does
  manifest,   \* manifest.json of each adapter: absent, torn, or a record with its score
  eval,       \* the eval requests
  inline,     \* the runs of the evals: status, reward, cost, token, what a cancel read
  reports,    \* eval_reports
  published,  \* adapters announced with adapter.published
  pending,    \* announcements the reloader has not handled
  loaded,     \* adapters it has loaded
  faults      \* the kinds of disturbances that happened

tvars == <<record, job, leased, train>>
evars == <<eval, inline, reports>>
pvars == <<published, pending, loaded>>
avars == <<bvars, tvars, manifest, evars, pvars, faults>>

Attempts == 1..MaxAttempts

\* The job before it is enqueued; lost: it never was.
NoJob == {"absent", "saved", "lost"}
Leasable == {"queued", "running"} \cup Final

Absent == [kind |-> "absent"]
Torn   == [kind |-> "torn"]
Unscored == [kind |-> "file", scored |-> FALSE, score |-> 0]

Readable(id) == manifest[id].kind = "file"

\* A task of the job runner, with the record as it read it and the metric points
\* that were reported.  returned: run_training_job finishes the job next.
Waiting == [pc |-> "idle", points |-> {}, out |-> 0, error |-> FALSE, result |-> "none"]

\* An eval request: the adapter and its record as they were read, the task it
\* is at and the rewards so far.
NoEval == [pc |-> "idle", id |-> 0, read |-> Absent, task |-> 1, sum |-> 0]

NoInline == [status |-> "absent", reward |-> 0, cost |-> 0, token |-> "none", cancel |-> "none"]

AInit ==
  /\ BInit
  /\ record = [status |-> "absent", out |-> 0, error |-> FALSE,
               metrics |-> [s \in 1..Steps |-> 0]]
  /\ job = "absent" /\ leased = 1
  /\ train = [n \in Attempts |-> Waiting]
  /\ manifest = [id \in Attempts |-> Absent]
  /\ eval = [e \in Evals |-> NoEval]
  /\ inline = [e \in Evals |-> [k \in 1..Tasks |-> NoInline]]
  /\ reports = {} /\ published = {} /\ pending = <<>> /\ loaded = {}
  /\ faults = {}

Fault(kind) ==
  /\ kind \notin faults /\ \E ds \in Together : faults \cup {kind} \subseteq ds
  /\ faults' = faults \cup {kind}

TAt(n, pc) == train[n].pc = pc
TGoto(n, pc) == train' = [train EXCEPT ![n].pc = pc]
Training(n) == train[n].pc \notin {"idle", "done", "dead"}

EAt(e, pc) == eval[e].pc = pc
EGoto(e, pc) == eval' = [eval EXCEPT ![e].pc = pc]
Evaluating(e) == eval[e].pc \notin {"idle", "done", "failed", "dropped"}
-----------------------------------------------------------------------------
\* TrainingService::start: the record is saved, then the job is enqueued; without
\* the second step no runner ever takes the record.
SaveQueuedRecord ==
  /\ job = "absent"
  /\ record' = [record EXCEPT !.status = "queued"] /\ job' = "saved"
  /\ UNCHANGED <<bvars, leased, train, manifest, evars, pvars, faults>>

EnqueueTraining ==
  /\ job = "saved"
  /\ \/ job' = "queued" /\ UNCHANGED faults
     \/ job' = "lost" /\ Fault("store")
  /\ UNCHANGED <<bvars, record, leased, train, manifest, evars, pvars>>

\* execute: the record is read, the samples are gathered, and it is saved as
\* running; when one of the three fails the job fails and the record stays as it
\* was, queued or what an earlier attempt left.
Begun == [Waiting EXCEPT !.pc = "training", !.out = record.out, !.error = record.error]
Returned(n, result) == train' = [train EXCEPT ![n].pc = "returned", ![n].result = result]

TrainBegin(n) ==
  /\ leased = n /\ job \in Leasable /\ TAt(n, "idle")
  /\ job' = IF job = "queued" THEN "running" ELSE job
  /\ \/ /\ record' = [record EXCEPT !.status = "running"]
        /\ train' = [train EXCEPT ![n] = Begun] /\ UNCHANGED faults
     \/ Fault("save") /\ Returned(n, "failed") /\ UNCHANGED record
  /\ UNCHANGED <<bvars, leased, manifest, evars, pvars>>

\* on_metric: the row of the step is written over that of an earlier attempt, or
\* the write fails with a warning.
Metric(n) ==
  /\ TAt(n, "training")
  /\ \E s \in 1..Steps \ train[n].points :
       /\ train' = [train EXCEPT ![n].points = @ \cup {s}]
       /\ \/ record' = [record EXCEPT !.metrics[s] = n] /\ UNCHANGED faults
          \/ Fault("append") /\ UNCHANGED record
  /\ UNCHANGED <<bvars, job, leased, manifest, evars, pvars>>

\* The trainer, the stub or the one behind the bridge, answers or fails, whatever
\* points it reported: those that do not parse are dropped.
TrainerEnds(n) ==
  /\ TAt(n, "training")
  /\ \/ TGoto(n, "registering") /\ UNCHANGED faults
     \/ TGoto(n, "failing") /\ Fault("trainer")
  /\ UNCHANGED <<bvars, record, job, leased, manifest, evars, pvars>>

\* register writes manifest.json in place: it is truncated, then written.
Truncate(n) ==
  /\ TAt(n, "registering")
  /\ manifest' = [manifest EXCEPT ![n] = Torn]
  /\ TGoto(n, "writing")
  /\ UNCHANGED <<bvars, record, job, leased, evars, pvars, faults>>

\* A failed write is an error of execute: the record stays running.
Write(n) ==
  /\ TAt(n, "writing")
  /\ \/ /\ manifest' = [manifest EXCEPT ![n] = Unscored]
        /\ TGoto(n, "saving") /\ UNCHANGED faults
     \/ Fault("register") /\ Returned(n, "failed") /\ UNCHANGED manifest
  /\ UNCHANGED <<bvars, record, job, leased, evars, pvars>>

KeptMetrics(n) == record.metrics

\* save_training_run rewrites the metric rows of this attempt and deletes none.
SavedMetrics(n) ==
  [s \in 1..Steps |-> IF s \in train[n].points THEN n ELSE record.metrics[s]]

Trained(n) == [status |-> "completed", out |-> n, error |-> train[n].error, metrics |-> SavedMetrics(n)]

SaveTrainedOrNot(n) ==
  /\ TAt(n, "saving") /\ TGoto(n, "publishing")
  /\ \/ record' = Trained(n) /\ UNCHANGED faults
     \/ Fault("save") /\ UNCHANGED record
  /\ UNCHANGED <<bvars, job, leased, manifest, evars, pvars>>

\* An error that an earlier attempt left in the record stays there.
SaveTrained(n) ==
  /\ TAt(n, "saving")
  /\ \/ record' = Trained(n) /\ TGoto(n, "publishing") /\ UNCHANGED faults
     \/ Fault("save") /\ Returned(n, "failed") /\ UNCHANGED record
  /\ UNCHANGED <<bvars, job, leased, manifest, evars, pvars>>

QueuedAll(id) == Append(pending, id)

\* A full broadcast channel overwrites its oldest event: the reloader lags.
Queued(id) ==
  LET all == Append(pending, id)
  IN  IF Len(all) > EventBuffer THEN Tail(all) ELSE all

\* adapter.published, then training.completed.
PublishAdapter(n) ==
  /\ TAt(n, "publishing")
  /\ published' = published \cup {n}
  /\ pending' = Queued(n)
  /\ Returned(n, "completed")
  /\ UNCHANGED <<bvars, record, job, leased, manifest, evars, loaded, faults>>

\* The failure of the trainer is saved; when that fails too the record stays
\* running.
SaveFailed(n) ==
  /\ TAt(n, "failing") /\ Returned(n, "failed")
  /\ \/ /\ record' = [status |-> "failed", out |-> train[n].out, error |-> TRUE,
                      metrics |-> SavedMetrics(n)]
        /\ UNCHANGED faults
     \/ Fault("save") /\ UNCHANGED record
  /\ UNCHANGED <<bvars, job, leased, manifest, evars, pvars>>

\* run_training_job: the job takes the status of the record, or failed.  An error
\* of finish_job is dropped, and the job stays running without a task.
FinishTraining(n) ==
  /\ TAt(n, "returned") /\ TGoto(n, "done")
  /\ \/ job' = train[n].result /\ UNCHANGED faults
     \/ Fault("finish") /\ UNCHANGED job
  /\ UNCHANGED <<bvars, record, leased, manifest, evars, pvars>>

\* No heartbeat extends its lease any more: it is leased again, and executed over
\* the record that the last attempt left.
LeaseAgain ==
  /\ leased <= MaxAttempts /\ TAt(leased, "done") /\ job = "running"
  /\ leased' = leased + 1
  /\ UNCHANGED <<bvars, record, job, train, manifest, evars, pvars, faults>>

ExhaustedQuietly ==
  /\ leased = MaxAttempts + 1
  /\ leased' = leased + 1
  /\ UNCHANGED <<bvars, record, job, train, manifest, evars, pvars, faults>>

\* A lease beyond the last attempt: the job fails, the record stays as it is.  Had
\* finish_job failed here the next lease would do the same.
Exhausted ==
  /\ leased = MaxAttempts + 1
  /\ leased' = leased + 1 /\ job' = "failed"
  /\ UNCHANGED <<bvars, record, train, manifest, evars, pvars, faults>>

\* The lease expires under a running attempt and the job is leased again.
LoseLease ==
  /\ leased <= MaxAttempts /\ Training(leased) /\ job = "running" /\ Fault("overlap")
  /\ leased' = leased + 1
  /\ UNCHANGED <<bvars, record, job, train, manifest, evars, pvars>>

\* The reloader takes the next announcement; a server that refuses is a warning.
Reload ==
  /\ pending # <<>>
  /\ pending' = Tail(pending)
  /\ \E ok \in BOOLEAN : loaded' = IF ok THEN loaded \cup {Head(pending)} ELSE loaded
  /\ UNCHANGED <<bvars, tvars, manifest, evars, published, faults>>
-----------------------------------------------------------------------------
\* EvalHarness::run: the record of the adapter is read, once.  A request after
\* the first counts as a disturbance.
GetAdapter(e, id) ==
  /\ EAt(e, "idle")
  /\ IF \A f \in Evals : EAt(f, "idle") THEN UNCHANGED faults ELSE Fault("again")
  /\ eval' = [eval EXCEPT ![e].pc = IF Readable(id) THEN "submit" ELSE "failed",
                          ![e].id = id, ![e].read = manifest[id]]
  /\ UNCHANGED <<bvars, tvars, manifest, inline, reports, pvars>>

Run(e) == inline[e][eval[e].task]

\* A save of the run, or an error of the store that ends the request.
Saved(e, run) == inline' = [inline EXCEPT ![e][eval[e].task] = run]

\* submit_inline: the run is saved as queued, there is no job row.
Submit(e) ==
  /\ EAt(e, "submit")
  /\ \/ /\ Saved(e, [NoInline EXCEPT !.status = "queued"])
        /\ EGoto(e, "register") /\ UNCHANGED faults
     \/ Fault("store") /\ EGoto(e, "failed") /\ UNCHANGED inline
  /\ UNCHANGED <<bvars, tvars, manifest, reports, pvars>>

\* register_cancel, then execute: over the budget the run fails without a reward;
\* else it is saved as running, whatever was saved since submit_inline.  An error
\* of the store, at the read, the sum of the costs or the save, ends the request
\* and leaves the run as it was.
StartRun(e) ==
  /\ EAt(e, "register")
  /\ \/ /\ Admit(e) /\ EGoto(e, "running") /\ UNCHANGED faults
        /\ Saved(e, [Run(e) EXCEPT !.token = "live", !.status = "running"])
     \/ /\ Reject(e) /\ EGoto(e, "ended") /\ UNCHANGED faults
        /\ Saved(e, [Run(e) EXCEPT !.token = "live", !.status = "failed"])
     \/ /\ Fault("store") /\ EGoto(e, "broken") /\ UNCHANGED bvars
        /\ Saved(e, [Run(e) EXCEPT !.token = "live"])
  /\ UNCHANGED <<tvars, manifest, reports, pvars>>

\* finish: a run whose token was cancelled may still complete.  An error of the
\* store leaves it running, and ends the request once the token is removed.
EndRun(e) ==
  /\ EAt(e, "running")
  /\ \/ \E o \in Outcomes :
          /\ o.status = "cancelled" => Run(e).token = "signalled"
          /\ Record(e, 0, o.cost)
          /\ Saved(e, [Run(e) EXCEPT !.status = o.status, !.reward = o.reward, !.cost = o.cost])
          /\ EGoto(e, "ended") /\ UNCHANGED faults
     \/ Vanish(e) /\ Fault("store") /\ EGoto(e, "broken") /\ UNCHANGED inline
  /\ UNCHANGED <<tvars, manifest, reports, pvars>>

\* unregister_cancel; the reward that execute returned joins the report, which is
\* saved after the last task.
LastSum(e) == Run(e).reward
Sum(e) == eval[e].sum + Run(e).reward
Last(e) == eval[e].task = Tasks

After(e) ==
  IF Last(e) THEN [eval[e] EXCEPT !.pc = "stamp", !.sum = Sum(e)]
  ELSE [eval[e] EXCEPT !.pc = "submit", !.sum = Sum(e), !.task = eval[e].task + 1]

ForgottenWhenDone(run) == IF run.status = "running" THEN run ELSE [run EXCEPT !.token = "none"]
Forgotten(run) == [run EXCEPT !.token = "none"]

Unregister(e) ==
  /\ EAt(e, "ended") \/ EAt(e, "broken")
  /\ Saved(e, Forgotten(Run(e)))
  /\ \/ /\ EAt(e, "ended")
        /\ eval' = [eval EXCEPT ![e] = After(e)]
        /\ reports' = IF Last(e) THEN reports \cup {[eval |-> e, id |-> eval[e].id, sum |-> Sum(e)]}
                      ELSE reports
        /\ UNCHANGED faults
     \/ /\ EAt(e, "ended") /\ Last(e) /\ Fault("store")
        /\ EGoto(e, "failed") /\ UNCHANGED reports
     \/ EAt(e, "broken") /\ EGoto(e, "failed") /\ UNCHANGED <<reports, faults>>
  /\ UNCHANGED <<bvars, tvars, manifest, pvars>>

\* register truncates the manifest of the adapter, then writes the record that
\* was read before the rollouts, with the new score.
StampBegin(e) ==
  /\ EAt(e, "stamp")
  /\ manifest' = [manifest EXCEPT ![eval[e].id] = Torn]
  /\ EGoto(e, "stamping")
  /\ UNCHANGED <<bvars, tvars, inline, reports, pvars, faults>>

\* Both register of the same adapter may have truncated before either wrote: the
\* second text is written over the first, and garbled when it is shorter.
Stamped(e) ==
  LET id == eval[e].id
      mine == [eval[e].read EXCEPT !.scored = TRUE, !.score = eval[e].sum]
  IN  {mine} \cup IF manifest[id] \in {Torn, mine} THEN {} ELSE {Torn}

Stamp(e) ==
  /\ EAt(e, "stamping")
  /\ \/ /\ \E file \in Stamped(e) : manifest' = [manifest EXCEPT ![eval[e].id] = file]
        /\ EGoto(e, "done") /\ UNCHANGED faults
     \/ Fault("register") /\ EGoto(e, "failed") /\ UNCHANGED manifest
  /\ UNCHANGED <<bvars, tvars, inline, reports, pvars>>

\* The client of the request goes away and the handler is dropped where it waits:
\* the token stays registered and the run stays as it is.
Hangup(e) ==
  /\ EAt(e, "register") \/ EAt(e, "running") \/ EAt(e, "ended")
  /\ Fault("hangup")
  /\ EGoto(e, "dropped")
  /\ IF EAt(e, "running") THEN Vanish(e) ELSE UNCHANGED bvars
  /\ UNCHANGED <<tvars, manifest, inline, reports, pvars>>

\* request_cancel of the run of a task: the manifest is read, then the map of
\* tokens is locked.
CancelRead(e, k) ==
  /\ inline[e][k].status \in {"queued", "running"} /\ Fault("cancel")
  /\ inline' = [inline EXCEPT ![e][k].cancel = inline[e][k].status]
  /\ UNCHANGED <<bvars, tvars, manifest, eval, reports, pvars>>

\* The token is signalled; without one, a run that was queued when it was read is
\* saved as cancelled with the manifest of then, which has no cost.
TooLate(run) == run.token = "none" /\ run.cancel = "queued"

Cancelled(run) ==
  IF TooLate(run) THEN [run EXCEPT !.cancel = "none", !.status = "cancelled", !.cost = 0]
  ELSE IF run.token = "none" THEN [run EXCEPT !.cancel = "none"]
  ELSE [run EXCEPT !.cancel = "none", !.token = "signalled"]

\* What goes from the sum of the costs with that of a run: nothing if the run has
\* left the window.
Within(cost) == (IF {"age", "crash"} \cap faults = {} THEN {cost} ELSE {0, cost}) \cap 0..spent

CancelAct(e, k) ==
  /\ inline[e][k].cancel # "none"
  /\ \/ /\ inline' = [inline EXCEPT ![e][k] = Cancelled(inline[e][k])]
        /\ IF TooLate(inline[e][k]) THEN \E cost \in Within(inline[e][k].cost) : Age(cost)
           ELSE UNCHANGED bvars
        /\ UNCHANGED faults
     \/ /\ Fault("store") /\ inline' = [inline EXCEPT ![e][k].cancel = "none"]
        /\ UNCHANGED bvars
  /\ UNCHANGED <<tvars, manifest, eval, reports, pvars>>
-----------------------------------------------------------------------------
\* A rollout of the job runner; the run of a crashed attempt may have its cost
\* recorded already.
Earlier == {0} \cup IF "crash" \in faults THEN {o.cost : o \in Outcomes} \cap 0..spent ELSE {}

SlotStep(s) ==
  /\ \/ Admit(s) \/ Reject(s)
     \/ \E before \in Earlier, o \in Outcomes : Record(s, before, o.cost)
  /\ UNCHANGED <<tvars, manifest, evars, pvars, faults>>

\* Runs leave the window of the budget, or a late cancel of a run of the job runner
\* takes the cost back.
Window ==
  /\ Fault("age") /\ \E cost \in 1..spent : Age(cost)
  /\ UNCHANGED <<tvars, manifest, evars, pvars>>

\* The server is killed and started again: the requests, tokens and announcements
\* are gone, and the lease of a job that was running expires.
Killed(n) == Training(n) \/ (n = leased /\ job \in {"running"} \cup Final /\ TAt(n, "idle"))

Crash ==
  /\ Fault("crash")
  /\ Restart
  /\ train' = [n \in Attempts |-> IF Killed(n) THEN [train[n] EXCEPT !.pc = "dead"] ELSE train[n]]
  /\ leased' = CASE job = "running" /\ leased <= MaxAttempts -> leased + 1
                 [] job \in Final /\ leased > MaxAttempts    -> MaxAttempts + 2
                 [] OTHER -> leased
  /\ job' = IF job = "saved" THEN "lost" ELSE job
  /\ eval' = [e \in Evals |-> IF Evaluating(e) THEN [eval[e] EXCEPT !.pc = "dropped"] ELSE eval[e]]
  /\ inline' = [e \in Evals |-> [k \in 1..Tasks |->
                 [inline[e][k] EXCEPT !.token = "none", !.cancel = "none"]]]
  /\ pending' = <<>>
  /\ UNCHANGED <<record, manifest, reports, published, loaded>>

TrainStep(n) ==
  \/ TrainBegin(n) \/ Metric(n) \/ TrainerEnds(n) \/ Truncate(n) \/ Write(n)
  \/ SaveTrained(n) \/ PublishAdapter(n) \/ SaveFailed(n) \/ FinishTraining(n)

EvalStep(e) ==
  \/ Submit(e) \/ StartRun(e) \/ EndRun(e) \/ Unregister(e)
  \/ StampBegin(e) \/ Stamp(e)
  \/ \E k \in 1..Tasks : CancelAct(e, k)

ANext ==
  \/ \E n \in Attempts : TrainStep(n)
  \/ SaveQueuedRecord \/ EnqueueTraining \/ LeaseAgain \/ Exhausted \/ LoseLease
  \/ Reload \/ Window \/ Crash
  \/ \E e \in Evals : EvalStep(e) \/ Hangup(e)
  \/ \E e \in Evals, id \in Requested : GetAdapter(e, id)
  \/ \E e \in Evals, k \in 1..Tasks : CancelRead(e, k)
  \/ \E s \in Slots : SlotStep(s)

ASpec ==
  /\ AInit /\ [][ANext]_avars
  /\ WF_avars((\E n \in Attempts : TrainStep(n)) \/ EnqueueTraining \/ LeaseAgain \/ Exhausted)
  /\ \A e \in Evals : WF_avars(EvalStep(e))
  /\ WF_avars(Reload)
-----------------------------------------------------------------------------
Without(kinds) == faults \cap kinds = {}

\* Every variable keeps its type; a request that went on has read a whole manifest,
\* what is loaded was announced, and the channel never holds more than its capacity.
ATypeOK ==
  /\ BTypeOK
  /\ record \in [status : {"absent", "queued", "running"} \cup Final, out : 0..MaxAttempts, error : BOOLEAN,
                 metrics : [1..Steps -> 0..MaxAttempts]]
  /\ job \in NoJob \cup Leasable /\ leased \in 1..MaxAttempts + 2
  /\ \A id \in Attempts : manifest[id].kind \in {"absent", "torn", "file"}
  /\ \A e \in Evals : eval[e].pc # "idle" => eval[e].read.kind = "file" \/ EAt(e, "failed")
  /\ {r.eval : r \in reports} \subseteq Evals
  /\ published \subseteq Attempts /\ loaded \subseteq published
  /\ Len(pending) <= EventBuffer

\* A completed training run has its adapter, and of all the points that its
\* attempt reported the rows of that attempt, failed appends included: only at a
\* step it did not report the row of an earlier attempt survives.
Owned == record.status = "completed" =>
  /\ record.out \in Attempts /\ manifest[record.out].kind # "absent"
  /\ Without({"overlap"}) => \A s \in 1..Steps :
       IF s \in train[record.out].points THEN record.metrics[s] = record.out
       ELSE record.metrics[s] < record.out

\* As long as one attempt runs at a time a completed job has a completed record; a
\* failed one has a failed record unless the store or the registry failed within
\* execute, or the queue gave the job up; and only a record that is executed
\* again, after a crash or a lost finish_job, has an error without being failed.
Followed ==
  /\ job = "completed" /\ Without({"overlap"}) => record.status = "completed"
  /\ job = "failed" /\ leased <= MaxAttempts /\ Without({"overlap", "register", "save"})
       => record.status = "failed"
  /\ record.error /\ Without({"crash", "overlap", "finish"}) => record.status = "failed"

\* The record of a training run says what happened: both of the above.
TrainingRecordTrue == Owned /\ Followed

\* What was announced or loaded can be read back: only an eval that rewrites the
\* manifest, a crash or a failed write within it, or two evals of the adapter that
\* rewrite it at once leave it unreadable.  Its training run names it unless a
\* crash, a lost lease or a lost finish_job had it trained again.
Rewritten(id) ==
  \/ \E e \in Evals : EAt(e, "stamping") /\ eval[e].id = id
  \/ \E e, f \in Evals : e # f /\ eval[e].id = id /\ eval[f].id = id
                        /\ {eval[e].pc, eval[f].pc} = {"done"}

PublishedIsDurable ==
  \A id \in published \cup loaded :
    /\ Readable(id) \/ Rewritten(id) \/ ~Without({"crash", "register"})
    /\ Without({"crash", "overlap", "finish"}) => record.status = "completed" /\ record.out = id

SumOf(runs) ==
  LET upto[k \in 0..Tasks] == IF k = 0 THEN 0 ELSE upto[k - 1] + runs[k].reward
  IN  upto[Tasks]

\* The score of an adapter is that of a stored report, and a report holds the
\* rewards of runs that ended, one per task.
ScoreHasReport ==
  /\ \A id \in Attempts : Readable(id) /\ manifest[id].scored =>
       \E r \in reports : r.id = id /\ r.sum = manifest[id].score
  /\ \A r \in reports :
       /\ \A k \in 1..Tasks : inline[r.eval][k].status \in Final
       /\ r.sum = SumOf(inline[r.eval])

\* A run of an eval that has not ended belongs to the request that waits for it,
\* at its task, and a token to a run that is about to start or running: requests
\* that were dropped, and errors of the store, leave runs behind.
InlineRunsAccounted ==
  \A e \in Evals, k \in 1..Tasks :
    LET served == Evaluating(e) /\ eval[e].task = k
    IN  /\ inline[e][k].token # "none" => served \/ ~Without({"hangup"})
        /\ inline[e][k].status \in {"queued", "running"} =>
             served \/ ~Without({"hangup", "crash", "store"})

\* Every eval request ends, every announcement is handled, and a training job that
\* was enqueued ends although its process may die under it.
RequestsEnd ==
  /\ \A e \in Evals : <>[](~Evaluating(e))
  /\ <>[](job \in Final \cup {"absent", "lost"} /\ pending = <<>>)
=============================================================================

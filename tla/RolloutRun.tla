----------------------------- MODULE RolloutRun -----------------------------
(***************************************************************************)
(* Rollout runs: the Coordinator of horizon-server on top of the job queue. *)
(* A run is a row of `runs` whose status every writer replaces as a whole   *)
(* (save_run is an upsert); its job row has the same id.  The manifest is   *)
(* written by submit, by the task that executes an attempt, and by the      *)
(* cancel handler of any process.                                           *)
(*                                                                          *)
(* Every step is a step of JobQueue or leaves the queue's variables alone.  *)
(* All jobs are rollouts with a payload that submit wrote, so it parses.    *)
(* One cancel handler at a time per process (a bound), and horizons of at   *)
(* least one turn.                                                          *)
(***************************************************************************)
EXTENDS JobQueue

CONSTANTS
  Verifiers,  \* the runs whose profile routes to the Python bridge
  MaxLost,    \* bound: store calls of the coordinator that fail
  NoCall      \* no request_cancel call is in progress in a process

\* A cancel handler of the coordinator between its steps.
Call == [job: Jobs, sawQueued: BOOLEAN, stage: {"read", "flagging", "flagged"}]

ASSUME RolloutRunAssumption ==
  /\ Rollouts = Jobs /\ BadPayload = {} /\ Verifiers \subseteq Jobs
  /\ NoCall \notin Call
  /\ MaxLost \in Nat

VARIABLES
  run,         \* manifest.status of each run, "absent" before submit
  submitting,  \* submit calls between save_run and enqueue_job
  exec,        \* what attempt n of job j is doing, while a task executes it
  tokens,      \* Coordinator.cancels: the attempt whose token is registered
  call,        \* the request_cancel call in progress in each process
  lost         \* store calls of the coordinator that failed, at most MaxLost

rvars == <<run, submitting, exec, tokens, call, lost>>

RunTerminal == {"completed", "failed", "cancelled"}
RunStatus   == {"absent", "queued", "running"} \cup RunTerminal

\* registered: register_cancel done.  started: rollout.started is out.
\* calling: waiting for the policy server, the sandbox or the bridge.
\* ending: finish() is about to save `res`.  failing: the Err branch of
\* execute() is about to save "failed".  saved: execute() has returned `res`.
Exec == [stage: {"idle", "registered", "started", "calling", "ending",
                 "failing", "saved"},
         res: RunTerminal \cup {"none"}, signalled: BOOLEAN]

Idle == [stage |-> "idle", res |-> "none", signalled |-> FALSE]


RInit ==
  /\ Init
  /\ run = [j \in Jobs |-> "absent"]
  /\ submitting = {}
  /\ exec = [j \in Jobs |-> [n \in 1..MaxAttempts |-> Idle]]
  /\ tokens = [w \in Workers |-> [j \in Jobs |-> 0]]
  /\ call = [w \in Workers |-> NoCall]
  /\ lost = 0

At(t, stage) == t.phase = "executing" /\ exec[t.job][t.n].stage = stage

Signalled(t) == exec[t.job][t.n].signalled

StoreError == lost < MaxLost /\ lost' = lost + 1

\* The attempt moves on, with what execute() is about to save or return.
Goto(t, stage, res) ==
  exec' = [exec EXCEPT ![t.job][t.n] = [@ EXCEPT !.stage = stage, !.res = res]]
-----------------------------------------------------------------------------
\* submit: the run is saved first, then its job is inserted.
SubmitSave(w, j) ==
  /\ ConnFree(w) /\ run[j] = "absent"
  /\ run' = [run EXCEPT ![j] = "queued"]
  /\ submitting' = submitting \cup {<<w, j>>}
  /\ UNCHANGED <<vars, exec, tokens, call, lost>>

SubmitEnqueue(w, j) ==
  /\ <<w, j>> \in submitting
  /\ \/ Enqueue(w, j) /\ UNCHANGED lost
     \/ StoreError /\ UNCHANGED vars
  /\ submitting' = submitting \ {<<w, j>>}
  /\ UNCHANGED <<run, exec, tokens, call>>

\* run_rollout_job: heartbeat and cancellation token.  register_cancel
\* replaces whatever token the map holds for the run.
BeginRollout(t) ==
  /\ BeginExecute(t)
  /\ exec' = [exec EXCEPT ![t.job][t.n] = [Idle EXCEPT !.stage = "registered"]]
  /\ tokens' = [tokens EXCEPT ![t.worker][t.job] = t.n]
  /\ UNCHANGED <<run, submitting, call, lost>>

\* execute: status running, whatever the stored manifest says.
StartRun(t) ==
  /\ At(t, "registered") /\ ConnFree(t.worker)
  /\ run' = [run EXCEPT ![t.job] = "running"]
  /\ Goto(t, "started", "none")
  /\ UNCHANGED <<vars, submitting, tokens, call, lost>>

\* The reads or the first save fail: execute() returns the error at once.
StartLost(t) ==
  /\ At(t, "registered") /\ StoreError
  /\ Goto(t, "saved", "failed")
  /\ UNCHANGED <<vars, run, submitting, tokens, call>>

\* reject_if_over_budget: the run fails without having started.
RejectOverBudget(t) ==
  /\ At(t, "registered") /\ ConnFree(t.worker)
  /\ Goto(t, "failing", "failed")
  /\ UNCHANGED <<vars, run, submitting, tokens, call, lost>>

\* is_cancelled: the token of this process, or the flag of the job row.
CancelSeen(t) == Signalled(t) \/ jobs[t.job].cancel

\* The check before the first turn (repo) or before the bridge is called.
Probe(t) ==
  /\ At(t, "started") /\ ConnFree(t.worker)
  /\ IF CancelSeen(t) THEN Goto(t, "ending", "cancelled")
                      ELSE Goto(t, "calling", "none")
  /\ UNCHANGED <<vars, run, submitting, tokens, call, lost>>

\* The select on the token while a provider or the bridge is awaited.
Interrupt(t) ==
  /\ At(t, "calling") /\ Signalled(t)
  /\ Goto(t, "ending", "cancelled")
  /\ UNCHANGED <<vars, run, submitting, tokens, call, lost>>

ReturnDeaf(t) ==
  /\ At(t, "calling") /\ ConnFree(t.worker)
  /\ \E s \in {"completed", "failed"} : Goto(t, "ending", s)
  /\ UNCHANGED <<vars, run, submitting, tokens, call, lost>>

\* The last turn ends (finish, horizon or token overflow), or the bridge
\* answers.  The token wins the biased select.  Only a repo rollout probes
\* the job row after the turn; turns that are followed by another one change
\* nothing here.
Return(t) ==
  /\ At(t, "calling") /\ ~Signalled(t) /\ ConnFree(t.worker)
  /\ IF t.job \notin Verifiers /\ jobs[t.job].cancel
     THEN Goto(t, "ending", "cancelled")
     ELSE \E s \in {"completed", "failed"} : Goto(t, "ending", s)
  /\ UNCHANGED <<vars, run, submitting, tokens, call, lost>>

\* A read of the flag fails: the repo loop takes it for "not cancelled", the
\* verifiers path returns the error.
ProbeLost(t) ==
  /\ StoreError
  /\ \/ At(t, "started") /\ t.job \in Verifiers /\ Goto(t, "failing", "failed")
     \/ At(t, "started") /\ t.job \notin Verifiers /\ Goto(t, "calling", "none")
     \/ /\ At(t, "calling") /\ t.job \notin Verifiers
        /\ \E s \in {"completed", "failed"} : Goto(t, "ending", s)
  /\ ~Signalled(t)
  /\ UNCHANGED <<vars, run, submitting, tokens, call>>

\* The workspace, the policy or the bridge fails: the Err branch of execute().
Fail(t) ==
  /\ \/ At(t, "started")
     \/ At(t, "calling") /\ ~Signalled(t)
  /\ Goto(t, "failing", "failed")
  /\ UNCHANGED <<vars, run, submitting, tokens, call, lost>>

\* finish: the terminal status replaces whatever is stored.
SaveFinal(t) ==
  /\ At(t, "ending") \/ At(t, "failing")
  /\ ConnFree(t.worker)
  /\ run' = [run EXCEPT ![t.job] = exec[t.job][t.n].res]
  /\ Goto(t, "saved", exec[t.job][t.n].res)
  /\ UNCHANGED <<vars, submitting, tokens, call, lost>>

\* That save fails: once more from the Err branch, then execute() gives up.
SaveLost(t) ==
  /\ StoreError
  /\ \/ At(t, "ending") /\ Goto(t, "failing", "failed")
     \/ At(t, "failing") /\ Goto(t, "saved", "failed")
  /\ UNCHANGED <<vars, run, submitting, tokens, call>>

UnregisterIfHeld(t) ==
  IF jobs[t.job].attempts = t.n THEN [tokens EXCEPT ![t.worker][t.job] = 0] ELSE tokens

\* unregister_cancel removes the entry of the run, whoever registered it.
Unregister(t) == [tokens EXCEPT ![t.worker][t.job] = 0]

EndRunKeepsAttempt(t) ==
  /\ At(t, "saved")
  /\ EndExecute(t, exec[t.job][t.n].res)
  /\ tokens' = Unregister(t)
  /\ UNCHANGED <<run, submitting, exec, call, lost>>

\* execute() has returned: unregister_cancel, then heartbeat.cancel().
EndRun(t) ==
  /\ At(t, "saved")
  /\ EndExecute(t, exec[t.job][t.n].res)
  /\ tokens' = Unregister(t)
  /\ exec' = [exec EXCEPT ![t.job][t.n] = Idle]
  /\ UNCHANGED <<run, submitting, call, lost>>
-----------------------------------------------------------------------------
\* Coordinator::request_cancel reads the manifest; terminal: it returns false.
CancelRead(w, j) ==
  /\ ConnFree(w) /\ call[w] = NoCall
  /\ run[j] \in {"queued", "running"}
  /\ call' = [call EXCEPT ![w] =
       [job |-> j, sawQueued |-> run[j] = "queued", stage |-> "read"]]
  /\ UNCHANGED <<vars, run, submitting, exec, tokens, lost>>

\* It asks the store to flag the job row; no row, or a terminal one: the
\* answer is false, and the handler goes on all the same.  When one of the two
\* statements fails the handler returns the error, with nothing changed.
CancelRow(w) ==
  /\ call[w] # NoCall /\ call[w].stage = "read" /\ ConnFree(w)
  /\ \/ /\ CancelSelect(w, call[w].job)
        /\ call' = [call EXCEPT ![w].stage = "flagging"]
        /\ UNCHANGED lost
     \/ /\ jobs[call[w].job].status \in Terminal \cup {"absent"}
        /\ call' = [call EXCEPT ![w].stage = "flagged"]
        /\ UNCHANGED <<vars, lost>>
     \/ /\ StoreError
        /\ call' = [call EXCEPT ![w] = NoCall]
        /\ UNCHANGED vars
  /\ UNCHANGED <<run, submitting, exec, tokens>>

CancelFlag(c) ==
  /\ CancelUpdate(c)
  /\ call' = [call EXCEPT ![c.worker].stage = "flagged"]
  /\ UNCHANGED <<run, submitting, exec, tokens, lost>>

CancelRunTokenOnly(w) ==
  /\ call[w] # NoCall /\ call[w].stage = "flagged"
  /\ LET j == call[w].job
         n == tokens[w][j]
     IN  IF n # 0
         THEN exec' = [exec EXCEPT ![j][n] = [@ EXCEPT !.signalled = TRUE]]
         ELSE UNCHANGED exec
  /\ call' = [call EXCEPT ![w] = NoCall]
  /\ UNCHANGED <<vars, run, submitting, tokens, lost>>

\* The token of this process, if one is registered; else, if the manifest read
\* at the start was queued, the run is saved as cancelled.  The map stays
\* locked over both, so no attempt registers in between.  When the read or the
\* save of the run fails, the row stays flagged and the manifest as it is.
CancelRun(w) ==
  /\ call[w] # NoCall /\ call[w].stage = "flagged"
  /\ LET j == call[w].job
         n == tokens[w][j]
     IN  \/ /\ n # 0
            /\ exec' = [exec EXCEPT ![j][n] = [@ EXCEPT !.signalled = TRUE]]
            /\ UNCHANGED <<run, lost>>
         \/ /\ n = 0 /\ call[w].sawQueued /\ ConnFree(w)
            /\ \/ run' = [run EXCEPT ![j] = "cancelled"] /\ UNCHANGED lost
               \/ StoreError /\ UNCHANGED run
            /\ UNCHANGED exec
         \/ n = 0 /\ ~call[w].sawQueued /\ UNCHANGED <<run, exec, lost>>
  /\ call' = [call EXCEPT ![w] = NoCall]
  /\ UNCHANGED <<vars, submitting, tokens>>

\* With a process go its calls, its token map and what its tasks were doing.
StopRuns(w) ==
  /\ Crash(w) \/ Exit(w)
  /\ submitting' = {s \in submitting : s[1] # w}
  /\ tokens' = [tokens EXCEPT ![w] = [j \in Jobs |-> 0]]
  /\ call' = [call EXCEPT ![w] = NoCall]
  /\ exec' = [j \in Jobs |-> [n \in 1..MaxAttempts |->
       IF \E t \in tasks : t.worker = w /\ t.job = j /\ t.n = n
       THEN Idle ELSE exec[j][n]]]
  /\ UNCHANGED <<run, lost>>

\* Steps of the queue in which the coordinator has no part.
QueueOnly ==
  /\ \/ \E w \in Workers : Drain(w) \/ Start(w) \/ \E j \in Jobs : LeaseJob(w, j)
     \/ \E t \in tasks : GiveUp(t) \/ Heartbeat(t) \/ FinishJob(t) \/ FinishLost(t)
     \/ \E j \in Jobs : Expire(j)
  /\ UNCHANGED rvars

RunStep(t) ==
  \/ BeginRollout(t) \/ StartRun(t) \/ StartLost(t) \/ RejectOverBudget(t)
  \/ Probe(t) \/ ProbeLost(t) \/ Interrupt(t) \/ Return(t) \/ Fail(t)
  \/ SaveFinal(t) \/ SaveLost(t) \/ EndRun(t)

HandlerStep(w) ==
  \/ CancelRow(w) \/ CancelRun(w) \/ StopRuns(w)
  \/ \E j \in Jobs : SubmitSave(w, j) \/ SubmitEnqueue(w, j) \/ CancelRead(w, j)

RNext ==
  \/ QueueOnly
  \/ \E t \in tasks : RunStep(t)
  \/ \E w \in Workers : HandlerStep(w)
  \/ \E c \in cancels : CancelFlag(c)

RSpec == RInit /\ [][RNext]_<<vars, rvars>>

\* What an execution does when no fault disturbs it.
Progress(t) ==
  \/ BeginRollout(t) \/ StartRun(t) \/ Probe(t) \/ Interrupt(t) \/ Return(t)
  \/ Fail(t) \/ SaveFinal(t) \/ EndRun(t)

Alone(action) == action /\ UNCHANGED rvars

\* The fairness of the queue, with the executions as this module details them:
\* a provider, a sandbox or the bridge answers or fails eventually.
RFairness ==
  /\ \A w \in Workers :
       /\ WF_<<vars, rvars>>(Alone(Start(w)))
       /\ WF_<<vars, rvars>>(up[w] = "draining" /\ StopRuns(w))
       /\ SF_<<vars, rvars>>(\E j \in Jobs : Alone(LeaseJob(w, j)))
       /\ WF_<<vars, rvars>>(\E c \in cancels : c.worker = w /\ CancelFlag(c))
       /\ \A j \in Jobs :
            /\ SF_<<vars, rvars>>(\E t \in TaskOf(w, j) : Progress(t))
            /\ SF_<<vars, rvars>>(\E t \in TaskOf(w, j) :
                                     Alone(GiveUp(t) \/ FinishJob(t)))
  /\ \A j \in Jobs : WF_<<vars, rvars>>(~CurrentTaskAlive(j) /\ Alone(Expire(j)))

RFairSpec == RSpec /\ RFairness
-----------------------------------------------------------------------------
(***************************************************************************)
(* Properties                                                              *)
(***************************************************************************)

\* The shape of the runs, of the attempts and of the calls in progress; an
\* attempt that is not idle belongs to a task that executes it.
RTypeOK ==
  /\ run \in [Jobs -> RunStatus]
  /\ submitting \subseteq Workers \X Jobs
  /\ exec \in [Jobs -> [1..MaxAttempts -> Exec]]
  /\ tokens \in [Workers -> [Jobs -> 0..MaxAttempts]]
  /\ lost \in 0..MaxLost
  /\ call \in [Workers -> Call \cup {NoCall}]
  /\ \A j \in Jobs, n \in 1..MaxAttempts :
       /\ exec[j][n].stage \in {"ending", "failing", "saved"}
            => exec[j][n].res \in RunTerminal
       /\ exec[j][n] # Idle =>
            \E t \in tasks : t.job = j /\ t.n = n /\ t.phase = "executing"

\* The token a cancel handler finds belongs to an attempt that this process
\* is executing right now, over lost leases that put two attempts of one run
\* into the same process: a cancel is never swallowed by a dead token.
NoStaleToken ==
  \A w \in Workers, j \in Jobs : tokens[w][j] # 0 =>
    \E t \in tasks : /\ t.worker = w /\ t.job = j /\ t.n = tokens[w][j]
                     /\ t.phase = "executing"

\* Only a second attempt takes the token from a first one, by replacing it or by
\* removing it at its own end: the attempt of a job leased once can be interrupted.
ExecutingIsReachable ==
  \A t \in tasks : t.phase = "executing" /\ jobs[t.job].attempts = 1
    => tokens[t.worker][t.job] = t.n

\* The token map under overlapping attempts: no token outlives its attempt, not even
\* when attempts of one run in one process replace and remove each other's, and an
\* attempt is out of reach of a cancel only when the job was leased again.
TokenMapExact == NoStaleToken /\ ExecutingIsReachable

\* The job was given up at a lease beyond the limit; with JOB_MAX_ATTEMPTS = 0 at the first.
GivenUp(j) == jobs[j].attempts > MaxAttempts

\* Without faults the manifest follows the job: once the job row is terminal
\* and its task and every handler are gone, the run is terminal as well,
\* whatever cancels from several processes met.
SettledTogether ==
  \A j \in Jobs :
    /\ faults = 0 /\ lost = 0 /\ jobs[j].status \in Terminal /\ ~GivenUp(j)
    /\ \A t \in tasks : t.job # j
    /\ \A w \in Workers : call[w] # NoCall => call[w].job # j
    => run[j] \in RunTerminal

\* A run that was cancelled together with its job before any lease is cancelled
\* for good: no runner of any process leases it and no handler changes it again.
EarlyCancelIsFinal ==
  [][\A j \in Jobs :
       run[j] = "cancelled" /\ jobs[j].status = "cancelled" /\ jobs[j].attempts = 0
       => run'[j] = "cancelled" /\ jobs'[j].attempts = 0]_<<vars, rvars>>

\* A cancel that reaches the attempt before its outcome is decided is not
\* overridden by a completion ("a cancelled rollout never waits for the
\* provider to finish generating", README item 3).
HeardCancelNeverCompletes ==
  [][\A j \in Jobs, n \in 1..MaxAttempts :
       /\ exec[j][n].signalled
       /\ exec[j][n].stage \in {"registered", "started", "calling"}
       => exec'[j][n].res # "completed"]_<<vars, rvars>>

\* A cancel that came early enough holds: before the first lease for good, and of an
\* attempt that heard it against its completion, in the process that runs it or another.
CancelsHold == EarlyCancelIsFinal /\ HeardCancelNeverCompletes

\* Without a fault no attempt starts over a run that completed or failed.
FinishedRunsNotRestarted ==
  [][\A j \in Jobs : faults' = 0 /\ lost = 0 /\ run[j] \in {"completed", "failed"}
       => run'[j] # "running"]_<<vars, rvars>>

\* Without faults a run reports what its job reports, unless a cancel handler
\* that read the manifest while it was queued has overwritten it since.
JobAndRunAgree ==
  \A j \in Jobs :
    /\ faults = 0 /\ lost = 0 /\ jobs[j].status \in Terminal /\ ~GivenUp(j)
    /\ ~jobs[j].cancel /\ (\A w \in Workers : call[w] = NoCall)
    => run[j] = jobs[j].status \/ run[j] = "cancelled"

\* The two records of a run, the job row and the manifest, end alike.
RunFollowsJob == SettledTogether /\ JobAndRunAgree

\* The last attempt gave up on the store: execute() could not read or save the
\* run at its start, which leaves it as it was, queued for ever when no attempt
\* had started it, or could not save its end, which leaves it running.
StoreGaveUp(j) == lost > 0 /\ jobs[j].status = "failed" /\ run[j] \in {"queued", "running"}

\* A run whose job was inserted ends together with its job, unless somebody asked
\* to cancel it, its job was given up, or the store failed under its last attempt:
\* a crash, a lost lease or a job row that was not finished only delays both.
UncancelledRunsSettle ==
  UncancelledJobsSettle /\ \A j \in Jobs : jobs[j].status = "queued" ~>
    run[j] \in RunTerminal \/ jobs[j].cancel \/ GivenUp(j) \/ StoreGaveUp(j)

\* "A queued run is cancelled immediately" (coordinator.rs:235): a run whose
\* cancel was accepted and saved while it was queued does not start afterwards.
CancelledRunNeverStarts ==
  [][\A j \in Jobs : run[j] = "cancelled" /\ jobs[j].cancel
       => run'[j] # "running"]_<<vars, rvars>>

\* "A crashed worker leaves an expired lease that the next runner picks up;
\* after RL_JOB_MAX_ATTEMPTS it fails" (README item 2): the run of a job that
\* was given up has failed too, not stayed queued or running.
ExhaustedRunFails ==
  \A j \in Jobs : GivenUp(j) /\ jobs[j].status = "failed"
    => run[j] \in RunTerminal
=============================================================================

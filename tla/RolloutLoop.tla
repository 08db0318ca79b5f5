---------------------------- MODULE RolloutLoop ----------------------------
(***************************************************************************)
(* The attempts of one run from the inside: Coordinator::execute with the   *)
(* repo loop of horizon-runner (policy turns, tool calls in a workspace,    *)
(* the channel to the forwarder that persists steps and training rows) or   *)
(* the verifiers path, and what they leave behind: the run row with its     *)
(* steps and reward, the turn_training rows, the workspaces.                *)
(*                                                                          *)
(* JobQueue decides when an attempt starts.  Here attempt n + 1 follows     *)
(* attempt n after a crash of the process, or beside it after a lost lease. *)
(* Message k of a repo attempt is derived from its steps: PerTurn messages  *)
(* per turn, in a fixed order.  Conversation, durations, progress messages  *)
(* and costs are left out; a cost is a fixed function of the tokens.        *)
(***************************************************************************)
EXTENDS Rewards, Functions

CONSTANTS
  MaxAttempts,     \* settings.job_max_attempts
  Horizon,         \* task.horizon: turns of the loop
  Criteria,        \* task.success_criteria
  MaxTokens,       \* settings.max_tokens_per_run
  MaxRetries,      \* profile.max_retries
  Capacity,        \* messages between loop and forwarder, the one handled included
  RecordTurns,     \* settings.training_recorder = "tokenized"
  DefaultRubric,   \* the rubric the server scores with
  MaxConcurrent,   \* profile.max_concurrent: verifiers rollouts at once
  Answers,         \* what the policy may answer, with what its tool call does
  Outcomes,        \* what the bridge may answer
  RescoreRubrics,  \* the rubrics a rescore call asks for
  Together         \* bound: the sets of disturbances that one behaviour may meet

Attempts == 1..MaxAttempts
Task == [horizon |-> Horizon, criteria |-> Criteria]

Answer == [tool: {"read", "test", "finish", "unknown"},
           run: {"exit0", "exit1", "hangs", "denied"},
           says: SUBSET Criteria, tokens: Nat]

\* Steps are what Rewards looks at, with the attempt that recorded them.
Step == [actor: {"policy", "environment"}, tool: {"read", "test", "finish", "unknown", "error"},
         rc: {0, 1}, says: SUBSET Criteria, by: Attempts]

Disturbances == {"overlap", "crash", "snapshot", "append", "tokenize", "policy",
                 "cancel", "rescore"}

\* Of an answer of the bridge: steps, tokens, errors, reward in units of 0.0001.
Outcome == [steps: Seq([actor: {"policy", "environment"}, tool: {"read", "test", "finish"},
                        rc: {0, 1}, says: SUBSET Criteria]),
            tokens: Nat, errors: Nat, reward: Int]

ASSUME RolloutLoopAssumption ==
  /\ {MaxAttempts, Horizon, Capacity} \subseteq Nat \ {0}
  /\ {MaxTokens, MaxRetries, MaxConcurrent} \subseteq Nat
  /\ Together \subseteq SUBSET Disturbances
  /\ RecordTurns \in BOOLEAN /\ {DefaultRubric} \cup RescoreRubrics \subseteq Rubrics
  /\ Answers \subseteq Answer /\ Outcomes \subseteq Outcome
  /\ IsFiniteSet(Criteria)

VARIABLES
  route,   \* profile.routes_to
  att,     \* the attempts
  leased,  \* the attempt the queue leased last
  cancel,  \* cancel_requested of the job row
  entry,   \* RepoRunner.states for the task id: [dir, finished], dir 0 if absent
  dirs,    \* workspaces on disk, named by the attempt that made them
  row,     \* the run: status, steps by index, count, tokens, errors, reward
  turns,   \* turn_training: the attempt that wrote the row of a turn, or 0
  rescore, \* the rescore call: what it read, and whether its save was stale
  faults   \* the kinds of disturbances that happened

vars == <<route, att, leased, cancel, entry, dirs, row, turns, rescore, faults>>

\* All but the attempts; the workspaces; the queue's part of the state.
world == <<route, leased, cancel, entry, dirs, row, turns, rescore, faults>>
files == <<entry, dirs>>
queue == <<route, leased, cancel>>

\* The indices a step can have; a bridge answer may outrun the horizon.
Slots == 1..2 * Horizon \cup UNION {DOMAIN o.steps : o \in Outcomes}

NoStep   == [actor |-> "none"]
NoReward == [rubric |-> "none"]
NoAnswer == [tool |-> "none"]

Ending == {"completed", "cancelled", "failed"}

\* Repo: snapshot, top (of a turn), asking, acting, sending, returned, closing
\* (workspace gone, sender dropped).  Verifiers: check, permit, calling,
\* storing.  result: how it will end; "error" is an Err of the loop.
Fresh == [pc |-> "idle", turn |-> 0, tries |-> 0, tokens |-> 0, last |-> 0,
          answer |-> NoAnswer, steps |-> <<>>, sent |-> 0, received |-> 0,
          result |-> "none", errors |-> 0, reward |-> NoReward, permit |-> FALSE,
          signalled |-> FALSE, base |-> 0]

NoEntry == [dir |-> 0, finished |-> FALSE]

NoRun == [status |-> "queued", steps |-> [i \in Slots |-> NoStep],
          count |-> 0, tokens |-> 0, errors |-> 0, reward |-> NoReward, by |-> 0]

\* stale: the reward was saved for steps that are no longer the run's.
NoRescore == [stage |-> "none", steps |-> <<>>, errors |-> 0, rubric |-> "none",
              stale |-> FALSE]

LInit ==
  /\ route \in {"repo", "verifiers"}
  /\ att = [n \in Attempts |-> Fresh]
  /\ leased = 1
  /\ cancel = FALSE
  /\ entry = NoEntry
  /\ dirs = {}
  /\ row = NoRun
  /\ turns = [t \in 1..Horizon |-> 0]
  /\ rescore = NoRescore
  /\ faults = {}

Stop == {"idle", "done", "dead"}
Active(n) == att[n].pc \notin Stop
At(n, pc) == att[n].pc = pc

\* Attempt n takes these values of the record changed.
Now(n, record) == att' = [att EXCEPT ![n] = record]

Fault(kind) ==
  /\ kind \notin faults /\ \E ds \in Together : faults \cup {kind} \subseteq ds
  /\ faults' = faults \cup {kind}

Filled(steps)  == {i \in Slots : steps[i] # NoStep}
CountOf(steps) == Cardinality(Filled(steps))

\* The steps of the run in the order of their indices.
Stored ==
  LET filled == Filled(row.steps)
      Nth(k) == CHOOSE i \in filled : Cardinality({j \in filled : j <= i}) = k
  IN  [k \in 1..Cardinality(filled) |-> row.steps[Nth(k)]]

\* append_step: INSERT OR REPLACE, then step_count from the rows there are.
Appended(i, step) ==
  LET steps == [row.steps EXCEPT ![i] = step]
  IN  [row EXCEPT !.steps = steps, !.count = CountOf(steps)]
-----------------------------------------------------------------------------
\* execute: the run is saved as running with an empty trajectory and no
\* reward; the manifest otherwise keeps what was read, its tokens and its step
\* count among it.
Begin(n) ==
  /\ leased = n /\ At(n, "idle")
  /\ row' = [NoRun EXCEPT !.status = "running", !.count = row.count, !.tokens = row.tokens]
  /\ Now(n, [Fresh EXCEPT !.pc = IF route = "repo" THEN "mkdir" ELSE "check",
                          !.base = row.tokens])
  /\ UNCHANGED <<queue, files, turns, rescore, faults>>

\* create_task: a fresh directory, kept from here on.
MakeDir(n) ==
  /\ At(n, "mkdir")
  /\ dirs' = dirs \cup {n}
  /\ Now(n, [att[n] EXCEPT !.pc = "snapshot"])
  /\ UNCHANGED <<queue, entry, row, turns, rescore, faults>>

\* The snapshot is there: the entry of the task id is replaced.
Snapshot(n) ==
  /\ At(n, "snapshot")
  /\ entry' = [dir |-> n, finished |-> FALSE]
  /\ Now(n, [att[n] EXCEPT !.pc = "top"])
  /\ UNCHANGED <<queue, dirs, row, turns, rescore, faults>>

\* The copy fails: run_repo_rollout returns before it cleans anything up.
SnapshotFails(n) ==
  /\ At(n, "snapshot") /\ Fault("snapshot")
  /\ Now(n, [att[n] EXCEPT !.pc = "closing", !.result = "error"])
  /\ UNCHANGED <<queue, files, row, turns, rescore>>

\* is_cancelled: the token of this process or the flag of the job row.
CancelSeen(n) == att[n].signalled \/ cancel

\* The top of a turn.  A horizon of no more turns ends the loop unprobed.
TopOfTurn(n) ==
  /\ At(n, "top")
  /\ Now(n, IF att[n].turn = Horizon
            THEN [att[n] EXCEPT !.pc = "returned", !.result = "completed"]
            ELSE IF CancelSeen(n)
            THEN [att[n] EXCEPT !.pc = "returned", !.result = "cancelled"]
            ELSE [att[n] EXCEPT !.pc = "asking"])
  /\ UNCHANGED world

\* The biased select: the token is looked at first.
Interrupt(n) ==
  /\ At(n, "asking") /\ att[n].signalled
  /\ Now(n, [att[n] EXCEPT !.pc = "returned", !.tries = 0, !.result = "cancelled"])
  /\ UNCHANGED world

\* chat_with_retry gets an answer; its tokens count whatever happens next.
Answered(n) ==
  /\ At(n, "asking") /\ ~att[n].signalled
  /\ \E a \in Answers :
       Now(n, [att[n] EXCEPT !.pc = "acting", !.answer = a, !.tries = 0,
                             !.last = a.tokens, !.tokens = @ + a.tokens])
  /\ UNCHANGED world

\* An error is retried after a pause; after MaxRetries it ends the loop, and
\* the trajectory so far is lost with it.
PolicyFails(n) ==
  /\ At(n, "asking") /\ ~att[n].signalled
  /\ Fault("policy") \/ ("policy" \in faults /\ UNCHANGED faults)
  /\ Now(n, IF att[n].tries < MaxRetries
            THEN [att[n] EXCEPT !.tries = @ + 1]
            ELSE [att[n] EXCEPT !.pc = "returned", !.tries = 0, !.result = "error"])
  /\ UNCHANGED <<queue, files, row, turns, rescore>>
-----------------------------------------------------------------------------
Observed(n, tool, rc, says) ==
  [actor |-> "environment", tool |-> tool, rc |-> rc, says |-> says, by |-> n]

\* run_command: what is not on the allowlist does not run, and its report names
\* no command; a time-out is reported without an exit code, read as 1.
RunCommand(n, a) ==
  IF a.run = "denied" THEN Observed(n, "error", 0, {})
  ELSE Observed(n, "test", IF a.run = "exit0" THEN 0 ELSE 1, a.says)

\* RepoRunner::step in the workspace of the entry: no entry, a finished one and
\* an unknown tool are answered with an error.
Observation(n, a) ==
  IF entry.dir = 0 \/ entry.finished \/ a.tool = "unknown"
  THEN Observed(n, "error", 0, {})
  ELSE CASE a.tool = "test"   -> RunCommand(n, a)
         [] a.tool = "read"   -> Observed(n, "read", 0, a.says)
         [] a.tool = "finish" -> Observed(n, "finish", 0, a.says)

\* The action step; what a finish call says is its summary.
Action(n, a) ==
  [actor |-> "policy", tool |-> a.tool, rc |-> 0,
   says |-> IF a.tool = "finish" THEN a.says ELSE {}, by |-> n]

\* The tool runs; both steps are recorded.  A finish marks the entry of the task
\* id, whichever attempt made it.
Act(n) ==
  /\ At(n, "acting")
  /\ LET a == att[n].answer
     IN  /\ Now(n, [att[n] EXCEPT !.pc = "sending", !.turn = @ + 1,
                       !.steps = @ \o <<Action(n, a), Observation(n, a)>>])
         /\ entry' = [entry EXCEPT !.finished =
                        @ \/ (entry.dir # 0 /\ a.tool = "finish")]
  /\ UNCHANGED <<queue, dirs, row, turns, rescore, faults>>

\* Messages of a turn: action, observation, training turn if wanted.
PerTurn == IF RecordTurns THEN 3 ELSE 2

SendUnbounded(n) ==
  /\ At(n, "sending") /\ att[n].sent < PerTurn * att[n].turn
  /\ Now(n, [att[n] EXCEPT !.sent = @ + 1])
  /\ UNCHANGED world

\* A full channel makes the loop wait.
Send(n) ==
  /\ At(n, "sending") /\ att[n].sent < PerTurn * att[n].turn
  /\ att[n].sent - att[n].received < Capacity
  /\ Now(n, [att[n] EXCEPT !.sent = @ + 1])
  /\ UNCHANGED world

AfterTurnLenient(n) ==
  IF CancelSeen(n) THEN "cancelled"
  ELSE IF att[n].answer.tool = "finish" THEN "completed"
  ELSE IF att[n].tokens - att[n].last > MaxTokens THEN "failed"
  ELSE "none"

\* What a turn ends with, in the order of the tests.
AfterTurn(n) ==
  IF CancelSeen(n) THEN "cancelled"
  ELSE IF att[n].answer.tool = "finish" THEN "completed"
  ELSE IF att[n].tokens > MaxTokens THEN "failed"
  ELSE "none"

EndTurnUnsent(n) ==
  /\ At(n, "sending") /\ att[n].sent >= PerTurn * att[n].turn - 1
  /\ LET result == AfterTurn(n)
     IN  Now(n, [att[n] EXCEPT !.pc = IF result = "none" THEN "top" ELSE "returned",
                               !.result = result, !.answer = NoAnswer])
  /\ UNCHANGED world

EndTurn(n) ==
  /\ At(n, "sending") /\ att[n].sent = PerTurn * att[n].turn
  /\ LET result == AfterTurn(n)
     IN  Now(n, [att[n] EXCEPT !.pc = IF result = "none" THEN "top" ELSE "returned",
                               !.result = result, !.answer = NoAnswer,
                               !.errors = IF result = "failed" THEN 1 ELSE 0])
  /\ UNCHANGED world

CleanupAfterSuccess(n) ==
  /\ At(n, "returned")
  /\ entry' = IF att[n].result = "error" THEN entry ELSE NoEntry
  /\ dirs' = IF att[n].result = "error" THEN dirs ELSE dirs \ {entry.dir}
  /\ Now(n, [att[n] EXCEPT !.pc = "closing"])
  /\ UNCHANGED <<queue, row, turns, rescore, faults>>

\* cleanup_task, on success and on error: the entry of the task id, whoever
\* made it, and its directory.  Then the sender is dropped.
Cleanup(n) ==
  /\ At(n, "returned")
  /\ entry' = NoEntry
  /\ dirs' = dirs \ {entry.dir}
  /\ Now(n, [att[n] EXCEPT !.pc = "closing"])
  /\ UNCHANGED <<queue, row, turns, rescore, faults>>
-----------------------------------------------------------------------------
\* The message the forwarder handles next: turn and kind.
TurnOf(n) == att[n].received \div PerTurn + 1
KindOf(n) == att[n].received % PerTurn

HasMessage(n) == route = "repo" /\ att[n].received < att[n].sent

\* The forwarder persists a step and publishes it; a failed append is logged.
Receive(n) ==
  /\ HasMessage(n) /\ KindOf(n) \in {0, 1}
  /\ LET i == 2 * (TurnOf(n) - 1) + KindOf(n) + 1
     IN  \/ row' = Appended(i, att[n].steps[i]) /\ UNCHANGED faults
         \/ Fault("append") /\ UNCHANGED row
  /\ Now(n, [att[n] EXCEPT !.received = @ + 1])
  /\ UNCHANGED <<queue, files, turns, rescore>>

\* record_turn: the bridge tokenizes and the row is written, INSERT OR REPLACE;
\* either fails with a warning.
RecordTurn(n) ==
  /\ HasMessage(n) /\ RecordTurns /\ KindOf(n) = 2
  /\ \/ turns' = [turns EXCEPT ![TurnOf(n)] = n] /\ UNCHANGED faults
     \/ Fault("tokenize") /\ UNCHANGED turns
  /\ Now(n, [att[n] EXCEPT !.received = @ + 1])
  /\ UNCHANGED <<queue, files, row, rescore>>
-----------------------------------------------------------------------------
\* execute_verifiers looks for a cancel before it waits for a permit.
Check(n) ==
  /\ At(n, "check")
  /\ Now(n, IF CancelSeen(n)
            THEN [att[n] EXCEPT !.pc = "closing", !.result = "cancelled"]
            ELSE [att[n] EXCEPT !.pc = "permit"])
  /\ UNCHANGED world

LimitAsSet == MaxConcurrent

\* verifiers_limit: a semaphore of at least one permit per profile.
Limit == AtLeastOne(MaxConcurrent)

\* No cancel is heard while the permit is awaited.
Acquire(n) ==
  /\ At(n, "permit")
  /\ Cardinality({m \in Attempts : Active(m) /\ att[m].permit}) < Limit
  /\ Now(n, [att[n] EXCEPT !.pc = "calling", !.permit = TRUE])
  /\ UNCHANGED world

\* The biased select around the call, and the errors of the bridge.
CallEnds(n) ==
  /\ At(n, "calling")
  /\ Now(n, IF att[n].signalled
            THEN [att[n] EXCEPT !.pc = "closing", !.result = "cancelled"]
            ELSE [att[n] EXCEPT !.pc = "closing", !.result = "error", !.permit = FALSE])
  /\ UNCHANGED world

Clamp(r) == IF r > 10000 THEN 10000 ELSE IF r < -10000 THEN -10000 ELSE r

\* A step of the answer, as attempt n records it.
Attributed(s, n) == [actor |-> s.actor, tool |-> s.tool, rc |-> s.rc, says |-> s.says, by |-> n]

BridgeAnswers(n) ==
  /\ At(n, "calling") /\ ~att[n].signalled
  /\ \E o \in Outcomes :
       Now(n, [att[n] EXCEPT
         !.pc = "storing", !.tokens = o.tokens, !.errors = o.errors,
         !.steps = [i \in DOMAIN o.steps |-> Attributed(o.steps[i], n)],
         !.sent = Len(o.steps),
         !.reward = [terminal |-> Clamp(o.reward), rubric |-> "verifiers", flags |-> {}]])
  /\ UNCHANGED world

\* The steps are appended one by one; a failed append fails the run.
StoreStep(n) ==
  /\ At(n, "storing") /\ att[n].received < att[n].sent
  /\ LET i == att[n].received + 1
     IN  \/ /\ row' = Appended(i, att[n].steps[i])
            /\ Now(n, [att[n] EXCEPT !.received = i])
            /\ UNCHANGED faults
         \/ /\ Fault("append")
            /\ Now(n, [att[n] EXCEPT !.pc = "closing", !.result = "error",
                                     !.received = att[n].sent, !.permit = FALSE])
            /\ UNCHANGED row
  /\ UNCHANGED <<queue, files, turns, rescore>>

StoredAll(n) ==
  /\ At(n, "storing") /\ att[n].received = att[n].sent
  /\ Now(n, [att[n] EXCEPT !.pc = "closing",
       !.result = IF att[n].tokens > MaxTokens THEN "failed" ELSE "completed"])
  /\ UNCHANGED world
-----------------------------------------------------------------------------
\* The trajectory finish() saves: empty after an error.
Kept(n) == IF att[n].result = "error" THEN <<>> ELSE att[n].steps

Errors(n) == IF att[n].result = "error" THEN 1 ELSE att[n].errors

\* After an error, and when a verifiers run is cancelled, the manifest of the
\* start is saved.
TokensOf(n) ==
  IF att[n].result = "error" \/ (route = "verifiers" /\ att[n].result = "cancelled")
  THEN att[n].base ELSE att[n].tokens

RewardOf(n) ==
  IF att[n].result = "error" THEN NoReward
  ELSE IF route = "verifiers" THEN att[n].reward
  ELSE Score(Task, att[n].steps, att[n].errors, DefaultRubric)

Saved(n) ==
  [status |-> IF att[n].result = "error" THEN "failed" ELSE att[n].result,
   steps  |-> [i \in Slots |-> IF i <= Len(Kept(n)) THEN Kept(n)[i] ELSE NoStep],
   count  |-> Len(Kept(n)), tokens |-> TokensOf(n), errors |-> Errors(n),
   reward |-> RewardOf(n), by |-> n]

SaveFinalUnjoined(n) ==
  /\ At(n, "closing")
  /\ row' = Saved(n)
  /\ Now(n, [att[n] EXCEPT !.pc = "done", !.permit = FALSE])
  /\ rescore' = [rescore EXCEPT !.stale = FALSE]
  /\ UNCHANGED <<queue, files, turns, faults>>

SaveFinalAdding(n) ==
  /\ At(n, "closing") /\ att[n].received = att[n].sent
  /\ row' = [Saved(n) EXCEPT !.steps = IF Kept(n) = <<>> THEN row.steps ELSE @]
  /\ Now(n, [att[n] EXCEPT !.pc = "done", !.permit = FALSE])
  /\ rescore' = [rescore EXCEPT !.stale = FALSE]
  /\ UNCHANGED <<queue, files, turns, faults>>

\* The forwarder is joined, the trajectory scored, the run saved as a whole.
SaveFinal(n) ==
  /\ At(n, "closing") /\ att[n].received = att[n].sent
  /\ row' = Saved(n)
  /\ Now(n, [att[n] EXCEPT !.pc = "done", !.permit = FALSE])
  /\ rescore' = [rescore EXCEPT !.stale = FALSE]
  /\ UNCHANGED <<queue, files, turns, faults>>
-----------------------------------------------------------------------------
\* request_cancel flags the job row and signals the token of the attempt, if
\* it runs in the process that serves the call.
Cancel ==
  /\ row.status = "running" /\ Fault("cancel")
  /\ cancel' = TRUE
  /\ \/ UNCHANGED att
     \/ Active(leased) /\ Now(leased, [att[leased] EXCEPT !.signalled = TRUE])
  /\ UNCHANGED <<route, leased, files, row, turns, rescore>>

\* rescore_run: reads the run, scores, saves the reward in another lock.
RescoreRead ==
  /\ row.status # "queued" /\ Fault("rescore")
  /\ \E rubric \in RescoreRubrics :
       rescore' = [rescore EXCEPT !.stage = "read", !.steps = Stored,
                                  !.errors = row.errors, !.rubric = rubric]
  /\ UNCHANGED <<route, att, leased, cancel, files, row, turns>>

RescoreSave ==
  /\ rescore.stage = "read"
  /\ row' = [row EXCEPT !.reward =
               Score(Task, rescore.steps, rescore.errors, rescore.rubric)]
  /\ rescore' = [NoRescore EXCEPT !.stage = "done",
       !.stale = rescore.steps # Stored \/ rescore.errors # row.errors]
  /\ UNCHANGED <<route, att, leased, cancel, files, turns, faults>>

\* The process dies: its attempts and its map are gone, its directories stay.
\* The next attempt starts when the lease has expired.
Crash ==
  /\ ~At(leased, "idle") /\ leased < MaxAttempts /\ Fault("crash")
  /\ att' = [n \in Attempts |-> IF Active(n) THEN [Fresh EXCEPT !.pc = "dead"] ELSE att[n]]
  /\ entry' = NoEntry
  /\ leased' = leased + 1
  /\ UNCHANGED <<route, cancel, dirs, row, turns, rescore>>

\* The lease expires under a running attempt and this process leases the job.
LoseLease ==
  /\ Active(leased) /\ leased < MaxAttempts /\ Fault("overlap")
  /\ leased' = leased + 1
  /\ UNCHANGED <<route, att, cancel, files, row, turns, rescore>>

Loop(n) ==
  \/ Begin(n) \/ MakeDir(n) \/ Snapshot(n) \/ SnapshotFails(n) \/ TopOfTurn(n)
  \/ Interrupt(n) \/ Answered(n) \/ PolicyFails(n) \/ Act(n) \/ Send(n) \/ EndTurn(n)
  \/ Cleanup(n) \/ SaveFinal(n)

Forwarder(n) == Receive(n) \/ RecordTurn(n)

VerifiersPath(n) ==
  \/ Check(n) \/ Acquire(n) \/ CallEnds(n) \/ BridgeAnswers(n) \/ StoreStep(n)
  \/ StoredAll(n)

Work(n) == Loop(n) \/ Forwarder(n) \/ VerifiersPath(n)

LNext ==
  \/ \E n \in Attempts : Work(n)
  \/ Cancel \/ RescoreRead \/ RescoreSave \/ Crash \/ LoseLease

\* While something can go on something does: the runtime schedules its tasks,
\* and providers, tools and the bridge answer or fail.
LSpec == LInit /\ [][LNext]_vars /\ WF_vars(\E n \in Attempts : Work(n))
-----------------------------------------------------------------------------
(***************************************************************************)
(* Properties                                                              *)
(***************************************************************************)

\* The shape of the state: what an attempt records, a channel that never holds
\* more than its capacity, a reward between -1 and 1 though a trajectory of the
\* bridge has more steps than the horizon allows.
LTypeOK ==
  /\ route \in {"repo", "verifiers"} /\ leased \in Attempts /\ cancel \in BOOLEAN
  /\ entry.dir \in 0..MaxAttempts /\ entry.finished \in BOOLEAN
  /\ dirs \subseteq Attempts /\ turns \in [1..Horizon -> 0..MaxAttempts]
  /\ row.status \in {"queued", "running"} \cup Ending
  /\ row.steps \in [Slots -> Step \cup {NoStep}]
  /\ \A n \in Attempts :
       /\ Range(att[n].steps) \subseteq Step
       /\ att[n].received <= att[n].sent
       /\ route = "repo" => /\ att[n].sent - att[n].received <= Capacity
                            /\ Len(att[n].steps) = 2 * att[n].turn
       /\ att[n].answer \in Answers \cup {NoAnswer}
  /\ row.reward # NoReward =>
       -10000 <= row.reward.terminal /\ row.reward.terminal <= 10000

\* A run that ended holds the trajectory of the attempt that ended it and no
\* step of another, whatever was appended before, lost by a failed append or
\* left by a crashed attempt; and a rubric's reward is the score of exactly
\* these steps, unless a rescore read them before the end and saved after it.
StoredIsFinishers ==
  row.status \in Ending /\ "overlap" \notin faults =>
    /\ Stored = Kept(row.by) /\ row.count = Len(Stored)
    /\ row.reward # NoReward /\ row.reward.rubric \in Rubrics /\ ~rescore.stale =>
         row.reward = Score(Task, Stored, row.errors, row.reward.rubric)

\* The terminal event is the last word of an attempt: its forwarder publishes
\* and stores nothing after the run was saved as ended.
LastWord ==
  [][\A n \in Attempts :
       att'[n].received > att[n].received /\ "overlap" \notin faults
       => row.status = "running"]_vars

\* Without overlapping attempts a tool runs in the workspace of its own attempt,
\* which is on disk and not marked finished; and unless a process crashed or a
\* snapshot failed no directory outlives its attempt.
WorkspaceLifecycle ==
  /\ "overlap" \notin faults => \A n \in Attempts :
       At(n, "acting") => entry = [dir |-> n, finished |-> FALSE] /\ n \in dirs
  /\ faults \cap {"overlap", "crash", "snapshot"} = {} => \A n \in dirs : Active(n)

\* The token budget of a run is exceeded by at most the last answer, and a run
\* that exceeded it completes only if that answer finished the task.
BudgetRespected ==
  \A n \in Attempts : route = "repo" /\ ~At(n, "dead") =>
    /\ att[n].tokens - att[n].last <= MaxTokens
    /\ att[n].result = "completed" /\ att[n].tokens > MaxTokens =>
         att[n].steps[Len(att[n].steps) - 1].tool = "finish"

\* The training rows of a run are those of its steps: every policy step that
\* was saved has a row of the attempt that saved it, unless tokenizing failed,
\* and that attempt left no row for a step it did not save, unless an error
\* dropped them.
TurnsMatchSteps ==
  row.status \in Ending /\ route = "repo" /\ RecordTurns /\ "overlap" \notin faults =>
    \A t \in 1..Horizon :
      /\ row.steps[2 * t - 1] # NoStep /\ "tokenize" \notin faults => turns[t] = row.by
      /\ turns[t] = row.by /\ att[row.by].result # "error" => row.steps[2 * t - 1] # NoStep

\* Every attempt ends, however slowly the channel drains: the loop waits for the
\* forwarder and the join for the loop, but never both, and a permit is free in
\* the end.
AttemptsEnd ==
  <>[](\A n \in Attempts : ~Active(n))
=============================================================================

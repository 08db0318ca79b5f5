-------------------------- MODULE RolloutRunProofs --------------------------
(***************************************************************************)
(* Proofs about RolloutRun, for every set of runs and processes: it        *)
(* implements the job queue, so every theorem about the queue holds of the *)
(* coordinator too, and the cancellation tokens are those of the attempts  *)
(* that are executing.                                                     *)
(***************************************************************************)
EXTENDS RolloutRun, JobQueueProofs

USE JobQueueAssumption, RolloutRunAssumption

\* A store call that cancels belongs to the handler of its process, which waits
\* for it; the connection mutex admits one at a time.
Linked ==
  \A c \in cancels :
    /\ c.worker \in Workers /\ call[c.worker] # NoCall
    /\ call[c.worker].stage = "flagging" /\ call[c.worker].job = c.job
    /\ \A d \in cancels : c.worker = d.worker => c = d

\* RTypeOK and NoStaleToken need each other: a cancel signals the attempt its
\* token names, and an attempt that is not idle has a task.
RInv == QInv /\ Limited /\ RTypeOK /\ NoStaleToken /\ Linked

LEMMA InitRInv == RInit => RInv
<1> SUFFICES ASSUME RInit PROVE RTypeOK /\ NoStaleToken
  BY InitQInv DEF RInit, RInv, Init, Limited, Linked
<1>1. \A j \in Jobs, n \in 1..MaxAttempts : exec[j][n] = Idle
  BY DEF RInit
<1>2. Idle \in Exec /\ Idle.stage = "idle"
  BY DEF Idle, Exec
<1>3. exec \in [Jobs -> [1..MaxAttempts -> Exec]]
  BY <1>2 DEF RInit
<1>4. 0 \in 0..MaxAttempts /\ 0 \in 0..MaxLost
  OBVIOUS
<1>5. QED
  BY <1>1, <1>2, <1>3, <1>4 DEF RInit, RTypeOK, NoStaleToken, RunStatus

\* A task that executes, or is about to, has a place in exec.
LEMMA TaskIndex ==
  ASSUME TypeOK, Limited, NEW t \in tasks
  PROVE  /\ t.job \in Jobs /\ t.worker \in Workers /\ t.n \in Nat \ {0}
         /\ t.phase # "leased" => t.n \in 1..MaxAttempts
         /\ WithinLimit(t) => t.n \in 1..MaxAttempts
BY DEF TypeOK, Task, Limited, WithinLimit

\* Every step of the coordinator is a step of the queue or leaves it alone;
\* the outcome it reports for an execution is one the queue knows.
LEMMA StepRefines == RInv /\ [RNext]_<<vars, rvars>> => [Next]_vars
<1> SUFFICES ASSUME RInv, [RNext]_<<vars, rvars>> PROVE [Next]_vars
  OBVIOUS
<1>1. CASE QueueOnly
  BY <1>1 DEF QueueOnly, Next, ProcessStep, TaskStep
<1>2. ASSUME NEW t \in tasks, RunStep(t) PROVE [Next]_vars
  <2>1. CASE BeginRollout(t)
    BY <2>1 DEF BeginRollout, Next, TaskStep
  <2>2. CASE EndRun(t)
    <3>1. t.job \in Jobs /\ t.n \in 1..MaxAttempts
      BY <2>2, TaskIndex DEF EndRun, At, RInv, QInv
    <3>2. exec[t.job][t.n].res \in Terminal
      BY <2>2, <3>1 DEF EndRun, At, RInv, RTypeOK, RunTerminal, Terminal
    <3>3. QED
      BY <2>2, <3>2 DEF EndRun, Next, TaskStep
  <2>3. QED
    BY <1>2, <2>1, <2>2
       DEF RunStep, StartRun, StartLost, RejectOverBudget, Probe, ProbeLost, Interrupt,
           Return, Fail, SaveFinal, SaveLost
<1>3. ASSUME NEW w \in Workers, HandlerStep(w) PROVE [Next]_vars
  <2>1. CASE CancelRow(w)
    <3>1. call[w].job \in Jobs
      BY <2>1 DEF CancelRow, RInv, RTypeOK, Call
    <3>2. QED
      BY <2>1, <3>1 DEF CancelRow, Next, ProcessStep
  <2>2. CASE StopRuns(w)
    BY <2>2 DEF StopRuns, Next, ProcessStep
  <2>3. ASSUME NEW j \in Jobs, SubmitEnqueue(w, j) PROVE [Next]_vars
    BY <2>3 DEF SubmitEnqueue, Next, ProcessStep
  <2>4. QED
    BY <1>3, <2>1, <2>2, <2>3 DEF HandlerStep, CancelRun, SubmitSave, CancelRead
<1>4. ASSUME NEW c \in cancels, CancelFlag(c) PROVE [Next]_vars
  BY <1>4 DEF CancelFlag, Next
<1>5. CASE UNCHANGED <<vars, rvars>>
  BY <1>5
<1>6. QED
  BY <1>1, <1>2, <1>3, <1>4, <1>5 DEF RNext

\* Moving an attempt on leaves the other attempts alone.
LEMMA GotoEffect ==
  ASSUME NEW t, t.job \in Jobs, t.n \in 1..MaxAttempts,
         exec \in [Jobs -> [1..MaxAttempts -> Exec]],
         NEW stage \in {"started", "calling", "ending", "failing", "saved"},
         NEW res \in RunTerminal \cup {"none"},
         Goto(t, stage, res)
  PROVE  /\ exec' \in [Jobs -> [1..MaxAttempts -> Exec]]
         /\ exec'[t.job][t.n].stage = stage /\ exec'[t.job][t.n].res = res
         /\ \A j \in Jobs, n \in 1..MaxAttempts :
              j # t.job \/ n # t.n => exec'[j][n] = exec[j][n]
<1> DEFINE new == [exec[t.job][t.n] EXCEPT !.stage = stage, !.res = res]
<1>0. exec[t.job][t.n] \in Exec
  OBVIOUS
<1>1. new \in Exec /\ new.stage = stage /\ new.res = res
  BY <1>0 DEF Exec
<1>2. exec' = [exec EXCEPT ![t.job][t.n] = new]
  BY DEF Goto
<1> HIDE DEF new
<1>3. exec' = [exec EXCEPT ![t.job] = [exec[t.job] EXCEPT ![t.n] = new]]
  BY <1>2
<1>4. [exec[t.job] EXCEPT ![t.n] = new] \in [1..MaxAttempts -> Exec]
  BY <1>1
<1>5. QED
  BY <1>1, <1>3, <1>4
-----------------------------------------------------------------------------
(* Which attempts are served by an executing task, and what ends that. *)

ServedBy(w, j, n) ==
  \E t \in tasks : t.worker = w /\ t.job = j /\ t.n = n /\ t.phase = "executing"

\* No step of the queue alone ends an execution.
LEMMA QueueKeepsServed ==
  ASSUME TypeOK, QueueOnly, NEW w, NEW j, NEW n, ServedBy(w, j, n)
  PROVE  ServedBy(w, j, n)'
<1>1. PICK u \in tasks : u.worker = w /\ u.job = j /\ u.n = n /\ u.phase = "executing"
  BY DEF ServedBy
<1>2. CASE u \in tasks'
  BY <1>1, <1>2 DEF ServedBy
<1>3. CASE u \notin tasks'
  <2>1. Heartbeat(u)
    BY <1>1, <1>3 DEF QueueOnly, Drain, Start, LeaseJob, GiveUp, Heartbeat, FinishJob,
       FinishLost, Expire
  <2> DEFINE new == [u EXCEPT !.heart = FALSE]
  <2>2. new \in tasks'
    BY <2>1, <1>3 DEF Heartbeat
  <2>3. new.worker = w /\ new.job = j /\ new.n = n /\ new.phase = "executing"
    BY <1>1 DEF TypeOK, Task
  <2> HIDE DEF new
  <2>4. QED
    BY <2>2, <2>3 DEF ServedBy
<1>4. QED
  BY <1>2, <1>3

LEMMA BeginServes ==
  ASSUME TypeOK, NEW t \in tasks, BeginExecute(t)
  PROVE  /\ ServedBy(t.worker, t.job, t.n)'
         /\ \A w, j, n : ServedBy(w, j, n) => ServedBy(w, j, n)'
<1> DEFINE new == [t EXCEPT !.phase = "executing", !.heart = TRUE]
<1>1. new.worker = t.worker /\ new.job = t.job /\ new.n = t.n /\ new.phase = "executing"
  BY DEF TypeOK, Task
<1>2. tasks' = (tasks \ {t}) \cup {new} /\ t.phase = "leased"
  BY DEF BeginExecute
<1> HIDE DEF new
<1>3. QED
  BY <1>1, <1>2 DEF ServedBy

LEMMA EndServes ==
  ASSUME NEW t \in tasks, NEW s, EndExecute(t, s), NEW w, NEW j, NEW n,
         ServedBy(w, j, n), w # t.worker \/ j # t.job \/ n # t.n
  PROVE  ServedBy(w, j, n)'
BY DEF ServedBy, EndExecute

LEMMA StopServes ==
  ASSUME NEW v, Crash(v) \/ Exit(v), NEW w, NEW j, NEW n, ServedBy(w, j, n), w # v
  PROVE  ServedBy(w, j, n)'
BY DEF ServedBy, Crash, Exit, Die

\* The actions that move an attempt on and touch neither tasks nor tokens.
Moves(t) ==
  \/ StartRun(t) \/ StartLost(t) \/ RejectOverBudget(t) \/ Probe(t) \/ ProbeLost(t)
  \/ Interrupt(t) \/ Return(t) \/ Fail(t) \/ SaveFinal(t) \/ SaveLost(t)

LEMMA MovesEffect ==
  ASSUME RInv, NEW t \in tasks, Moves(t)
  PROVE  /\ t.phase = "executing" /\ t.job \in Jobs /\ t.n \in 1..MaxAttempts
         /\ \E stage \in {"started", "calling", "ending", "failing", "saved"},
              res \in RunTerminal \cup {"none"} :
                /\ Goto(t, stage, res)
                /\ stage \in {"ending", "failing", "saved"} => res \in RunTerminal
         /\ UNCHANGED <<tasks, tokens, submitting, call>>
         /\ run' = run \/ \E s \in RunStatus : run' = [run EXCEPT ![t.job] = s]
         /\ lost' = lost \/ StoreError
<1>1. t.phase = "executing"
  BY DEF Moves, StartRun, StartLost, RejectOverBudget, Probe, ProbeLost, Interrupt, Return,
     Fail, SaveFinal, SaveLost, At
<1>2. t.job \in Jobs /\ t.n \in 1..MaxAttempts
  BY <1>1, TaskIndex DEF RInv, QInv
<1>3. {"completed", "failed", "cancelled"} = RunTerminal /\ RunTerminal \subseteq RunStatus
      /\ "running" \in RunStatus
  BY DEF RunTerminal, RunStatus
<1>4. exec[t.job][t.n].stage \in {"ending", "failing"} => exec[t.job][t.n].res \in RunTerminal
  BY <1>2 DEF RInv, RTypeOK
<1>5. UNCHANGED <<tasks, tokens, submitting, call>> /\ (lost' = lost \/ StoreError)
  BY DEF Moves, StartRun, StartLost, RejectOverBudget, Probe, ProbeLost, Interrupt, Return,
     Fail, SaveFinal, SaveLost, vars
<1>6. run' = run \/ \E s \in RunStatus : run' = [run EXCEPT ![t.job] = s]
  BY <1>3, <1>4 DEF Moves, StartRun, StartLost, RejectOverBudget, Probe, ProbeLost, Interrupt,
     Return, Fail, SaveFinal, SaveLost, At
<1>7. CASE SaveFinal(t)
  BY <1>1, <1>2, <1>3, <1>4, <1>5, <1>6, <1>7 DEF SaveFinal, At
<1>8. CASE ~SaveFinal(t)
  <2>1. \E stage \in {"started", "calling", "ending", "failing", "saved"},
            res \in {"none", "completed", "failed", "cancelled"} :
          /\ Goto(t, stage, res)
          /\ stage \in {"ending", "failing", "saved"} => res # "none"
    BY <1>8 DEF Moves, StartRun, StartLost, RejectOverBudget, Probe, ProbeLost, Interrupt,
       Return, Fail, SaveLost
  <2>2. QED
    BY <1>1, <1>2, <1>3, <1>5, <1>6, <2>1
<1>9. QED
  BY <1>7, <1>8
-----------------------------------------------------------------------------
LEMMA RStep == RInv /\ [RNext]_<<vars, rvars>> => RTypeOK' /\ NoStaleToken'
<1> SUFFICES ASSUME RInv, [RNext]_<<vars, rvars>> PROVE RTypeOK' /\ NoStaleToken'
  OBVIOUS
<1> DEFINE Shape == /\ run \in [Jobs -> RunStatus]
                    /\ submitting \subseteq Workers \X Jobs
                    /\ exec \in [Jobs -> [1..MaxAttempts -> Exec]]
                    /\ tokens \in [Workers -> [Jobs -> 0..MaxAttempts]]
                    /\ lost \in 0..MaxLost
                    /\ call \in [Workers -> Call \cup {NoCall}]
           Results == \A j \in Jobs, n \in 1..MaxAttempts :
                        exec[j][n].stage \in {"ending", "failing", "saved"}
                          => exec[j][n].res \in RunTerminal
           Busy == \A j \in Jobs, n \in 1..MaxAttempts : exec[j][n] # Idle =>
                     \E w \in Workers : ServedBy(w, j, n)
           Held == \A w \in Workers, j \in Jobs : tokens[w][j] # 0 =>
                     ServedBy(w, j, tokens[w][j])
<1>a. Shape /\ Results /\ Busy /\ Held
  BY DEF RInv, QInv, TypeOK, Task, RTypeOK, NoStaleToken, ServedBy
<1>b. ASSUME Shape', Results', Busy', Held' PROVE RTypeOK' /\ NoStaleToken'
  BY <1>b DEF RTypeOK, NoStaleToken, ServedBy
<1>c. TypeOK
  BY DEF RInv, QInv
<1>d. Idle \in Exec /\ Idle.stage = "idle"
  BY DEF Idle, Exec
<1> HIDE DEF Shape, Results, Busy, Held
<1>1. CASE QueueOnly
  <2>1. \A w, j, n : ServedBy(w, j, n) => ServedBy(w, j, n)'
    BY <1>1, <1>c, QueueKeepsServed
  <2>2. UNCHANGED rvars
    BY <1>1 DEF QueueOnly
  <2>3. QED
    BY <1>a, <1>b, <2>1, <2>2 DEF rvars, Shape, Results, Busy, Held
<1>2. ASSUME NEW t \in tasks, BeginRollout(t) PROVE RTypeOK' /\ NoStaleToken'
  <2>1. t.job \in Jobs /\ t.n \in 1..MaxAttempts /\ t.worker \in Workers
    BY <1>2, TaskIndex DEF BeginRollout, BeginExecute, Executable, RInv, QInv
  <2>2. /\ ServedBy(t.worker, t.job, t.n)'
        /\ \A w, j, n : ServedBy(w, j, n) => ServedBy(w, j, n)'
    BY <1>2, <1>c, BeginServes DEF BeginRollout
  <2> DEFINE new == [Idle EXCEPT !.stage = "registered"]
  <2>3. new \in Exec /\ new.stage = "registered"
    BY DEF Idle, Exec
  <2>4. /\ exec' = [exec EXCEPT ![t.job] = [exec[t.job] EXCEPT ![t.n] = new]]
        /\ tokens' = [tokens EXCEPT ![t.worker] = [tokens[t.worker] EXCEPT ![t.job] = t.n]]
        /\ UNCHANGED <<run, submitting, call, lost>>
    BY <1>2 DEF BeginRollout
  <2> HIDE DEF new
  <2>5. [exec[t.job] EXCEPT ![t.n] = new] \in [1..MaxAttempts -> Exec]
    BY <1>a, <2>1, <2>3 DEF Shape
  <2>6. [tokens[t.worker] EXCEPT ![t.job] = t.n] \in [Jobs -> 0..MaxAttempts]
    BY <1>a, <2>1 DEF Shape
  <2>7. Shape'
    BY <1>a, <2>1, <2>4, <2>5, <2>6 DEF Shape
  <2>8. \A j \in Jobs, n \in 1..MaxAttempts :
          exec'[j][n] = IF j = t.job /\ n = t.n THEN new ELSE exec[j][n]
    BY <1>a, <2>1, <2>4 DEF Shape
  <2>9. Results' /\ Busy'
    BY <1>a, <2>1, <2>2, <2>3, <2>8 DEF Results, Busy
  <2>10. \A w \in Workers, j \in Jobs :
           tokens'[w][j] = IF w = t.worker /\ j = t.job THEN t.n ELSE tokens[w][j]
    BY <1>a, <2>1, <2>4 DEF Shape
  <2>11. Held'
    BY <1>a, <2>2, <2>10 DEF Held
  <2>12. QED
    BY <1>b, <2>7, <2>9, <2>11
<1>3. ASSUME NEW t \in tasks, Moves(t) PROVE RTypeOK' /\ NoStaleToken'
  <2>1. PICK stage \in {"started", "calling", "ending", "failing", "saved"},
             res \in RunTerminal \cup {"none"} :
               /\ Goto(t, stage, res)
               /\ stage \in {"ending", "failing", "saved"} => res \in RunTerminal
    BY <1>3, MovesEffect
  <2>2. t.phase = "executing" /\ t.job \in Jobs /\ t.n \in 1..MaxAttempts
    BY <1>3, MovesEffect
  <2>3. /\ exec' \in [Jobs -> [1..MaxAttempts -> Exec]]
        /\ exec'[t.job][t.n].stage = stage /\ exec'[t.job][t.n].res = res
        /\ \A j \in Jobs, n \in 1..MaxAttempts :
             j # t.job \/ n # t.n => exec'[j][n] = exec[j][n]
    BY <1>a, <2>1, <2>2, GotoEffect DEF Shape
  <2>4. UNCHANGED <<tasks, tokens, submitting, call>>
    BY <1>3, MovesEffect
  <2>5. \A w, j, n : ServedBy(w, j, n) => ServedBy(w, j, n)'
    BY <2>4 DEF ServedBy
  <2>6. run' \in [Jobs -> RunStatus]
    <3>1. run \in [Jobs -> RunStatus]
      BY <1>a DEF Shape
    <3>2. run' = run \/ \E s \in RunStatus : run' = [run EXCEPT ![t.job] = s]
      BY <1>3, MovesEffect
    <3>3. QED
      BY <2>2, <3>1, <3>2
  <2>7. lost' \in 0..MaxLost
    <3>1. lost \in 0..MaxLost /\ MaxLost \in Nat
      BY <1>a DEF Shape
    <3>2. lost' = lost \/ StoreError
      BY <1>3, MovesEffect
    <3>3. QED
      BY <3>1, <3>2 DEF StoreError
  <2>8. Shape'
    BY <1>a, <2>3, <2>4, <2>6, <2>7 DEF Shape
  <2>9. Results'
    BY <1>a, <2>1, <2>3 DEF Results
  <2>10. \E w \in Workers : ServedBy(w, t.job, t.n)
    BY <2>2, <1>c DEF ServedBy, TypeOK, Task
  <2>11. Busy'
    BY <1>a, <2>3, <2>5, <2>10 DEF Busy
  <2>12. Held'
    BY <1>a, <2>4, <2>5 DEF Held
  <2>13. QED
    BY <1>b, <2>8, <2>9, <2>11, <2>12
<1>4. ASSUME NEW t \in tasks, EndRun(t) PROVE RTypeOK' /\ NoStaleToken'
  <2>1. t.job \in Jobs /\ t.n \in 1..MaxAttempts /\ t.worker \in Workers
    BY <1>4, TaskIndex DEF EndRun, At, RInv, QInv
  <2>2. \A w, j, n : ServedBy(w, j, n) /\ (w # t.worker \/ j # t.job \/ n # t.n)
                       => ServedBy(w, j, n)'
    BY <1>4, EndServes DEF EndRun
  <2>3. /\ exec' = [exec EXCEPT ![t.job] = [exec[t.job] EXCEPT ![t.n] = Idle]]
        /\ tokens' = [tokens EXCEPT ![t.worker] = [tokens[t.worker] EXCEPT ![t.job] = 0]]
        /\ UNCHANGED <<run, submitting, call, lost>>
    BY <1>4 DEF EndRun, Unregister
  <2>4. [exec[t.job] EXCEPT ![t.n] = Idle] \in [1..MaxAttempts -> Exec]
    BY <1>a, <1>d, <2>1 DEF Shape
  <2>5. [tokens[t.worker] EXCEPT ![t.job] = 0] \in [Jobs -> 0..MaxAttempts]
    BY <1>a, <2>1 DEF Shape
  <2>6. Shape'
    BY <1>a, <2>1, <2>3, <2>4, <2>5 DEF Shape
  <2>7. \A j \in Jobs, n \in 1..MaxAttempts :
          exec'[j][n] = IF j = t.job /\ n = t.n THEN Idle ELSE exec[j][n]
    BY <1>a, <2>1, <2>3 DEF Shape
  <2>8. Results' /\ Busy'
    BY <1>a, <1>d, <2>2, <2>7 DEF Results, Busy
  <2>9. \A w \in Workers, j \in Jobs :
          tokens'[w][j] = IF w = t.worker /\ j = t.job THEN 0 ELSE tokens[w][j]
    BY <1>a, <2>1, <2>3 DEF Shape
  <2>10. Held'
    BY <1>a, <2>2, <2>9 DEF Held
  <2>11. QED
    BY <1>b, <2>6, <2>8, <2>10
<1>5. ASSUME NEW w \in Workers, CancelRun(w) PROVE RTypeOK' /\ NoStaleToken'
  <2> DEFINE j == call[w].job
             n == tokens[w][j]
             new == [exec[j][n] EXCEPT !.signalled = TRUE]
  <2>1. call[w] \in Call /\ j \in Jobs /\ n \in 0..MaxAttempts
    BY <1>5, <1>a DEF CancelRun, Call, Shape
  <2>2. UNCHANGED <<tasks, submitting, tokens>> /\ call' = [call EXCEPT ![w] = NoCall]
    BY <1>5 DEF CancelRun, vars
  <2>l. lost' \in 0..MaxLost
    <3>1. lost \in 0..MaxLost /\ MaxLost \in Nat /\ (lost' = lost \/ StoreError)
      BY <1>5, <1>a DEF CancelRun, Shape
    <3>2. QED
      BY <3>1 DEF StoreError
  <2>3. \A v, i, m : ServedBy(v, i, m) => ServedBy(v, i, m)'
    BY <2>2 DEF ServedBy
  <2>4. Held'
    BY <1>a, <2>2, <2>3 DEF Held
  <2>5. run' \in [Jobs -> RunStatus]
    BY <1>5, <1>a DEF CancelRun, Shape, RunStatus, RunTerminal
  <2>6. CASE UNCHANGED exec
    BY <1>a, <1>b, <2>2, <2>l, <2>3, <2>4, <2>5, <2>6 DEF Shape, Results, Busy
  <2>7. CASE n # 0 /\ exec' = [exec EXCEPT ![j][n] = [@ EXCEPT !.signalled = TRUE]]
    <3>1. n \in 1..MaxAttempts /\ exec[j][n] \in Exec
      BY <1>a, <2>1, <2>7 DEF Shape
    <3>2. new \in Exec /\ new.stage = exec[j][n].stage /\ new.res = exec[j][n].res
      BY <3>1 DEF Exec
    <3>3. exec' = [exec EXCEPT ![j] = [exec[j] EXCEPT ![n] = new]]
      BY <2>7
    <3>4. ServedBy(w, j, n)
      BY <1>a, <2>1, <2>7 DEF Held
    <3> HIDE DEF new, n, j
    <3>5. [exec[j] EXCEPT ![n] = new] \in [1..MaxAttempts -> Exec]
      BY <1>a, <2>1, <3>1, <3>2 DEF Shape
    <3>6. Shape'
      BY <1>a, <2>1, <2>2, <2>l, <2>5, <3>3, <3>5 DEF Shape
    <3>7. \A i \in Jobs, m \in 1..MaxAttempts :
            exec'[i][m] = IF i = j /\ m = n THEN new ELSE exec[i][m]
      BY <1>a, <2>1, <3>1, <3>3 DEF Shape
    <3>8. Results' /\ Busy'
      BY <1>a, <2>3, <3>2, <3>4, <3>7 DEF Results, Busy
    <3>9. QED
      BY <1>b, <2>4, <3>6, <3>8
  <2>8. QED
    BY <1>5, <2>6, <2>7 DEF CancelRun
<1>6. ASSUME NEW w \in Workers, StopRuns(w) PROVE RTypeOK' /\ NoStaleToken'
  <2>1. \A v, j, n : ServedBy(v, j, n) /\ v # w => ServedBy(v, j, n)'
    BY <1>6, StopServes DEF StopRuns
  <2>2. /\ submitting' \subseteq submitting
        /\ tokens' = [tokens EXCEPT ![w] = [j \in Jobs |-> 0]]
        /\ call' = [call EXCEPT ![w] = NoCall]
        /\ exec' = [j \in Jobs |-> [n \in 1..MaxAttempts |->
             IF \E t \in tasks : t.worker = w /\ t.job = j /\ t.n = n
             THEN Idle ELSE exec[j][n]]]
        /\ UNCHANGED <<run, lost>>
    BY <1>6 DEF StopRuns
  <2>3. Shape'
    BY <1>a, <1>d, <2>2 DEF Shape
  <2>4. \A j \in Jobs, n \in 1..MaxAttempts :
          /\ exec'[j][n] = Idle \/ exec'[j][n] = exec[j][n]
          /\ ServedBy(w, j, n) => exec'[j][n] = Idle
    BY <2>2 DEF ServedBy
  <2>5. Results' /\ Busy'
    BY <1>a, <1>d, <2>1, <2>4 DEF Results, Busy
  <2>6. \A v \in Workers, j \in Jobs : tokens'[v][j] = IF v = w THEN 0 ELSE tokens[v][j]
    BY <1>a, <2>2 DEF Shape
  <2>7. Held'
    BY <1>a, <2>1, <2>6 DEF Held
  <2>8. QED
    BY <1>b, <2>3, <2>5, <2>7
<1>7. ASSUME \/ \E w \in Workers : CancelRow(w)
             \/ \E w \in Workers, j \in Jobs :
                  SubmitSave(w, j) \/ SubmitEnqueue(w, j) \/ CancelRead(w, j)
             \/ \E c \in cancels : CancelFlag(c)
             \/ UNCHANGED <<vars, rvars>>
      PROVE  RTypeOK' /\ NoStaleToken'
  <2>1. UNCHANGED <<exec, tokens, tasks>>
    BY <1>7 DEF CancelRow, SubmitSave, SubmitEnqueue, CancelRead, CancelFlag, CancelSelect,
       CancelUpdate, Enqueue, vars, rvars
  <2>2. \A w, j, n : ServedBy(w, j, n) => ServedBy(w, j, n)'
    BY <2>1 DEF ServedBy
  <2>3. run' \in [Jobs -> RunStatus] /\ submitting' \subseteq Workers \X Jobs
    <3>1. run \in [Jobs -> RunStatus] /\ submitting \subseteq Workers \X Jobs
      BY <1>a DEF Shape
    <3>2. "queued" \in RunStatus
      BY DEF RunStatus
    <3>3. run' = run \/ \E j \in Jobs : run' = [run EXCEPT ![j] = "queued"]
      BY <1>7 DEF CancelRow, SubmitSave, SubmitEnqueue, CancelRead, CancelFlag, rvars
    <3>4. \/ submitting' \subseteq submitting
          \/ \E w \in Workers, j \in Jobs : submitting' = submitting \cup {<<w, j>>}
      BY <1>7 DEF CancelRow, SubmitSave, SubmitEnqueue, CancelRead, CancelFlag, rvars
    <3>5. run' \in [Jobs -> RunStatus]
      BY <3>1, <3>2, <3>3
    <3>6. QED
      BY <3>1, <3>4, <3>5
  <2>4. lost' \in 0..MaxLost
    <3>1. lost \in 0..MaxLost /\ MaxLost \in Nat
      BY <1>a DEF Shape
    <3>2. lost' = lost \/ StoreError
      BY <1>7 DEF CancelRow, SubmitSave, SubmitEnqueue, CancelRead, CancelFlag, rvars
    <3>3. QED
      BY <3>1, <3>2 DEF StoreError
  <2>5. call' \in [Workers -> Call \cup {NoCall}]
    <3>1. ASSUME NEW w \in Workers, call[w] # NoCall, NEW s \in {"flagging", "flagged"}
          PROVE  [call EXCEPT ![w].stage = s] \in [Workers -> Call \cup {NoCall}]
      <4>1. call[w] \in Call
        BY <3>1, <1>a DEF Shape
      <4>2. [call[w] EXCEPT !.stage = s] \in Call
        BY <4>1 DEF Call
      <4>3. QED
        BY <1>a, <4>2 DEF Shape
    <3>2. ASSUME NEW w \in Workers, NEW j \in Jobs, CancelRead(w, j)
          PROVE  call' \in [Workers -> Call \cup {NoCall}]
      BY <3>2, <1>a DEF CancelRead, Call, Shape
    <3>3. ASSUME NEW c \in cancels, CancelFlag(c)
          PROVE  call' \in [Workers -> Call \cup {NoCall}]
      <4>1. c.worker \in Workers /\ call[c.worker] # NoCall
        BY DEF RInv, Linked
      <4>2. QED
        BY <3>3, <3>1, <4>1 DEF CancelFlag
    <3>4. ASSUME NEW w \in Workers, CancelRow(w)
          PROVE  call' \in [Workers -> Call \cup {NoCall}]
      <4>1. CASE call' = [call EXCEPT ![w] = NoCall]
        BY <1>a, <4>1 DEF Shape
      <4>2. QED
        BY <3>4, <3>1, <4>1 DEF CancelRow
    <3>5. call \in [Workers -> Call \cup {NoCall}]
      BY <1>a DEF Shape
    <3>6. QED
      BY <1>7, <3>2, <3>3, <3>4, <3>5 DEF SubmitSave, SubmitEnqueue, rvars
  <2>6. QED
    BY <1>a, <1>b, <2>1, <2>2, <2>3, <2>4, <2>5 DEF Shape, Results, Busy, Held
<1>8. QED
  BY <1>1, <1>2, <1>3, <1>4, <1>5, <1>6, <1>7 DEF RNext, RunStep, Moves, HandlerStep
-----------------------------------------------------------------------------
LEMMA LinkedStep == RInv /\ [RNext]_<<vars, rvars>> => Linked'
<1> SUFFICES ASSUME RInv, [RNext]_<<vars, rvars>> PROVE Linked'
  OBVIOUS
<1>a. Linked /\ call \in [Workers -> Call \cup {NoCall}]
  BY DEF RInv, RTypeOK
<1>b. ASSUME UNCHANGED <<cancels, call>> PROVE Linked'
  BY <1>a, <1>b DEF Linked
<1>c. ASSUME NEW w \in Workers, \A v \in Workers : v # w => call'[v] = call[v],
             cancels' \subseteq cancels, \A c \in cancels' : c.worker # w
      PROVE  Linked'
  BY <1>a, <1>c DEF Linked
<1>1. ASSUME NEW t \in tasks, RunStep(t) PROVE Linked'
  BY <1>1, <1>b DEF RunStep, BeginRollout, BeginExecute, StartRun, StartLost, RejectOverBudget,
     Probe, ProbeLost, Interrupt, Return, Fail, SaveFinal, SaveLost, EndRun, EndExecute, vars
<1>2. CASE QueueOnly
  BY <1>2, <1>b DEF QueueOnly, rvars, Drain, Start, LeaseJob, GiveUp, Heartbeat, FinishJob,
     FinishLost, Expire
<1>3. ASSUME NEW w \in Workers, CancelRow(w) PROVE Linked'
  <2>1. \A c \in cancels : c.worker # w
    BY <1>3 DEF CancelRow, ConnFree
  <2>2. CASE CancelSelect(w, call[w].job) /\ call' = [call EXCEPT ![w].stage = "flagging"]
    <3>1. /\ call[w] # NoCall /\ call[w] \in Call
          /\ call' = [call EXCEPT ![w].stage = "flagging"]
      BY <1>3, <1>a, <2>2 DEF CancelRow
    <3>2. /\ call'[w].stage = "flagging" /\ call'[w].job = call[w].job /\ call'[w] \in Call
          /\ \A v \in Workers : v # w => call'[v] = call[v]
      BY <3>1, <1>a DEF Call
    <3>3. call'[w] # NoCall
      BY <3>2
    <3> DEFINE new == [worker |-> w, job |-> call[w].job,
                       sawQueued |-> jobs[call[w].job].status = "queued"]
    <3>4. new.worker = w /\ new.job = call[w].job /\ cancels' = cancels \cup {new}
      BY <2>2 DEF CancelSelect
    <3> HIDE DEF new
    <3>5. QED
      BY <1>a, <2>1, <3>2, <3>3, <3>4 DEF Linked
  <2>3. CASE UNCHANGED vars /\ call' = [call EXCEPT ![w].stage = "flagged"]
    BY <1>a, <1>c, <2>1, <2>3 DEF vars
  <2>4. CASE UNCHANGED vars /\ call' = [call EXCEPT ![w] = NoCall]
    BY <1>a, <1>c, <2>1, <2>4 DEF vars
  <2>5. QED
    BY <1>3, <2>2, <2>3, <2>4 DEF CancelRow
<1>4. ASSUME NEW w \in Workers, CancelRun(w) PROVE Linked'
  <2>1. \A c \in cancels : c.worker # w
    BY <1>4, <1>a DEF CancelRun, Linked
  <2>2. QED
    BY <1>4, <1>a, <1>c, <2>1 DEF CancelRun, vars
<1>5. ASSUME NEW w \in Workers, StopRuns(w) PROVE Linked'
  BY <1>5, <1>a, <1>c DEF StopRuns, Crash, Exit, Die
<1>6. ASSUME NEW w \in Workers, NEW j \in Jobs,
             SubmitSave(w, j) \/ SubmitEnqueue(w, j)
      PROVE  Linked'
  BY <1>6, <1>b DEF SubmitSave, SubmitEnqueue, Enqueue, vars
<1>7. ASSUME NEW w \in Workers, NEW j \in Jobs, CancelRead(w, j) PROVE Linked'
  <2>1. \A c \in cancels : c.worker # w
    BY <1>7, <1>a DEF CancelRead, Linked
  <2>2. QED
    BY <1>7, <1>a, <1>c, <2>1 DEF CancelRead, vars
<1>8. ASSUME NEW c \in cancels, CancelFlag(c) PROVE Linked'
  BY <1>8, <1>a, <1>c DEF CancelFlag, CancelUpdate, Linked
<1>9. CASE UNCHANGED <<vars, rvars>>
  BY <1>9, <1>b DEF vars, rvars
<1>10. QED
  BY <1>1, <1>2, <1>3, <1>4, <1>5, <1>6, <1>7, <1>8, <1>9 DEF RNext, HandlerStep

LEMMA RInvStep == RInv /\ [RNext]_<<vars, rvars>> => RInv'
<1> SUFFICES ASSUME RInv, [RNext]_<<vars, rvars>> PROVE RInv'
  OBVIOUS
<1>1. [Next]_vars
  BY StepRefines
<1>2. QInv'
  BY <1>1, TypeStep, RowsStep, AttemptsStep DEF RInv, QInv
<1>3. QED
  BY <1>1, <1>2, LimitedStep, RStep, LinkedStep DEF RInv

\* The invariant of the coordinator: with the queue's, the shape of the runs,
\* tokens that belong to executing attempts, and cancels that belong to calls.
THEOREM RunInvariant == RSpec => []RInv
<1>1. RInit => RInv
  BY InitRInv, InitQInv DEF RInit, RInv, Init, Limited, Linked
<1>2. QED
  BY <1>1, RInvStep, PTL DEF RSpec

\* Type correctness of the coordinator.
THEOREM RunTypeCorrect == RSpec => []RTypeOK
BY RunInvariant, PTL DEF RInv

\* A cancel handler never finds the token of an attempt that is over.
THEOREM TokensAreLive == RSpec => []NoStaleToken
BY RunInvariant, PTL DEF RInv

\* The coordinator implements the job queue: whatever holds of the queue in
\* every behaviour holds of the runs on top of it.
THEOREM ImplementsQueue == RSpec => Spec
<1>1. RInit => Init
  BY DEF RInit
<1>2. QED
  BY <1>1, StepRefines, RunInvariant, PTL DEF RSpec, Spec
-----------------------------------------------------------------------------
\* A row counts leases upwards; it becomes terminal by its task or by a cancel.
RowMoves(j) ==
  /\ \/ jobs'[j].attempts = jobs[j].attempts
     \/ jobs'[j].attempts = jobs[j].attempts + 1 /\ jobs'[j].status = "running"
  /\ jobs[j].cancel => jobs'[j].cancel
  /\ \/ jobs'[j].status = jobs[j].status \/ jobs'[j].status \notin Terminal
     \/ jobs'[j].cancel \/ \E t \in tasks : t.job = j

LEMMA RowMovesStep ==
  ASSUME QInv, [Next]_vars, NEW i \in Jobs
  PROVE  RowMoves(i)
<1>a. /\ TypeOK /\ \A t \in tasks : t.job \in Jobs
      /\ \A j \in Jobs : jobs[j].cancel \in BOOLEAN
  BY DEF QInv, TypeOK, Task, Row
<1>b. ASSUME jobs' = jobs PROVE RowMoves(i)
  BY <1>b DEF RowMoves
<1>1. ASSUME NEW w \in Workers, NEW j \in Jobs, Enqueue(w, j) PROVE RowMoves(i)
  BY <1>1, <1>a, EnqueueEffect DEF RowMoves, Terminal
<1>2. ASSUME NEW w \in Workers, NEW j \in Jobs, LeaseJob(w, j) PROVE RowMoves(i)
  BY <1>2, <1>a, LeaseEffect DEF RowMoves, Terminal
<1>3. ASSUME NEW t \in tasks, GiveUp(t) \/ FinishJob(t) PROVE RowMoves(i)
  <2>1. \E s \in Terminal : FinishRow(t.job, s)
    BY <1>3, <1>a, StatusValues DEF GiveUp, FinishJob, TypeOK
  <2>2. QED
    BY <1>a, <2>1, FinishEffect DEF RowMoves
<1>4. ASSUME NEW t \in tasks, Heartbeat(t) PROVE RowMoves(i)
  BY <1>4, <1>a, HeartbeatEffect DEF RowMoves, OnlyLease
<1>5. ASSUME NEW c \in cancels, CancelUpdate(c) PROVE RowMoves(i)
  BY <1>5, <1>a, CancelEffect DEF RowMoves
<1>6. ASSUME NEW j \in Jobs, Expire(j) PROVE RowMoves(i)
  BY <1>6, <1>a, ExpireEffect DEF RowMoves, OnlyLease
<1>7. ASSUME \/ \E w \in Workers, j \in Jobs : CancelSelect(w, j)
             \/ UNCHANGED vars
      PROVE  RowMoves(i)
  BY <1>7, <1>b DEF CancelSelect, vars
<1>8. QED
  BY <1>1, <1>2, <1>3, <1>4, <1>5, <1>6, <1>7, <1>b, QuietSteps
     DEF Next, ProcessStep, TaskStep

-----------------------------------------------------------------------------
(***************************************************************************)
(* Reachability by token.  Before a job is leased again its only task is   *)
(* the one of attempt 1, so no other attempt replaces or removes its token. *)
(***************************************************************************)
LEMMA ReachStep ==
  RInv /\ ExecutingIsReachable /\ [RNext]_<<vars, rvars>> => ExecutingIsReachable'
<1> SUFFICES ASSUME RInv, ExecutingIsReachable, [RNext]_<<vars, rvars>>
             PROVE  ExecutingIsReachable'
  OBVIOUS
<1>a. /\ TypeOK /\ tokens \in [Workers -> [Jobs -> 0..MaxAttempts]]
      /\ \A t \in tasks : /\ t \in Task /\ t.job \in Jobs /\ t.worker \in Workers
                          /\ t.n \in Nat \ {0} /\ t.n <= jobs[t.job].attempts
                          /\ jobs[t.job].attempts \in Nat
  BY DEF RInv, QInv, RTypeOK, TypeOK, Task, Row, AttemptsAreUnique
<1>b. \A j \in Jobs : RowMoves(j)
  BY StepRefines, RowMovesStep DEF RInv
<1>c. \A t \in tasks : jobs'[t.job].attempts = 1 => jobs[t.job].attempts = 1 /\ t.n = 1
  <2> SUFFICES ASSUME NEW t \in tasks, jobs'[t.job].attempts = 1
               PROVE  jobs[t.job].attempts = 1 /\ t.n = 1
    OBVIOUS
  <2>1. \/ jobs'[t.job].attempts = jobs[t.job].attempts
        \/ jobs'[t.job].attempts = jobs[t.job].attempts + 1
    BY <1>a, <1>b DEF RowMoves
  <2>2. /\ t.n \in Nat /\ t.n # 0 /\ t.n <= jobs[t.job].attempts
        /\ jobs[t.job].attempts \in Nat
    BY <1>a
  <2>3. QED
    BY <2>1, <2>2
<1>d. \A t, u \in tasks : t.job = u.job /\ jobs'[t.job].attempts = 1 => t = u
  BY <1>c DEF RInv, QInv, AttemptsAreUnique
<1>e. \A t \in tasks : t.phase = "executing" /\ jobs'[t.job].attempts = 1
        => tokens[t.worker][t.job] = t.n
  BY <1>c DEF ExecutingIsReachable
<1>1. ASSUME UNCHANGED tokens,
             \A u \in tasks' : u.phase = "executing" =>
               \E t \in tasks : /\ t.phase = "executing" /\ t.worker = u.worker
                               /\ t.job = u.job /\ t.n = u.n
      PROVE  ExecutingIsReachable'
  BY <1>1, <1>e DEF ExecutingIsReachable
<1>2. CASE QueueOnly
  <2>1. ASSUME NEW t \in tasks, Heartbeat(t) PROVE ExecutingIsReachable'
    <3> DEFINE new == [t EXCEPT !.heart = FALSE]
    <3>1. tasks' = tasks \/ tasks' = (tasks \ {t}) \cup {new}
      BY <2>1 DEF Heartbeat
    <3>2. new.phase = t.phase /\ new.worker = t.worker /\ new.job = t.job /\ new.n = t.n
      BY <1>a DEF Task
    <3> HIDE DEF new
    <3>3. QED
      BY <1>1, <1>2, <3>1, <3>2 DEF QueueOnly, rvars
  <2>2. ASSUME NEW w \in Workers, NEW j \in Jobs, LeaseJob(w, j)
        PROVE  ExecutingIsReachable'
    BY <1>1, <1>2, <2>2 DEF QueueOnly, rvars, LeaseJob
  <2>3. CASE tasks' \subseteq tasks
    BY <1>1, <1>2, <2>3 DEF QueueOnly, rvars
  <2>4. QED
    BY <1>2, <2>1, <2>2, <2>3 DEF QueueOnly, Drain, Start, GiveUp, FinishJob, FinishLost, Expire
<1>3. ASSUME NEW t \in tasks, BeginRollout(t) PROVE ExecutingIsReachable'
  <2> DEFINE new == [t EXCEPT !.phase = "executing", !.heart = TRUE]
  <2>1. new.worker = t.worker /\ new.job = t.job /\ new.n = t.n
    BY <1>a DEF Task
  <2>2. tasks' = (tasks \ {t}) \cup {new}
    BY <1>3 DEF BeginRollout, BeginExecute
  <2> HIDE DEF new
  <2>3. tokens' = [tokens EXCEPT ![t.worker] = [tokens[t.worker] EXCEPT ![t.job] = t.n]]
    BY <1>3 DEF BeginRollout
  <2>4. tokens'[t.worker][t.job] = t.n
    BY <1>a, <2>3
  <2>5. \A u \in tasks \ {t} : jobs'[u.job].attempts = 1
          => tokens'[u.worker][u.job] = tokens[u.worker][u.job]
    BY <1>a, <1>d, <2>3
  <2>6. QED
    BY <1>e, <2>1, <2>2, <2>4, <2>5 DEF ExecutingIsReachable
<1>4. ASSUME NEW t \in tasks, EndRun(t) PROVE ExecutingIsReachable'
  <2> DEFINE new == [t EXCEPT !.phase = "finishing", !.heart = FALSE,
                              !.outcome = exec[t.job][t.n].res]
  <2>1. new.phase = "finishing"
    BY <1>a DEF Task
  <2>2. tasks' = (tasks \ {t}) \cup {new}
    BY <1>4 DEF EndRun, EndExecute
  <2> HIDE DEF new
  <2>3. tokens' = [tokens EXCEPT ![t.worker] = [tokens[t.worker] EXCEPT ![t.job] = 0]]
    BY <1>4 DEF EndRun, Unregister
  <2>4. \A u \in tasks \ {t} : jobs'[u.job].attempts = 1
          => tokens'[u.worker][u.job] = tokens[u.worker][u.job]
    BY <1>a, <1>d, <2>3
  <2>5. QED
    BY <1>e, <2>1, <2>2, <2>4 DEF ExecutingIsReachable
<1>5. ASSUME NEW w \in Workers, StopRuns(w) PROVE ExecutingIsReachable'
  <2>1. tasks' = {t \in tasks : t.worker # w}
    BY <1>5 DEF StopRuns, Crash, Exit, Die
  <2>2. \A t \in tasks' : tokens'[t.worker] = tokens[t.worker]
    BY <1>5, <1>a, <2>1 DEF StopRuns
  <2>3. QED
    BY <1>e, <2>1, <2>2 DEF ExecutingIsReachable
<1>6. CASE UNCHANGED <<tasks, tokens>>
  BY <1>1, <1>6
<1>7. ASSUME NEW t \in tasks, Moves(t) PROVE UNCHANGED <<tasks, tokens>>
  BY <1>7, MovesEffect
<1>8. ASSUME NEW w \in Workers, CancelRow(w) \/ CancelRun(w) PROVE UNCHANGED <<tasks, tokens>>
  BY <1>8 DEF CancelRow, CancelRun, CancelSelect, vars
<1>9. ASSUME NEW w \in Workers, NEW j \in Jobs,
             SubmitSave(w, j) \/ SubmitEnqueue(w, j) \/ CancelRead(w, j)
      PROVE  UNCHANGED <<tasks, tokens>>
  BY <1>9 DEF SubmitSave, SubmitEnqueue, CancelRead, Enqueue, vars
<1>10. ASSUME NEW c \in cancels, CancelFlag(c) PROVE UNCHANGED <<tasks, tokens>>
  BY <1>10 DEF CancelFlag, CancelUpdate
<1>11. UNCHANGED <<vars, rvars>> => UNCHANGED <<tasks, tokens>>
  BY DEF vars, rvars
<1>12. QED
  BY <1>2, <1>3, <1>4, <1>5, <1>6, <1>7, <1>8, <1>9, <1>10, <1>11
     DEF RNext, RunStep, Moves, HandlerStep

\* An attempt of a job that was leased once can always be interrupted.
THEOREM Reachable == RSpec => []ExecutingIsReachable
<1>1. RInit => ExecutingIsReachable
  BY DEF RInit, Init, ExecutingIsReachable
<1>2. QED
  BY <1>1, ReachStep, RunInvariant, PTL DEF RSpec

\* The token map is exact for any runs, processes and faults.
THEOREM TokensExact == RSpec => []TokenMapExact
BY TokensAreLive, Reachable, PTL DEF TokenMapExact
-----------------------------------------------------------------------------
(***************************************************************************)
(* What becomes of one attempt, and of a cancel that it has heard.         *)
(***************************************************************************)

\* A cancel that signalled the attempt while its outcome was open.
Heard(t) == Signalled(t) /\ exec[t.job][t.n].stage \in {"registered", "started", "calling"}

\* An attempt that moves on is not idle, keeps its outcome open until it ends,
\* and after a cancel it has heard it does not end as completed.
LEMMA MovesTo ==
  ASSUME RInv, NEW t \in tasks, Moves(t)
  PROVE  /\ exec'[t.job][t.n].stage \in {"started", "calling", "ending", "failing", "saved"}
         /\ exec'[t.job][t.n].stage \in {"started", "calling"} => exec'[t.job][t.n].res = "none"
         /\ Heard(t) => exec'[t.job][t.n].res # "completed"
         /\ \A j \in Jobs, n \in 1..MaxAttempts :
              j # t.job \/ n # t.n => exec'[j][n] = exec[j][n]
<1>1. /\ t.job \in Jobs /\ t.n \in 1..MaxAttempts
      /\ exec \in [Jobs -> [1..MaxAttempts -> Exec]]
  BY MovesEffect DEF RInv, RTypeOK
<1>2. PICK stage \in {"started", "calling", "ending", "failing", "saved"},
           res \in {"none", "completed", "failed", "cancelled"} :
             /\ Goto(t, stage, res)
             /\ stage \in {"started", "calling"} => res = "none"
             /\ Heard(t) => res # "completed"
  <2>1. CASE SaveFinal(t)
    <3>1. exec[t.job][t.n].stage \in {"ending", "failing"} /\ ~Heard(t)
          /\ Goto(t, "saved", exec[t.job][t.n].res)
      BY <2>1 DEF SaveFinal, At, Heard
    <3>2. exec[t.job][t.n].res \in {"none", "completed", "failed", "cancelled"}
      BY <1>1, <3>1 DEF RInv, RTypeOK, RunTerminal
    <3>3. QED
      BY <3>1, <3>2
  <2>2. CASE ~SaveFinal(t)
    BY <2>2 DEF Moves, StartRun, StartLost, RejectOverBudget, Probe, ProbeLost, Interrupt,
       Return, Fail, SaveLost, Heard, At
  <2>3. QED
    BY <2>1, <2>2
<1>3. res \in RunTerminal \cup {"none"}
  BY DEF RunTerminal
<1>4. QED
  BY <1>1, <1>2, <1>3, GotoEffect

\* A cancel signals an attempt and changes nothing else about any.
LEMMA SignalEffect ==
  ASSUME exec \in [Jobs -> [1..MaxAttempts -> Exec]], NEW w \in Workers, CancelRun(w),
         NEW j \in Jobs, NEW n \in 1..MaxAttempts
  PROVE  \/ exec'[j][n] = exec[j][n]
         \/ exec'[j][n].stage = exec[j][n].stage /\ exec'[j][n].res = exec[j][n].res
<1>1. PICK i, m :
        UNCHANGED exec \/ exec' = [exec EXCEPT ![i][m] = [@ EXCEPT !.signalled = TRUE]]
  BY DEF CancelRun
<1>2. \/ UNCHANGED exec
      \/ exec' = [exec EXCEPT ![i] = [exec[i] EXCEPT ![m] = [exec[i][m] EXCEPT !.signalled = TRUE]]]
  BY <1>1
<1> DEFINE new == [exec[j][n] EXCEPT !.signalled = TRUE]
<1>3. new.stage = exec[j][n].stage /\ new.res = exec[j][n].res
  BY DEF Exec
<1>4. exec'[j][n] = exec[j][n] \/ exec'[j][n] = new
  <2>1. CASE i = j /\ m = n
    <3>1. UNCHANGED exec \/ exec' = [exec EXCEPT ![j] = [exec[j] EXCEPT ![n] = new]]
      BY <1>2, <2>1
    <3> HIDE DEF new
    <3>2. QED
      BY <3>1
  <2>2. CASE i # j \/ m # n
    <3> DEFINE other == [exec[i][m] EXCEPT !.signalled = TRUE]
    <3>1. UNCHANGED exec \/ exec' = [exec EXCEPT ![i] = [exec[i] EXCEPT ![m] = other]]
      BY <1>2
    <3> HIDE DEF other
    <3>2. QED
      BY <2>2, <3>1
  <2>3. QED
    BY <2>1, <2>2
<1> HIDE DEF new
<1>5. QED
  BY <1>3, <1>4

\* What a step may do to one attempt.
LEMMA AttemptStep ==
  ASSUME RInv, [RNext]_<<vars, rvars>>, NEW j \in Jobs, NEW n \in 1..MaxAttempts
  PROVE  \/ exec'[j][n] = exec[j][n]
         \/ exec'[j][n].stage = exec[j][n].stage /\ exec'[j][n].res = exec[j][n].res
         \/ exec'[j][n].stage \in {"idle", "registered"} /\ exec'[j][n].res = "none"
         \/ \E t \in tasks : t.job = j /\ t.n = n /\ Moves(t)
<1>a. /\ exec \in [Jobs -> [1..MaxAttempts -> Exec]]
      /\ tokens \in [Workers -> [Jobs -> 0..MaxAttempts]]
      /\ call \in [Workers -> Call \cup {NoCall}]
  BY DEF RInv, RTypeOK
<1>b. Idle.stage = "idle" /\ Idle.res = "none"
  BY DEF Idle
<1>1. CASE UNCHANGED exec
  BY <1>1
<1>2. ASSUME NEW t \in tasks, Moves(t)
      PROVE  exec'[j][n] = exec[j][n] \/ \E u \in tasks : u.job = j /\ u.n = n /\ Moves(u)
  BY <1>2, MovesTo
<1>3. ASSUME NEW t \in tasks, BeginRollout(t)
      PROVE  exec'[j][n] = exec[j][n] \/ (exec'[j][n].stage = "registered" /\ exec'[j][n].res = "none")
  <2> DEFINE new == [Idle EXCEPT !.stage = "registered"]
  <2>1. new.stage = "registered" /\ new.res = "none"
    BY DEF Idle
  <2>2. exec' = [exec EXCEPT ![t.job] = [exec[t.job] EXCEPT ![t.n] = new]]
    BY <1>3 DEF BeginRollout
  <2> HIDE DEF new
  <2>3. QED
    BY <1>a, <2>1, <2>2
<1>4. ASSUME NEW t \in tasks, EndRun(t)
      PROVE  exec'[j][n] = exec[j][n] \/ exec'[j][n] = Idle
  <2>1. exec' = [exec EXCEPT ![t.job] = [exec[t.job] EXCEPT ![t.n] = Idle]]
    BY <1>4 DEF EndRun
  <2>2. QED
    BY <1>a, <2>1
<1>5. ASSUME NEW w \in Workers, CancelRun(w)
      PROVE  \/ exec'[j][n] = exec[j][n]
             \/ exec'[j][n].stage = exec[j][n].stage /\ exec'[j][n].res = exec[j][n].res
  BY <1>a, <1>5, SignalEffect
<1>6. ASSUME NEW w \in Workers, StopRuns(w)
      PROVE  exec'[j][n] = exec[j][n] \/ exec'[j][n] = Idle
  BY <1>6 DEF StopRuns
<1>7. ASSUME NEW w \in Workers, CancelRow(w) PROVE UNCHANGED exec
  BY <1>7 DEF CancelRow
<1>8. ASSUME NEW w \in Workers, NEW i \in Jobs,
             SubmitSave(w, i) \/ SubmitEnqueue(w, i) \/ CancelRead(w, i)
      PROVE  UNCHANGED exec
  BY <1>8 DEF SubmitSave, SubmitEnqueue, CancelRead
<1>9. ASSUME NEW c \in cancels, CancelFlag(c) PROVE UNCHANGED exec
  BY <1>9 DEF CancelFlag
<1>10. QueueOnly \/ UNCHANGED <<vars, rvars>> => UNCHANGED exec
  BY DEF QueueOnly, rvars
<1>11. QED
  BY <1>b, <1>1, <1>2, <1>3, <1>4, <1>5, <1>6, <1>7, <1>8, <1>9, <1>10
     DEF RNext, RunStep, Moves, HandlerStep

\* The outcome of an attempt is open until it ends.
Undecided ==
  \A j \in Jobs, n \in 1..MaxAttempts :
    exec[j][n].stage \in {"idle", "registered", "started", "calling"}
      => exec[j][n].res = "none"

LEMMA UndecidedStep == RInv /\ Undecided /\ [RNext]_<<vars, rvars>> => Undecided'
<1> SUFFICES ASSUME RInv, Undecided, [RNext]_<<vars, rvars>>,
                    NEW j \in Jobs, NEW n \in 1..MaxAttempts,
                    exec'[j][n].stage \in {"idle", "registered", "started", "calling"}
             PROVE  exec'[j][n].res = "none"
  BY DEF Undecided
<1>1. ASSUME NEW t \in tasks, t.job = j, t.n = n, Moves(t) PROVE exec'[j][n].res = "none"
  BY <1>1, MovesTo
<1>2. exec[j][n].stage \in {"idle", "registered", "started", "calling"}
        => exec[j][n].res = "none"
  BY DEF Undecided
<1>3. QED
  BY <1>1, <1>2, AttemptStep

\* A cancel that an attempt has heard is not overridden by its completion.
LEMMA HeardStep ==
  ASSUME RInv, Undecided, [RNext]_<<vars, rvars>>, NEW j \in Jobs, NEW n \in 1..MaxAttempts,
         exec[j][n].signalled, exec[j][n].stage \in {"registered", "started", "calling"}
  PROVE  exec'[j][n].res # "completed"
<1>1. exec[j][n].res = "none"
  BY DEF Undecided
<1>2. ASSUME NEW t \in tasks, t.job = j, t.n = n, Moves(t) PROVE exec'[j][n].res # "completed"
  BY <1>2, MovesTo DEF Heard, Signalled
<1>3. QED
  BY <1>1, <1>2, AttemptStep

\* No attempt that heard a cancel in time ends as completed.
THEOREM HeardCancelHolds == RSpec => HeardCancelNeverCompletes
<1>1. RInit => Undecided
  BY DEF RInit, Undecided, Idle
<1>2. RInv /\ Undecided /\ [RNext]_<<vars, rvars>>
        => [\A j \in Jobs, n \in 1..MaxAttempts :
              /\ exec[j][n].signalled
              /\ exec[j][n].stage \in {"registered", "started", "calling"}
              => exec'[j][n].res # "completed"]_<<vars, rvars>>
  BY HeardStep
<1>3. QED
  BY <1>1, <1>2, UndecidedStep, RunInvariant, PTL DEF RSpec, HeardCancelNeverCompletes
-----------------------------------------------------------------------------
(***************************************************************************)
(* A run before its first lease.  Who writes a manifest, what becomes of   *)
(* the row of its job, and of the handlers that cancel it.                 *)
(***************************************************************************)

\* A step that writes the manifest of a run: its submission, a cancel, the start of
\* an attempt or its end.
LEMMA RunWrites ==
  ASSUME RInv, [RNext]_<<vars, rvars>>, NEW j \in Jobs
  PROVE  \/ run'[j] = run[j]
         \/ run[j] = "absent" /\ run'[j] = "queued"
         \/ run'[j] = "cancelled"
         \/ \E t \in tasks : t.job = j /\ At(t, "registered") /\ run'[j] = "running"
         \/ \E t \in tasks : t.job = j /\ SaveFinal(t) /\ run'[j] = exec[j][t.n].res
<1>a. run \in [Jobs -> RunStatus]
  BY DEF RInv, RTypeOK
<1>1. CASE UNCHANGED run
  BY <1>1
<1>2. ASSUME NEW t \in tasks, StartRun(t)
      PROVE  run'[j] = run[j] \/ (t.job = j /\ At(t, "registered") /\ run'[j] = "running")
  BY <1>2, <1>a DEF StartRun
<1>3. ASSUME NEW t \in tasks, SaveFinal(t)
      PROVE  run'[j] = run[j] \/ (t.job = j /\ run'[j] = exec[j][t.n].res)
  BY <1>3, <1>a DEF SaveFinal
<1>4. ASSUME NEW t \in tasks, RunStep(t), ~StartRun(t), ~SaveFinal(t) PROVE UNCHANGED run
  BY <1>4 DEF RunStep, BeginRollout, StartLost, RejectOverBudget, Probe, ProbeLost, Interrupt,
     Return, Fail, SaveLost, EndRun
<1>5. ASSUME NEW w \in Workers, CancelRun(w) PROVE run'[j] = run[j] \/ run'[j] = "cancelled"
  BY <1>5, <1>a DEF CancelRun
<1>6. ASSUME NEW w \in Workers, NEW i \in Jobs, SubmitSave(w, i)
      PROVE  run'[j] = run[j] \/ (run[j] = "absent" /\ run'[j] = "queued")
  BY <1>6, <1>a DEF SubmitSave
<1>7. ASSUME NEW w \in Workers, NEW i \in Jobs, SubmitEnqueue(w, i) \/ CancelRead(w, i)
      PROVE  UNCHANGED run
  BY <1>7 DEF SubmitEnqueue, CancelRead
<1>8. ASSUME NEW w \in Workers, CancelRow(w) \/ StopRuns(w) PROVE UNCHANGED run
  BY <1>8 DEF CancelRow, StopRuns
<1>9. ASSUME NEW c \in cancels, CancelFlag(c) PROVE UNCHANGED run
  BY <1>9 DEF CancelFlag
<1>10. QueueOnly \/ UNCHANGED <<vars, rvars>> => UNCHANGED run
  BY DEF QueueOnly, rvars
<1>11. QED
  BY <1>1, <1>2, <1>3, <1>4, <1>5, <1>6, <1>7, <1>8, <1>9, <1>10 DEF RNext, HandlerStep

\* A handler that moves on keeps what it has read.
LEMMA HandlerMoves ==
  ASSUME call \in [Workers -> Call \cup {NoCall}], NEW v \in Workers, call[v] # NoCall,
         NEW s \in {"flagging", "flagged"}, call' = [call EXCEPT ![v].stage = s],
         NEW w \in Workers, call[w] # NoCall
  PROVE  /\ call'[w] # NoCall /\ call'[w].job = call[w].job
         /\ call'[w].sawQueued = call[w].sawQueued
<1>1. CASE w = v
  <2>1. call[w] \in Call /\ call'[w] = [call[w] EXCEPT !.stage = s]
    BY <1>1
  <2>2. call'[w].job = call[w].job /\ call'[w].sawQueued = call[w].sawQueued
        /\ call'[w] \in Call
    BY <2>1 DEF Call
  <2>3. QED
    BY <2>2
<1>2. CASE w # v
  BY <1>2
<1>3. QED
  BY <1>1, <1>2

\* A handler keeps what it has read until it is over.
LEMMA CallStep ==
  ASSUME RInv, [RNext]_<<vars, rvars>>, NEW w \in Workers
  PROVE  \/ call'[w] = NoCall
         \/ /\ call[w] # NoCall /\ call'[w] # NoCall /\ call'[w].job = call[w].job
            /\ call'[w].sawQueued = call[w].sawQueued
         \/ \E j \in Jobs : /\ run[j] \in {"queued", "running"} /\ call'[w] # NoCall
                            /\ call'[w].job = j /\ call'[w].sawQueued = (run[j] = "queued")
<1>a. call \in [Workers -> Call \cup {NoCall}]
  BY DEF RInv, RTypeOK
<1>1. CASE UNCHANGED call
  BY <1>1
<1>2. ASSUME NEW t \in tasks, RunStep(t) PROVE UNCHANGED call
  BY <1>2, MovesEffect DEF RunStep, Moves, BeginRollout, EndRun
<1>3. ASSUME NEW v \in Workers, NEW s, call[v] # NoCall, call' = [call EXCEPT ![v].stage = s],
             s \in {"flagging", "flagged"}
      PROVE  \/ call'[w] = call[w]
             \/ /\ call[w] # NoCall /\ call'[w] # NoCall /\ call'[w].job = call[w].job
                /\ call'[w].sawQueued = call[w].sawQueued
  BY <1>a, <1>3, HandlerMoves
<1>4. ASSUME NEW v \in Workers, CancelRow(v)
      PROVE  /\ call[v] # NoCall
             /\ \/ call' = [call EXCEPT ![v] = NoCall]
                \/ \E s \in {"flagging", "flagged"} : call' = [call EXCEPT ![v].stage = s]
  BY <1>4 DEF CancelRow
<1>5. ASSUME NEW c \in cancels, CancelFlag(c)
      PROVE  /\ c.worker \in Workers /\ call[c.worker] # NoCall
             /\ call' = [call EXCEPT ![c.worker].stage = "flagged"]
  BY <1>5 DEF CancelFlag, RInv, Linked
<1>6. ASSUME NEW v \in Workers, CancelRun(v) \/ StopRuns(v)
      PROVE  call'[w] = call[w] \/ (call'[w] = NoCall /\ w = v)
  BY <1>6, <1>a DEF CancelRun, StopRuns
<1>7. ASSUME NEW v \in Workers, NEW j \in Jobs, CancelRead(v, j)
      PROVE  \/ call'[w] = call[w]
             \/ /\ run[j] \in {"queued", "running"} /\ call'[w] # NoCall
                /\ call'[w].job = j /\ call'[w].sawQueued = (run[j] = "queued")
  <2> DEFINE new == [job |-> j, sawQueued |-> run[j] = "queued", stage |-> "read"]
  <2>1. new.job = j /\ new.sawQueued = (run[j] = "queued")
    OBVIOUS
  <2>a. (run[j] = "queued") \in BOOLEAN
    OBVIOUS
  <2>b. new \in Call
    BY <2>a DEF Call
  <2>2. call' = [call EXCEPT ![v] = new] /\ run[j] \in {"queued", "running"}
    BY <1>7 DEF CancelRead
  <2> HIDE DEF new
  <2>3. call'[w] = call[w] \/ call'[w] = new
    BY <1>a, <2>2
  <2>4. QED
    BY <2>1, <2>b, <2>2, <2>3
<1>8. ASSUME NEW v \in Workers, NEW j \in Jobs, SubmitSave(v, j) \/ SubmitEnqueue(v, j)
      PROVE  UNCHANGED call
  BY <1>8 DEF SubmitSave, SubmitEnqueue
<1>9. QueueOnly \/ UNCHANGED <<vars, rvars>> => UNCHANGED call
  BY DEF QueueOnly, rvars
<1>10. ASSUME NEW v \in Workers, CancelRow(v)
       PROVE  \/ call'[w] = call[w] \/ call'[w] = NoCall
              \/ /\ call[w] # NoCall /\ call'[w] # NoCall /\ call'[w].job = call[w].job
                 /\ call'[w].sawQueued = call[w].sawQueued
  <2>1. CASE call' = [call EXCEPT ![v] = NoCall]
    BY <1>a, <2>1
  <2>2. CASE \E s \in {"flagging", "flagged"} : call' = [call EXCEPT ![v].stage = s]
    BY <1>3, <1>4, <1>10, <2>2
  <2>3. QED
    BY <1>4, <1>10, <2>1, <2>2
<1>11. ASSUME NEW c \in cancels, CancelFlag(c)
       PROVE  \/ call'[w] = call[w]
              \/ /\ call[w] # NoCall /\ call'[w] # NoCall /\ call'[w].job = call[w].job
                 /\ call'[w].sawQueued = call[w].sawQueued
  BY <1>3, <1>5, <1>11
<1>12. CASE call'[w] = call[w]
  BY <1>12
<1>13. QED
  BY <1>1, <1>2, <1>6, <1>7, <1>8, <1>9, <1>10, <1>11, <1>12 DEF RNext, HandlerStep

\* Before its first lease a run is queued or cancelled, its job is terminal only by
\* a cancel, and a handler of it has read "queued".
Early ==
  /\ \A j \in Jobs : jobs[j].attempts = 0 =>
       /\ run[j] \in {"absent", "queued", "cancelled"}
       /\ jobs[j].status \in Terminal => jobs[j].cancel
  /\ \A w \in Workers : call[w] # NoCall /\ ~call[w].sawQueued
       => jobs[call[w].job].attempts # 0

\* Whoever has a task was leased.
LEMMA TaskCounts ==
  ASSUME QInv, NEW t \in tasks
  PROVE  t.job \in Jobs /\ t.n \in Nat \ {0} /\ jobs[t.job].attempts \in Nat \ {0}
         /\ t.n <= jobs[t.job].attempts
BY DEF QInv, TypeOK, Task, Row, AttemptsAreUnique

LEMMA EarlyStep == RInv /\ Early /\ [RNext]_<<vars, rvars>> => Early'
<1> SUFFICES ASSUME RInv, Early, [RNext]_<<vars, rvars>> PROVE Early'
  OBVIOUS
<1>a. QInv /\ [Next]_vars /\ \A j \in Jobs : jobs[j].attempts \in Nat
  BY StepRefines DEF RInv, QInv, TypeOK, Row
<1>b. \A j \in Jobs : RowMoves(j)
  BY <1>a, RowMovesStep
<1>c. \A j \in Jobs : jobs'[j].attempts = 0 => jobs[j].attempts = 0
  BY <1>a, <1>b DEF RowMoves
<1>1. ASSUME NEW j \in Jobs, jobs'[j].attempts = 0
      PROVE  run'[j] \in {"absent", "queued", "cancelled"}
  <2>1. jobs[j].attempts = 0 /\ run[j] \in {"absent", "queued", "cancelled"}
    BY <1>1, <1>c DEF Early
  <2>2. \A t \in tasks : t.job # j
    BY <1>a, <2>1, TaskCounts
  <2>3. QED
    BY <2>1, <2>2, RunWrites
<1>2. ASSUME NEW j \in Jobs, jobs'[j].attempts = 0, jobs'[j].status \in Terminal
      PROVE  jobs'[j].cancel
  <2>1. jobs[j].attempts = 0 /\ (jobs[j].status \in Terminal => jobs[j].cancel)
    BY <1>2, <1>c DEF Early
  <2>2. \A t \in tasks : t.job # j
    BY <1>a, <2>1, TaskCounts
  <2>3. QED
    BY <1>2, <1>b, <2>1, <2>2 DEF RowMoves
<1>3. ASSUME NEW w \in Workers, call'[w] # NoCall, ~call'[w].sawQueued
      PROVE  jobs'[call'[w].job].attempts # 0
  <2>1. CASE call[w] # NoCall /\ call'[w].job = call[w].job
             /\ call'[w].sawQueued = call[w].sawQueued
    <3>1. jobs[call[w].job].attempts # 0
      BY <1>3, <2>1 DEF Early
    <3>2. call[w].job \in Jobs
      BY <2>1 DEF RInv, RTypeOK, Call
    <3>3. QED
      BY <1>c, <2>1, <3>1, <3>2
  <2>2. ASSUME NEW j \in Jobs, run[j] \in {"queued", "running"}, call'[w].job = j,
               call'[w].sawQueued = (run[j] = "queued")
        PROVE  jobs'[j].attempts # 0
    <3>1. run[j] = "running"
      BY <1>3, <2>2
    <3>2. jobs[j].attempts # 0
      BY <3>1 DEF Early
    <3>3. QED
      BY <1>c, <3>2
  <2>3. QED
    BY <1>3, <2>1, <2>2, CallStep
<1>4. QED
  BY <1>1, <1>2, <1>3 DEF Early

\* A run that was cancelled together with its job before any lease stays so.
THEOREM EarlyCancelHolds == RSpec => EarlyCancelIsFinal
<1>1. RInit => Early
  BY DEF RInit, Init, Early, Terminal
<1>2. RInv /\ Early /\ [RNext]_<<vars, rvars>>
        => [\A j \in Jobs :
              run[j] = "cancelled" /\ jobs[j].status = "cancelled" /\ jobs[j].attempts = 0
              => run'[j] = "cancelled" /\ jobs'[j].attempts = 0]_<<vars, rvars>>
  <2> SUFFICES ASSUME RInv, Early, [RNext]_<<vars, rvars>>, NEW j \in Jobs,
                      run[j] = "cancelled", jobs[j].status = "cancelled", jobs[j].attempts = 0
               PROVE  run'[j] = "cancelled" /\ jobs'[j].attempts = 0
    OBVIOUS
  <2>1. QInv /\ [Next]_vars
    BY StepRefines DEF RInv
  <2>2. \A t \in tasks : t.job # j
    BY <2>1, TaskCounts
  <2>3. jobs[j].cancel
    BY DEF Early, Terminal
  <2>4. jobs'[j].attempts = 0
    BY <2>1, <2>3, ForwardStep DEF Forward
  <2>5. QED
    BY <2>2, <2>4, RunWrites
<1>3. QED
  BY <1>1, <1>2, EarlyStep, RunInvariant, PTL DEF RSpec, EarlyCancelIsFinal

\* A cancel that came early enough holds.
THEOREM CancelsKept == RSpec => CancelsHold
BY HeardCancelHolds, EarlyCancelHolds DEF CancelsHold
-----------------------------------------------------------------------------
(***************************************************************************)
(* The run follows its job.  While nothing failed a run has one task, its  *)
(* last writer but for a cancel; so what the manifest says is known from   *)
(* the place of that task, and from the row once the task is gone.         *)
(***************************************************************************)

Undisturbed == faults = 0 /\ lost = 0

\* What the manifest may say while task t is at its place.
Following(t) ==
  /\ t.phase = "leased" \/ At(t, "registered") => run[t.job] \notin {"completed", "failed"}
  /\ At(t, "saved") => run[t.job] \in {exec[t.job][t.n].res, "cancelled"}
  /\ t.phase = "finishing" => run[t.job] \in {t.outcome, "cancelled"}

\* A running job has a task, and a job with a task runs or is cancelled.  What the
\* manifest may say once the job is over: a job cancelled before any lease leaves
\* its run to the handler that flagged it.
Followed(j) ==
  /\ jobs[j].status = "running" => \E t \in tasks : t.job = j
  /\ (\E t \in tasks : t.job = j) => jobs[j].status = "running" \/ jobs[j].cancel
  /\ jobs[j].status \in Terminal /\ jobs[j].attempts = 0
       => \/ run[j] = "cancelled"
          \/ \E w \in Workers : call[w] # NoCall /\ call[w].job = j
  /\ /\ jobs[j].status \in Terminal /\ jobs[j].attempts # 0 /\ ~GivenUp(j)
     /\ \A t \in tasks : t.job # j
     => /\ run[j] \in RunTerminal
        /\ ~jobs[j].cancel => run[j] = jobs[j].status \/ run[j] = "cancelled"

Follows == Undisturbed =>
  /\ \A w \in Workers : up[w] = "up"
  /\ \A t \in tasks : Following(t)
  /\ \A j \in Jobs : Followed(j)

FInv == RInv /\ Healthy /\ Early /\ Follows

\* Faults and failed calls are counted upwards.
LEMMA StaysUndisturbed ==
  ASSUME RInv, [RNext]_<<vars, rvars>>, Undisturbed'
  PROVE  Undisturbed /\ ~Fault /\ ~StoreError
<1>1. faults \in Nat /\ lost \in Nat
  BY DEF RInv, QInv, TypeOK, RTypeOK
<1>2. faults' = faults \/ Fault
  <2>1. [Next]_vars
    BY StepRefines
  <2>2. QED
    BY <2>1 DEF Next, ProcessStep, TaskStep, Enqueue, LeaseJob, GiveUp, BeginExecute, Heartbeat,
       EndExecute, FinishJob, FinishLost, Expire, CancelSelect, CancelUpdate, Drain, Crash,
       Exit, Start, vars
<1>3. lost' = lost \/ StoreError
  <2>1. ASSUME NEW t \in tasks, RunStep(t) PROVE lost' = lost \/ StoreError
    BY <2>1, MovesEffect DEF RunStep, Moves, BeginRollout, EndRun
  <2>2. QED
    BY <2>1 DEF RNext, QueueOnly, rvars, HandlerStep, CancelRow, CancelRun, StopRuns, SubmitSave,
       SubmitEnqueue, CancelRead, CancelFlag
<1>4. QED
  BY <1>1, <1>2, <1>3 DEF Undisturbed, Fault, StoreError

\* A task that stays at its place, under a manifest that at most a cancel writes.
LEMMA KeepsFollowing ==
  ASSUME NEW t, Following(t), NEW u, u.job = t.job, u.n = t.n, u.phase = t.phase,
         u.outcome = t.outcome,
         run'[t.job] = run[t.job] \/ run'[t.job] = "cancelled",
         t.phase = "executing" =>
           /\ exec'[t.job][t.n].stage = exec[t.job][t.n].stage
           /\ exec'[t.job][t.n].res = exec[t.job][t.n].res
  PROVE  Following(u)'
BY DEF Following, At

\* A job whose row, tasks and handlers stay what they are.
LEMMA KeepsFollowed ==
  ASSUME NEW j \in Jobs, Followed(j),
         run'[j] = run[j] \/ run'[j] = "cancelled",
         jobs'[j].status = jobs[j].status, jobs'[j].attempts = jobs[j].attempts,
         jobs[j].cancel => jobs'[j].cancel,
         (\E t \in tasks' : t.job = j) <=> (\E t \in tasks : t.job = j),
         \/ jobs[j].attempts # 0
         \/ run'[j] = "cancelled"
         \/ \A w \in Workers : call[w] # NoCall /\ call[w].job = j
              => call'[w] # NoCall /\ call'[w].job = j
  PROVE  Followed(j)'
<1>1. GivenUp(j)' <=> GivenUp(j)
  BY DEF GivenUp
<1>2. (/\ jobs[j].status = "running" => \E t \in tasks : t.job = j
       /\ (\E t \in tasks : t.job = j) => jobs[j].status = "running" \/ jobs[j].cancel)'
  BY DEF Followed
<1>3. (jobs[j].status \in Terminal /\ jobs[j].attempts = 0
        => \/ run[j] = "cancelled"
           \/ \E w \in Workers : call[w] # NoCall /\ call[w].job = j)'
  BY DEF Followed
<1>4. (/\ jobs[j].status \in Terminal /\ jobs[j].attempts # 0 /\ ~GivenUp(j)
       /\ \A t \in tasks : t.job # j
       => /\ run[j] \in RunTerminal
          /\ ~jobs[j].cancel => run[j] = jobs[j].status \/ run[j] = "cancelled")'
  BY <1>1 DEF Followed, RunTerminal
<1>5. QED
  BY <1>2, <1>3, <1>4 DEF Followed

LEMMA FollowsStep == FInv /\ [RNext]_<<vars, rvars>> => Follows'
<1> SUFFICES ASSUME FInv, [RNext]_<<vars, rvars>>, Undisturbed'
             PROVE  /\ \A w \in Workers : up'[w] = "up"
                    /\ \A t \in tasks' : Following(t)'
                    /\ \A j \in Jobs : Followed(j)'
  BY DEF Follows
<1>a. Undisturbed /\ ~Fault /\ ~StoreError
  BY StaysUndisturbed DEF FInv
<1>b. RInv /\ Healthy /\ Early /\ QInv /\ TypeOK /\ [Next]_vars
  BY StepRefines DEF FInv, RInv, QInv
<1>c. /\ \A w \in Workers : up[w] = "up"
      /\ \A t \in tasks : Following(t)
      /\ \A j \in Jobs : Followed(j)
  BY <1>a DEF FInv, Follows
<1>d. /\ \A t \in tasks : t \in Task /\ t.job \in Jobs /\ t.worker \in Workers
                          /\ t.n = jobs[t.job].attempts /\ jobs[t.job].attempts # 0
                          /\ jobs[t.job].lease # "expired"
      /\ \A t, u \in tasks : t.job = u.job => t = u
  <2>1. faults = 0
    BY <1>a DEF Undisturbed
  <2>2. \A t \in tasks : t \in Task /\ t.job \in Jobs /\ t.worker \in Workers /\ t.n # 0
    BY <1>b DEF TypeOK, Task
  <2>3. QED
    BY <1>b, <2>1, <2>2 DEF Healthy, QInv, AttemptsAreUnique
<1>e. /\ exec \in [Jobs -> [1..MaxAttempts -> Exec]] /\ run \in [Jobs -> RunStatus]
      /\ call \in [Workers -> Call \cup {NoCall}]
      /\ \A j \in Jobs : jobs[j].attempts \in Nat /\ jobs[j].status \in Status
  BY <1>b DEF RInv, RTypeOK, TypeOK, Row
<1>f. \A j \in Jobs : RowMoves(j)
  BY <1>b, RowMovesStep
<1> DEFINE Goal == /\ \A w \in Workers : up'[w] = "up"
                   /\ \A t \in tasks' : Following(t)'
                   /\ \A j \in Jobs : Followed(j)'
<1> HIDE DEF Goal
\* Steps that leave the tasks where they are, and the rows but for their leases.
<1>g. ASSUME UNCHANGED <<up, tasks, exec>>,
             \A j \in Jobs : /\ run'[j] = run[j] \/ run'[j] = "cancelled"
                             /\ jobs'[j].status = jobs[j].status
                             /\ jobs'[j].attempts = jobs[j].attempts,
             \A w \in Workers : call[w] # NoCall => call'[w] # NoCall /\ call'[w].job = call[w].job
      PROVE  Goal
  <2>1. ASSUME NEW t \in tasks' PROVE Following(t)'
    BY <1>c, <1>d, <1>g, KeepsFollowing
  <2>2. ASSUME NEW j \in Jobs PROVE Followed(j)'
    BY <1>c, <1>f, <1>g, KeepsFollowed DEF RowMoves
  <2>3. QED
    BY <1>c, <1>g, <2>1, <2>2 DEF Goal
\* Steps that replace task t by u and write nothing of another run.
<1>h. ASSUME NEW t \in tasks, NEW u, u.job = t.job, tasks' = (tasks \ {t}) \cup {u},
             UNCHANGED <<up, call>>,
             \A j \in Jobs : /\ jobs'[j].status = jobs[j].status
                             /\ jobs'[j].attempts = jobs[j].attempts,
             \A j \in Jobs : j # t.job =>
               /\ run'[j] = run[j]
               /\ \A n \in 1..MaxAttempts : exec'[j][n] = exec[j][n],
             Following(u)'
      PROVE  Goal
  <2>1. ASSUME NEW v \in tasks' PROVE Following(v)'
    <3>1. CASE v = u
      BY <1>h, <3>1
    <3>2. CASE v # u
      <4>1. v \in tasks /\ v.job # t.job
        BY <1>d, <1>h, <3>2
      <4>2. v.phase = "executing" => v.n \in 1..MaxAttempts
        BY <1>b, <4>1, TaskIndex DEF RInv
      <4>3. QED
        BY <1>c, <1>d, <1>h, <4>1, <4>2, KeepsFollowing
    <3>3. QED
      BY <3>1, <3>2
  <2>2. ASSUME NEW j \in Jobs, j # t.job PROVE Followed(j)'
    BY <1>c, <1>f, <1>h, <2>2, KeepsFollowed DEF RowMoves
  <2>3. Followed(t.job)'
    <3>1. jobs'[t.job].status = "running" \/ jobs'[t.job].cancel
      BY <1>c, <1>d, <1>f, <1>h DEF Followed, RowMoves
    <3>2. QED
      BY <1>d, <1>h, <3>1 DEF Followed
  <2>4. QED
    BY <1>c, <1>h, <2>1, <2>2, <2>3 DEF Goal
<1>1. ASSUME NEW w \in Workers, NEW j \in Jobs, LeaseJob(w, j), UNCHANGED rvars PROVE Goal
  <2>1. \A t \in tasks : t.job # j
    BY <1>1, <1>b, <1>d, LeaseEffect DEF QInv, RowsOK
  <2>2. run[j] \notin {"completed", "failed"}
    <3>1. jobs[j].status = "queued"
      BY <1>1, <1>b, <1>c, <2>1, LeaseEffect DEF Followed
    <3>2. QED
      BY <1>b, <3>1 DEF QInv, RowsOK, Early
  <2>a. PICK new : new = [job |-> j, n |-> jobs[j].attempts + 1, worker |-> w,
                          phase |-> "leased", heart |-> FALSE, outcome |-> "none"]
    OBVIOUS
  <2>3. new.job = j /\ new.phase = "leased"
    BY <2>a
  <2>4. tasks' = tasks \cup {new} /\ UNCHANGED up
    BY <1>1, <2>a DEF LeaseJob
  <2>5. \A i \in Jobs \ {j} : jobs'[i] = jobs[i]
    BY <1>1, <1>b, LeaseEffect
  <2>6. jobs'[j].status = "running"
    BY <1>1, <1>b, LeaseEffect
  <2>7. UNCHANGED <<run, exec, call>>
    BY <1>1 DEF rvars
  <2>8. Following(new)'
    BY <2>2, <2>3, <2>7 DEF Following, At
  <2>9. ASSUME NEW t \in tasks PROVE Following(t)'
    BY <1>c, <2>7, KeepsFollowing
  <2>10. ASSUME NEW i \in Jobs, i # j PROVE Followed(i)'
    BY <1>c, <2>3, <2>4, <2>5, <2>7, <2>10, KeepsFollowed
  <2>11. Followed(j)'
    BY <2>3, <2>4, <2>6 DEF Followed, Terminal
  <2>12. QED
    BY <1>c, <2>4, <2>8, <2>9, <2>10, <2>11 DEF Goal
<1>2. ASSUME NEW t \in tasks, GiveUp(t) \/ FinishJob(t), UNCHANGED rvars PROVE Goal
  <2>1. /\ tasks' = tasks \ {t} /\ UNCHANGED <<up, run, exec, call>>
        /\ \E s \in Terminal : FinishRow(t.job, s)
    BY <1>2, <1>b, StatusValues DEF GiveUp, FinishJob, TypeOK, rvars
  <2>2. /\ jobs'[t.job].attempts = jobs[t.job].attempts
        /\ jobs'[t.job].cancel = jobs[t.job].cancel /\ jobs'[t.job].status \in Terminal
        /\ \A i \in Jobs \ {t.job} : jobs'[i] = jobs[i]
    BY <1>b, <1>d, <2>1, FinishEffect
  <2>3. ASSUME NEW v \in tasks' PROVE Following(v)'
    BY <1>c, <2>1, KeepsFollowing
  <2>4. ASSUME NEW i \in Jobs, i # t.job PROVE Followed(i)'
    BY <1>c, <2>1, <2>2, <2>4, KeepsFollowed
  <2>5. CASE GiveUp(t)
    <3>1. GivenUp(t.job)'
      <4>1. t.n \in Nat /\ MaxAttempts \in Nat /\ ~(t.n <= MaxAttempts)
        BY <1>d, <2>5, RolloutRunAssumption DEF GiveUp, Executable, WithinLimit, Task
      <4>2. QED
        BY <1>d, <2>2, <4>1 DEF GivenUp
    <3>2. Followed(t.job)'
      BY <1>d, <2>1, <2>2, <3>1 DEF Followed, Terminal
    <3>3. QED
      BY <1>c, <2>1, <2>3, <2>4, <3>2 DEF Goal
  <2>6. CASE FinishJob(t)
    <3>1. t.outcome \in Terminal /\ run[t.job] \in {t.outcome, "cancelled"}
      BY <1>b, <1>c, <2>6 DEF FinishJob, TypeOK, Following
    <3>2. jobs'[t.job].status = t.outcome
      <4>1. jobs[t.job] \in Row
        BY <1>b, <1>d DEF TypeOK
      <4>2. jobs' = [jobs EXCEPT ![t.job] = [jobs[t.job] EXCEPT !.status = t.outcome, !.lease = "none"]]
        BY <2>6 DEF FinishJob, FinishRow
      <4>3. jobs'[t.job] = [jobs[t.job] EXCEPT !.status = t.outcome, !.lease = "none"]
        BY <1>b, <1>d, <4>2 DEF TypeOK
      <4>4. QED
        BY <4>1, <4>3 DEF Row
    <3>3. run'[t.job] \in RunTerminal /\ run'[t.job] \in {jobs'[t.job].status, "cancelled"}
      BY <2>1, <3>1, <3>2 DEF Terminal, RunTerminal
    <3>4. Followed(t.job)'
      BY <1>d, <2>1, <2>2, <3>3 DEF Followed, Terminal
    <3>5. QED
      BY <1>c, <2>1, <2>3, <2>4, <3>4 DEF Goal
  <2>7. QED
    BY <1>2, <2>5, <2>6
<1>3. ASSUME NEW t \in tasks, Heartbeat(t), UNCHANGED rvars PROVE Goal
  <2>1. OnlyLease(t.job) /\ UNCHANGED <<up, run, exec, call>>
    BY <1>3, <1>b, HeartbeatEffect DEF Heartbeat, rvars
  <2>2. \A j \in Jobs : jobs'[j].status = jobs[j].status /\ jobs'[j].attempts = jobs[j].attempts
    BY <2>1 DEF OnlyLease
  <2>3. CASE UNCHANGED tasks
    BY <1>g, <2>1, <2>2, <2>3
  <2>4. CASE tasks' = (tasks \ {t}) \cup {[t EXCEPT !.heart = FALSE]}
    <3>1. PICK u : u = [t EXCEPT !.heart = FALSE]
      OBVIOUS
    <3>2. /\ u.job = t.job /\ u.n = t.n /\ u.phase = t.phase /\ u.outcome = t.outcome
          /\ tasks' = (tasks \ {t}) \cup {u}
      BY <1>d, <2>4, <3>1 DEF Task
    <3>3. Following(u)'
      BY <1>c, <2>1, <3>2, KeepsFollowing
    <3>4. QED
      BY <1>h, <2>1, <2>2, <3>2, <3>3
  <2>5. QED
    BY <1>3, <2>3, <2>4 DEF Heartbeat
<1>4. ASSUME NEW j \in Jobs, Expire(j), UNCHANGED rvars PROVE Goal
  <2>1. OnlyLease(j) /\ UNCHANGED <<up, tasks, run, exec, call>>
    BY <1>4, <1>b, ExpireEffect DEF Expire, rvars
  <2>2. \A i \in Jobs : jobs'[i].status = jobs[i].status /\ jobs'[i].attempts = jobs[i].attempts
    BY <2>1 DEF OnlyLease
  <2>3. QED
    BY <1>g, <2>1, <2>2
<1>5. ASSUME QueueOnly PROVE Goal
  <2>1. ~(\E w \in Workers : Drain(w) \/ Start(w)) /\ ~(\E t \in tasks : FinishLost(t))
    BY <1>a, <1>c DEF Drain, Start, FinishLost
  <2>2. /\ UNCHANGED rvars
        /\ \/ \E w \in Workers, j \in Jobs : LeaseJob(w, j)
           \/ \E t \in tasks : GiveUp(t) \/ FinishJob(t)
           \/ \E t \in tasks : Heartbeat(t)
           \/ \E j \in Jobs : Expire(j)
    BY <1>5, <2>1 DEF QueueOnly
  <2>3. QED
    BY <1>1, <1>2, <1>3, <1>4, <2>2, Zenon
<1>6. ASSUME NEW t \in tasks, BeginRollout(t) PROVE Goal
  <2>1. /\ t.n \in 1..MaxAttempts /\ t.phase = "leased"
        /\ UNCHANGED <<jobs, up, run, call>>
    BY <1>6, <1>b, TaskIndex DEF BeginRollout, BeginExecute, Executable, RInv
  <2>2. PICK new : new = [Idle EXCEPT !.stage = "registered"]
    OBVIOUS
  <2>3. exec' = [exec EXCEPT ![t.job] = [exec[t.job] EXCEPT ![t.n] = new]]
    BY <1>6, <2>2 DEF BeginRollout
  <2>4. new.stage = "registered"
    BY <2>2 DEF Idle
  <2>5. /\ exec'[t.job][t.n].stage = "registered"
        /\ \A j \in Jobs : j # t.job => \A n \in 1..MaxAttempts : exec'[j][n] = exec[j][n]
    BY <1>d, <1>e, <2>1, <2>3, <2>4
  <2>6. PICK u : u = [t EXCEPT !.phase = "executing", !.heart = TRUE]
    OBVIOUS
  <2>7. /\ u.job = t.job /\ u.n = t.n /\ u.phase = "executing"
        /\ tasks' = (tasks \ {t}) \cup {u}
    BY <1>6, <1>d, <2>6 DEF Task, BeginRollout, BeginExecute
  <2>8. run[t.job] \notin {"completed", "failed"}
    BY <1>c, <2>1 DEF Following
  <2>9. Following(u)'
    BY <2>1, <2>5, <2>7, <2>8 DEF Following, At
  <2>10. QED
    BY <1>h, <2>1, <2>5, <2>7, <2>9
<1>7. ASSUME NEW t \in tasks, EndRun(t) PROVE Goal
  <2>1. /\ t.n \in 1..MaxAttempts /\ At(t, "saved")
        /\ UNCHANGED <<jobs, up, run, call>>
    BY <1>7, <1>b, TaskIndex DEF EndRun, EndExecute, At, RInv
  <2>2. exec' = [exec EXCEPT ![t.job] = [exec[t.job] EXCEPT ![t.n] = Idle]]
    BY <1>7 DEF EndRun
  <2>3. \A j \in Jobs : j # t.job => \A n \in 1..MaxAttempts : exec'[j][n] = exec[j][n]
    BY <1>d, <1>e, <2>1, <2>2
  <2>4. PICK u : u = [t EXCEPT !.phase = "finishing", !.heart = FALSE,
                               !.outcome = exec[t.job][t.n].res]
    OBVIOUS
  <2>5. /\ u.job = t.job /\ u.phase = "finishing" /\ u.outcome = exec[t.job][t.n].res
        /\ tasks' = (tasks \ {t}) \cup {u}
    BY <1>7, <1>d, <2>4 DEF Task, EndRun, EndExecute
  <2>6. run[t.job] \in {u.outcome, "cancelled"}
    BY <1>c, <2>1, <2>5 DEF Following
  <2>7. Following(u)'
    BY <2>1, <2>5, <2>6 DEF Following, At
  <2>8. QED
    BY <1>h, <2>1, <2>3, <2>5, <2>7
<1>8. ASSUME NEW t \in tasks, Moves(t) PROVE Goal
  <2>1. /\ t.phase = "executing" /\ t.n \in 1..MaxAttempts
        /\ UNCHANGED <<tasks, call>>
        /\ exec'[t.job][t.n].stage \in {"started", "calling", "ending", "failing", "saved"}
        /\ \A j \in Jobs, n \in 1..MaxAttempts :
             j # t.job \/ n # t.n => exec'[j][n] = exec[j][n]
    BY <1>8, <1>b, MovesEffect, MovesTo
  <2>2. \A j \in Jobs : j # t.job => run'[j] = run[j]
    <3>1. run' = run \/ \E s \in RunStatus : run' = [run EXCEPT ![t.job] = s]
      BY <1>8, <1>b, MovesEffect
    <3>2. QED
      BY <1>e, <3>1
  <2>3. UNCHANGED vars
    BY <1>8 DEF Moves, StartRun, StartLost, RejectOverBudget, Probe, ProbeLost, Interrupt,
       Return, Fail, SaveFinal, SaveLost
  <2>4. exec'[t.job][t.n].stage = "saved" => run'[t.job] = exec'[t.job][t.n].res
    <3>1. CASE SaveFinal(t)
      <4>1. /\ run'[t.job] = exec[t.job][t.n].res
            /\ exec[t.job][t.n].res \in RunTerminal \cup {"none"}
        BY <1>d, <1>e, <2>1, <3>1 DEF SaveFinal, Exec
      <4>2. exec'[t.job][t.n].res = exec[t.job][t.n].res
        BY <1>d, <1>e, <2>1, <3>1, <4>1, GotoEffect DEF SaveFinal
      <4>3. QED
        BY <4>1, <4>2
    <3>2. CASE ~SaveFinal(t)
      <4>1. PICK stage \in {"started", "calling", "ending", "failing"},
                 res \in {"none", "completed", "failed", "cancelled"} : Goto(t, stage, res)
        BY <1>8, <1>a, <3>2 DEF Moves, StartRun, StartLost, RejectOverBudget, Probe, ProbeLost,
           Interrupt, Return, Fail, SaveLost
      <4>2. res \in RunTerminal \cup {"none"}
        BY DEF RunTerminal
      <4>3. exec'[t.job][t.n].stage = stage
        BY <1>d, <1>e, <2>1, <4>1, <4>2, GotoEffect
      <4>4. QED
        BY <4>1, <4>3
    <3>3. QED
      BY <3>1, <3>2
  <2>5. Following(t)'
    BY <2>1, <2>4 DEF Following, At
  <2>6. tasks' = (tasks \ {t}) \cup {t} /\ UNCHANGED <<jobs, up>>
    BY <2>1, <2>3 DEF vars
  <2>7. QED
    BY <1>h, <2>1, <2>2, <2>5, <2>6
<1>9. ASSUME NEW w \in Workers, NEW j \in Jobs, SubmitSave(w, j) PROVE Goal
  <2>1. /\ run[j] = "absent" /\ run' = [run EXCEPT ![j] = "queued"]
        /\ UNCHANGED <<jobs, tasks, up, exec, call>>
    BY <1>9 DEF SubmitSave, vars
  <2>2. run'[j] = "queued" /\ \A i \in Jobs : i # j => run'[i] = run[i]
    BY <1>e, <2>1
  <2>3. ASSUME NEW t \in tasks' PROVE Following(t)'
    <3>1. CASE t.job # j
      BY <1>c, <1>d, <2>1, <2>2, <3>1, KeepsFollowing
    <3>2. CASE t.job = j
      <4>1. ~At(t, "saved")
        <5>1. SUFFICES ASSUME At(t, "saved") PROVE FALSE
          OBVIOUS
        <5>2. t.n \in 1..MaxAttempts /\ t.job \in Jobs
          BY <1>b, <2>1, <5>1, TaskIndex DEF RInv, At
        <5>3. exec[t.job][t.n].res \in RunTerminal
          BY <1>b, <5>1, <5>2 DEF RInv, RTypeOK, At
        <5>4. QED
          BY <1>c, <2>1, <3>2, <5>1, <5>3 DEF Following, RunTerminal
      <4>2. t.phase # "finishing"
        BY <1>b, <1>c, <2>1, <3>2 DEF TypeOK, Following, Terminal
      <4>3. QED
        BY <2>1, <2>2, <3>2, <4>1, <4>2 DEF Following, At
    <3>3. QED
      BY <3>1, <3>2
  <2>4. ASSUME NEW i \in Jobs, i # j PROVE Followed(i)'
    BY <1>c, <2>1, <2>2, <2>4, KeepsFollowed
  <2>5. Followed(j)'
    BY <1>c, <2>1 DEF Followed, RunTerminal, GivenUp
  <2>6. QED
    BY <1>c, <2>1, <2>3, <2>4, <2>5 DEF Goal
<1>10. ASSUME NEW w \in Workers, NEW j \in Jobs, SubmitEnqueue(w, j) PROVE Goal
  <2>1. Enqueue(w, j) /\ UNCHANGED <<tasks, up, run, exec, call>>
    BY <1>10, <1>a DEF SubmitEnqueue, Enqueue
  <2>2. ASSUME NEW t \in tasks' PROVE Following(t)'
    BY <1>c, <2>1, KeepsFollowing
  <2>3. ASSUME NEW i \in Jobs, i # j PROVE Followed(i)'
    BY <1>b, <1>c, <2>1, <2>3, EnqueueEffect, KeepsFollowed
  <2>4. Followed(j)'
    <3>1. \A t \in tasks : t.job # j
      BY <1>b, <1>d, <2>1, EnqueueEffect DEF QInv, RowsOK
    <3>2. QED
      BY <1>b, <2>1, <3>1, EnqueueEffect DEF Followed, Terminal
  <2>5. QED
    BY <1>c, <2>1, <2>2, <2>3, <2>4 DEF Goal
<1>11. ASSUME NEW w \in Workers, NEW j \in Jobs, CancelRead(w, j) PROVE Goal
  <2>1. call[w] = NoCall /\ UNCHANGED <<jobs, tasks, up, run, exec>>
        /\ \A v \in Workers : v # w => call'[v] = call[v]
    BY <1>11, <1>e DEF CancelRead, vars
  <2>2. \A v \in Workers : call[v] # NoCall => call'[v] # NoCall /\ call'[v].job = call[v].job
    BY <2>1
  <2>3. QED
    BY <1>g, <2>1, <2>2
<1>12. ASSUME NEW w \in Workers, CancelRow(w) PROVE Goal
  <2>1. /\ UNCHANGED <<jobs, tasks, up, run, exec>> /\ call[w] # NoCall
        /\ \E s \in {"flagging", "flagged"} : call' = [call EXCEPT ![w].stage = s]
    BY <1>12, <1>a DEF CancelRow, CancelSelect, vars
  <2>2. \A v \in Workers : call[v] # NoCall => call'[v] # NoCall /\ call'[v].job = call[v].job
    BY <1>e, <2>1, HandlerMoves
  <2>3. QED
    BY <1>g, <2>1, <2>2
<1>13. ASSUME NEW c \in cancels, CancelFlag(c) PROVE Goal
  <2>1. /\ UNCHANGED <<tasks, up, run, exec>> /\ CancelUpdate(c)
        /\ c.worker \in Workers /\ call[c.worker] # NoCall /\ call[c.worker].job = c.job
        /\ call' = [call EXCEPT ![c.worker].stage = "flagged"]
    BY <1>13, <1>b DEF CancelFlag, CancelUpdate, RInv, Linked
  <2>2. \A v \in Workers : call[v] # NoCall => call'[v] # NoCall /\ call'[v].job = call[v].job
    BY <1>e, <2>1, HandlerMoves
  <2>3. ASSUME NEW t \in tasks' PROVE Following(t)'
    BY <1>c, <2>1, KeepsFollowing
  <2>4. ASSUME NEW i \in Jobs, i # c.job PROVE Followed(i)'
    <3>1. jobs'[i] = jobs[i]
      BY <1>b, <2>1, <2>4, CancelEffect
    <3>2. QED
      BY <1>c, <2>1, <2>2, <3>1, KeepsFollowed
  <2>5. Followed(c.job)'
    <3>1. /\ c.job \in Jobs /\ jobs'[c.job].cancel = TRUE
          /\ jobs'[c.job].status = IF c.sawQueued THEN "cancelled" ELSE jobs[c.job].status
          /\ jobs'[c.job].attempts = jobs[c.job].attempts
      BY <1>b, <2>1, CancelEffect
    <3>2. \E w \in Workers : call'[w] # NoCall /\ call'[w].job = c.job
      BY <2>1, <2>2
    <3>3. jobs'[c.job].status = "running" => \E t \in tasks' : t.job = c.job
      BY <1>c, <2>1, <3>1 DEF Followed
    <3>4. /\ jobs'[c.job].attempts # 0 /\ ~GivenUp(c.job)' /\ (\A t \in tasks' : t.job # c.job)
          => run'[c.job] \in RunTerminal
      <4>1. SUFFICES ASSUME jobs[c.job].attempts # 0, ~GivenUp(c.job), \A t \in tasks : t.job # c.job
                     PROVE  run[c.job] \in RunTerminal
        BY <2>1, <3>1 DEF GivenUp
      <4>2. jobs[c.job].status \in Terminal
        BY <1>b, <1>c, <1>e, <3>1, <4>1 DEF Followed, QInv, RowsOK, Status
      <4>3. QED
        BY <1>c, <3>1, <4>1, <4>2 DEF Followed
    <3>5. QED
      BY <3>1, <3>2, <3>3, <3>4 DEF Followed
  <2>6. QED
    BY <1>c, <2>1, <2>3, <2>4, <2>5 DEF Goal
<1>14. ASSUME NEW w \in Workers, CancelRun(w) PROVE Goal
  <2>1. /\ UNCHANGED <<jobs, tasks, up>> /\ call[w] # NoCall /\ call[w].job \in Jobs
        /\ \A v \in Workers : v # w => call'[v] = call[v]
    BY <1>14, <1>e DEF CancelRun, vars, Call
  <2>2. \A j \in Jobs : run'[j] = run[j] \/ run'[j] = "cancelled"
    BY <1>14, <1>e DEF CancelRun
  <2>3. ASSUME NEW t \in tasks' PROVE Following(t)'
    <3>1. t \in tasks /\ t.job \in Jobs /\ (t.phase = "executing" => t.n \in 1..MaxAttempts)
      BY <1>b, <2>1, TaskIndex DEF RInv
    <3>2. t.phase = "executing" => /\ exec'[t.job][t.n].stage = exec[t.job][t.n].stage
                                   /\ exec'[t.job][t.n].res = exec[t.job][t.n].res
      BY <1>14, <1>e, <3>1, SignalEffect
    <3>3. QED
      BY <1>c, <2>2, <3>1, <3>2, KeepsFollowing
  <2>4. jobs[call[w].job].attempts = 0 => run'[call[w].job] = "cancelled"
    <3>1. SUFFICES ASSUME jobs[call[w].job].attempts = 0 PROVE run'[call[w].job] = "cancelled"
      OBVIOUS
    <3>2. call[w].sawQueued
      BY <1>b, <2>1, <3>1 DEF Early
    <3>3. tokens[w][call[w].job] = 0
      BY <1>b, <1>d, <2>1, <3>1 DEF RInv, NoStaleToken
    <3>4. QED
      BY <1>14, <1>a, <1>e, <2>1, <3>2, <3>3 DEF CancelRun
  <2>5. ASSUME NEW j \in Jobs PROVE Followed(j)'
    BY <1>c, <2>1, <2>2, <2>4, KeepsFollowed
  <2>6. QED
    BY <1>c, <2>1, <2>3, <2>5 DEF Goal
<1>15. ASSUME NEW w \in Workers PROVE ~StopRuns(w)
  BY <1>a, <1>c DEF StopRuns, Crash, Exit
<1>16. ASSUME UNCHANGED <<vars, rvars>> PROVE Goal
  <2>1. UNCHANGED <<up, tasks, exec, run, jobs, call>>
    BY <1>16 DEF vars, rvars
  <2>2. QED
    BY <1>g, <2>1
<1>17. Goal
  <2>1. ASSUME NEW t \in tasks, RunStep(t) PROVE Goal
    <3>1. BeginRollout(t) \/ EndRun(t) \/ Moves(t)
      BY <2>1 DEF RunStep, Moves
    <3>2. QED
      BY <1>6, <1>7, <1>8, <3>1
  <2>2. ASSUME NEW w \in Workers, HandlerStep(w) PROVE Goal
    BY <1>9, <1>10, <1>11, <1>12, <1>14, <1>15, <2>2, Zenon DEF HandlerStep
  <2>3. QED
    BY <1>5, <1>13, <1>16, <2>1, <2>2, Zenon DEF RNext
<1>18. QED
  BY <1>17 DEF Goal

LEMMA FInvStep == FInv /\ [RNext]_<<vars, rvars>> => FInv'
<1> SUFFICES ASSUME FInv, [RNext]_<<vars, rvars>> PROVE FInv'
  OBVIOUS
<1>1. RInv' /\ Healthy'
  BY RInvStep, StepRefines, HealthyStep DEF FInv, RInv
<1>2. QED
  BY <1>1, EarlyStep, FollowsStep DEF FInv

\* A run and its job agree, for any runs, processes and cancels.
THEOREM FollowsInvariant == RSpec => []FInv
<1>1. RInit => Early /\ Follows
  BY DEF RInit, Init, Early, Follows, Followed, Terminal
<1>2. RInit => FInv
  BY <1>1, InitRInv, InitQInv DEF RInit, RInv, Init, Limited, Linked, Healthy, FInv
<1>3. QED
  BY <1>2, FInvStep, PTL DEF RSpec

\* The two records of a run end alike, unless a fault or a failed call came between
\* them: the run of a job that is over is terminal, and it reports what the job
\* reports or the cancel of a handler that had read "queued".
THEOREM RunAndJobAgree == RSpec => []RunFollowsJob
<1>1. FInv => SettledTogether
  <2> SUFFICES ASSUME FInv, NEW j \in Jobs, Undisturbed, jobs[j].status \in Terminal,
                      ~GivenUp(j), \A t \in tasks : t.job # j,
                      \A w \in Workers : call[w] # NoCall => call[w].job # j
               PROVE  run[j] \in RunTerminal
    BY DEF SettledTogether, Undisturbed
  <2>1. Followed(j)
    BY DEF FInv, Follows
  <2>2. CASE jobs[j].attempts = 0
    BY <2>1, <2>2 DEF Followed, RunTerminal
  <2>3. CASE jobs[j].attempts # 0
    BY <2>1, <2>3 DEF Followed
  <2>4. QED
    BY <2>2, <2>3
<1>2. FInv => JobAndRunAgree
  <2> SUFFICES ASSUME FInv, NEW j \in Jobs, Undisturbed, jobs[j].status \in Terminal,
                      ~GivenUp(j), ~jobs[j].cancel, \A w \in Workers : call[w] = NoCall
               PROVE  run[j] = jobs[j].status \/ run[j] = "cancelled"
    BY DEF JobAndRunAgree, Undisturbed
  <2>1. Followed(j) /\ jobs[j].attempts # 0
    BY DEF FInv, Early, Follows
  <2>2. \A t \in tasks : t.job # j
    BY <2>1 DEF Followed, Terminal
  <2>3. QED
    BY <2>1, <2>2 DEF Followed
<1>3. QED
  BY <1>1, <1>2, FollowsInvariant, PTL DEF RunFollowsJob

\* Without a fault no attempt starts over a run that completed or failed.
THEOREM FinishedRunsRest == RSpec => FinishedRunsNotRestarted
<1>1. FInv /\ [RNext]_<<vars, rvars>>
        => [\A j \in Jobs : faults' = 0 /\ lost = 0 /\ run[j] \in {"completed", "failed"}
              => run'[j] # "running"]_<<vars, rvars>>
  <2> SUFFICES ASSUME FInv, [RNext]_<<vars, rvars>>, NEW j \in Jobs, faults' = 0, lost = 0,
                      run[j] \in {"completed", "failed"}
               PROVE  run'[j] # "running"
    OBVIOUS
  <2>1. Undisturbed
    <3>1. [Next]_vars /\ faults \in Nat
      BY StepRefines DEF FInv, RInv, QInv, TypeOK
    <3>2. faults' = faults \/ faults' = faults + 1
      BY <3>1 DEF Next, ProcessStep, TaskStep, Enqueue, LeaseJob, GiveUp, BeginExecute,
         Heartbeat, EndExecute, FinishJob, FinishLost, Expire, CancelSelect, CancelUpdate,
         Drain, Crash, Exit, Start, vars, Fault
    <3>3. QED
      BY <3>1, <3>2 DEF Undisturbed
  <2>2. ASSUME NEW t \in tasks, t.job = j, At(t, "registered") PROVE FALSE
    BY <2>1, <2>2 DEF FInv, Follows, Following
  <2>3. ASSUME NEW t \in tasks, t.job = j, SaveFinal(t) PROVE exec[j][t.n].res # "running"
    <3>1. t.n \in 1..MaxAttempts
      BY <2>3, TaskIndex DEF FInv, RInv, QInv, SaveFinal, At
    <3>2. exec[j][t.n].res \in RunTerminal
      BY <2>3, <3>1 DEF FInv, RInv, RTypeOK, SaveFinal, At
    <3>3. QED
      BY <3>2 DEF RunTerminal
  <2>4. QED
    BY <2>2, <2>3, RunWrites DEF FInv
<1>2. QED
  BY <1>1, FollowsInvariant, PTL DEF RSpec, FinishedRunsNotRestarted
=============================================================================

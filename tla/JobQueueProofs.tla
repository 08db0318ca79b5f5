--------------------------- MODULE JobQueueProofs ---------------------------
(***************************************************************************)
(* Proofs about JobQueue, for every set of jobs and processes, every limit *)
(* and every number of faults.  TypeOK and AttemptsAreUnique are made      *)
(* inductive by RowsOK, which relates the columns of a row to each other   *)
(* and a cancel in progress to the row it has read.                        *)
(***************************************************************************)
EXTENDS JobQueue, FiniteSetTheorems, TLAPS

USE JobQueueAssumption

LEMMA InitQInv == Init => QInv
BY DEF Init, QInv, TypeOK, AttemptsAreUnique, RowsOK, Row, Status, Terminal, Lease, Task, Cancel

\* Every UPDATE of the store turns a row into a row.
LEMMA RowUpdates ==
  ASSUME NEW r \in Row, NEW s \in Status, NEW l \in Lease, NEW n \in Nat
  PROVE  /\ [r EXCEPT !.status = s, !.created = n] \in Row
         /\ [r EXCEPT !.status = s, !.lease = l] \in Row
         /\ [r EXCEPT !.cancel = TRUE, !.status = s] \in Row
         /\ [r EXCEPT !.lease = l] \in Row
         /\ \A w \in Workers :
              [r EXCEPT !.status = s, !.owner = w, !.lease = l, !.attempts = n] \in Row
<1>1. [r EXCEPT !.status = s, !.created = n] \in Row
  BY DEF Row
<1>2. [r EXCEPT !.status = s, !.lease = l] \in Row
  BY DEF Row
<1>3. [r EXCEPT !.cancel = TRUE, !.status = s] \in Row
  BY DEF Row
<1>4. [r EXCEPT !.lease = l] \in Row
  BY DEF Row
<1>5. ASSUME NEW w \in Workers
      PROVE  [r EXCEPT !.status = s, !.owner = w, !.lease = l, !.attempts = n] \in Row
  BY DEF Row
<1>6. QED
  BY <1>1, <1>2, <1>3, <1>4, <1>5

\* Every step of a task leaves a task.
LEMMA TaskUpdates ==
  ASSUME NEW t \in Task, NEW s \in Terminal
  PROVE  /\ [t EXCEPT !.phase = "executing", !.heart = TRUE] \in Task
         /\ [t EXCEPT !.heart = FALSE] \in Task
         /\ [t EXCEPT !.phase = "finishing", !.heart = FALSE, !.outcome = s] \in Task
BY DEF Task

LEMMA StatusValues ==
  /\ {"queued", "running", "completed", "failed", "cancelled"} \subseteq Status
  /\ Terminal \subseteq Status /\ "failed" \in Terminal
  /\ {"none", "live", "expired"} \subseteq Lease
BY DEF Status, Terminal, Lease

\* TypeOK is inductive: no action needs more than the types of its operands.
LEMMA TypeStep == TypeOK /\ [Next]_vars => TypeOK'
<1> SUFFICES ASSUME TypeOK, [Next]_vars PROVE TypeOK'
  OBVIOUS
<1>a. /\ \A j \in Jobs : jobs[j] \in Row
      /\ \A t \in tasks : t \in Task /\ t.job \in Jobs /\ t.worker \in Workers
      /\ \A c \in cancels : c.job \in Jobs
  BY DEF TypeOK, Task, Cancel
<1>b. \A j \in Jobs : jobs[j].status \in Status /\ jobs[j].attempts \in Nat
  BY <1>a DEF Row
<1>1. ASSUME NEW w \in Workers, NEW j \in Jobs, Enqueue(w, j) PROVE TypeOK'
  <2>1. inserted + 1 \in Nat
    BY DEF TypeOK
  <2>2. [jobs[j] EXCEPT !.status = "queued", !.created = inserted + 1] \in Row
    BY <1>a, <2>1, RowUpdates, StatusValues
  <2>3. jobs' \in [Jobs -> Row]
    BY <1>1, <2>2 DEF Enqueue, TypeOK
  <2>4. QED
    BY <1>1, <2>1, <2>3 DEF Enqueue, TypeOK
<1>2. ASSUME NEW w \in Workers, NEW j \in Jobs, LeaseJob(w, j) PROVE TypeOK'
  <2>1. jobs[j].attempts + 1 \in Nat \ {0}
    BY <1>b
  <2>2. [jobs[j] EXCEPT !.status = "running", !.owner = w, !.lease = "live",
                        !.attempts = jobs[j].attempts + 1] \in Row
    BY <1>a, <2>1, RowUpdates, StatusValues
  <2>3. jobs' \in [Jobs -> Row]
    BY <1>2, <2>2 DEF LeaseJob, Claim, TypeOK
  <2> DEFINE new == [job |-> j, n |-> jobs[j].attempts + 1, worker |-> w,
                     phase |-> "leased", heart |-> FALSE, outcome |-> "none"]
  <2>4. new \in Task /\ new.phase = "leased"
    BY <2>1 DEF Task
  <2>5. tasks' = tasks \cup {new}
    BY <1>2 DEF LeaseJob
  <2>6. permits' \in [Workers -> Nat]
    BY <1>2 DEF LeaseJob, MayLease, TypeOK
  <2> HIDE DEF new
  <2>7. QED
    BY <1>2, <2>3, <2>4, <2>5, <2>6 DEF LeaseJob, TypeOK
<1>3. ASSUME NEW w \in Workers, NEW j \in Jobs, CancelSelect(w, j) PROVE TypeOK'
  <2>1. [worker |-> w, job |-> j, sawQueued |-> jobs[j].status = "queued"] \in Cancel
    BY DEF Cancel
  <2>2. QED
    BY <1>3, <2>1 DEF CancelSelect, TypeOK
<1>4. ASSUME NEW t \in tasks, NEW s \in Terminal, FinishRow(t.job, s)
      PROVE  jobs' \in [Jobs -> Row]
  <2>1. [jobs[t.job] EXCEPT !.status = s, !.lease = "none"] \in Row
    BY <1>a, RowUpdates, StatusValues
  <2>2. QED
    BY <1>4, <1>a, <2>1 DEF FinishRow, TypeOK
<1>5. ASSUME NEW t \in tasks, ReleasePermit(t) PROVE permits' \in [Workers -> Nat]
  BY <1>5, <1>a DEF ReleasePermit, TypeOK
<1>6. ASSUME NEW t \in tasks, GiveUp(t) PROVE TypeOK'
  BY <1>6, <1>4, <1>5, StatusValues DEF GiveUp, TypeOK
<1>7. ASSUME NEW t \in tasks, BeginExecute(t) PROVE TypeOK'
  <2> DEFINE new == [t EXCEPT !.phase = "executing", !.heart = TRUE]
  <2>1. new \in Task /\ new.phase = "executing"
    BY <1>a, TaskUpdates, StatusValues DEF Task
  <2>2. tasks' = (tasks \ {t}) \cup {new}
    BY <1>7 DEF BeginExecute
  <2> HIDE DEF new
  <2>3. QED
    BY <1>7, <2>1, <2>2 DEF BeginExecute, TypeOK
<1>8. ASSUME NEW t \in tasks, Heartbeat(t) PROVE TypeOK'
  <2>1. [jobs[t.job] EXCEPT !.lease = "live"] \in Row
    BY <1>a, RowUpdates, StatusValues
  <2>2. jobs' \in [Jobs -> Row]
    BY <1>8, <1>a, <2>1 DEF Heartbeat, TypeOK
  <2>3. [t EXCEPT !.heart = FALSE] \in Task
    BY <1>a, TaskUpdates, StatusValues
  <2>4. [t EXCEPT !.heart = FALSE].phase = t.phase /\ [t EXCEPT !.heart = FALSE].outcome = t.outcome
    BY <1>a DEF Task
  <2>5. tasks' \subseteq Task /\ \A u \in tasks' : u.phase = "finishing" => u.outcome \in Terminal
    BY <1>8, <2>3, <2>4 DEF Heartbeat, TypeOK
  <2>6. QED
    BY <1>8, <2>2, <2>5 DEF Heartbeat, TypeOK
<1>9. ASSUME NEW t \in tasks, NEW s \in Terminal, EndExecute(t, s) PROVE TypeOK'
  <2> DEFINE new == [t EXCEPT !.phase = "finishing", !.heart = FALSE, !.outcome = s]
  <2>1. new \in Task /\ new.outcome = s
    BY <1>a, TaskUpdates, StatusValues DEF Task
  <2>2. tasks' = (tasks \ {t}) \cup {new}
    BY <1>9 DEF EndExecute
  <2> HIDE DEF new
  <2>3. QED
    BY <1>9, <2>1, <2>2 DEF EndExecute, TypeOK
<1>10. ASSUME NEW t \in tasks, FinishJob(t) PROVE TypeOK'
  BY <1>10, <1>4, <1>5 DEF FinishJob, TypeOK
<1>11. ASSUME NEW t \in tasks, FinishLost(t) PROVE TypeOK'
  BY <1>11, <1>5 DEF FinishLost, Fault, TypeOK
<1>12. ASSUME NEW c \in cancels, CancelUpdate(c) PROVE TypeOK'
  <2>1. [jobs[c.job] EXCEPT !.cancel = TRUE,
                            !.status = IF c.sawQueued THEN "cancelled"
                                         ELSE jobs[c.job].status] \in Row
    BY <1>a, <1>b, RowUpdates, StatusValues
  <2>2. QED
    BY <1>12, <1>a, <2>1 DEF CancelUpdate, TypeOK
<1>13. ASSUME NEW j \in Jobs, Expire(j) PROVE TypeOK'
  <2>1. [jobs[j] EXCEPT !.lease = "expired"] \in Row
    BY <1>a, RowUpdates, StatusValues
  <2>2. QED
    BY <1>13, <2>1 DEF Expire, Fault, TypeOK
<1>14. ASSUME NEW w \in Workers, Drain(w) \/ Crash(w) \/ Exit(w) \/ Start(w)
       PROVE TypeOK'
  BY <1>14 DEF Drain, Crash, Exit, Start, Die, Fault, TypeOK
<1>15. CASE UNCHANGED vars
  BY <1>15 DEF vars, TypeOK
<1>16. QED
  BY <1>1, <1>2, <1>3, <1>6, <1>7, <1>8, <1>9, <1>10, <1>11, <1>12, <1>13, <1>14, <1>15
     DEF Next, ProcessStep, TaskStep
-----------------------------------------------------------------------------
(* What each UPDATE does to the columns that RowsOK speaks of. *)

LEMMA EnqueueEffect ==
  ASSUME TypeOK, NEW w \in Workers, NEW j \in Jobs, Enqueue(w, j)
  PROVE  /\ jobs[j].status = "absent" /\ jobs'[j].status = "queued"
         /\ jobs'[j].created = inserted + 1 /\ inserted' = inserted + 1
         /\ jobs'[j].attempts = jobs[j].attempts /\ jobs'[j].cancel = jobs[j].cancel
         /\ jobs'[j].lease = jobs[j].lease /\ jobs'[j].owner = jobs[j].owner
         /\ \A i \in Jobs \ {j} : jobs'[i] = jobs[i]
BY DEF Enqueue, TypeOK, Row

LEMMA LeaseEffect ==
  ASSUME TypeOK, NEW w \in Workers, NEW j \in Jobs, LeaseJob(w, j)
  PROVE  /\ jobs[j].status \in {"queued", "running"} /\ ~jobs[j].cancel
         /\ jobs[j].status = "running" => jobs[j].lease = "expired"
         /\ jobs'[j].status = "running" /\ jobs'[j].lease = "live" /\ jobs'[j].owner = w
         /\ jobs'[j].created = jobs[j].created /\ jobs'[j].cancel = jobs[j].cancel
         /\ jobs'[j].attempts = jobs[j].attempts + 1
         /\ \A i \in Jobs \ {j} : jobs'[i] = jobs[i]
BY DEF LeaseJob, Claim, Leasable, TypeOK, Row

LEMMA FinishEffect ==
  ASSUME TypeOK, NEW j \in Jobs, NEW s \in Terminal, FinishRow(j, s)
  PROVE  /\ jobs'[j].status \in Terminal /\ jobs'[j].lease = "none"
         /\ jobs'[j].created = jobs[j].created /\ jobs'[j].cancel = jobs[j].cancel
         /\ jobs'[j].attempts = jobs[j].attempts /\ jobs'[j].owner = jobs[j].owner
         /\ \A i \in Jobs \ {j} : jobs'[i] = jobs[i]
BY DEF FinishRow, TypeOK, Row

LEMMA CancelEffect ==
  ASSUME TypeOK, NEW c \in cancels, CancelUpdate(c)
  PROVE  /\ c.job \in Jobs /\ jobs'[c.job].cancel = TRUE
         /\ jobs'[c.job].status = IF c.sawQueued THEN "cancelled" ELSE jobs[c.job].status
         /\ jobs'[c.job].created = jobs[c.job].created
         /\ jobs'[c.job].attempts = jobs[c.job].attempts
         /\ jobs'[c.job].lease = jobs[c.job].lease /\ jobs'[c.job].owner = jobs[c.job].owner
         /\ \A i \in Jobs \ {c.job} : jobs'[i] = jobs[i]
BY DEF CancelUpdate, TypeOK, Row, Cancel

\* Heartbeats and expiry move the lease and nothing else.
OnlyLease(j) ==
  /\ jobs'[j].status = jobs[j].status /\ jobs'[j].cancel = jobs[j].cancel
  /\ jobs'[j].created = jobs[j].created /\ jobs'[j].attempts = jobs[j].attempts
  /\ jobs'[j].owner = jobs[j].owner
  /\ jobs'[j].lease # jobs[j].lease => jobs'[j].lease \in {"live", "expired"}
  /\ \A i \in Jobs \ {j} : jobs'[i] = jobs[i]

LEMMA HeartbeatEffect ==
  ASSUME TypeOK, NEW t \in tasks, Heartbeat(t)
  PROVE  t.job \in Jobs /\ OnlyLease(t.job)
BY DEF Heartbeat, OnlyLease, TypeOK, Row, Task

LEMMA ExpireEffect ==
  ASSUME TypeOK, NEW j \in Jobs, Expire(j)
  PROVE  OnlyLease(j) /\ jobs'[j].lease = "expired"
BY DEF Expire, OnlyLease, TypeOK, Row

\* The steps that leave the table, the rank counter and the cancels alone.
LEMMA QuietSteps ==
  /\ \A t \in tasks : BeginExecute(t) \/ FinishLost(t) => UNCHANGED <<jobs, inserted, cancels>>
  /\ \A t \in tasks, s \in Terminal : EndExecute(t, s) => UNCHANGED <<jobs, inserted, cancels>>
  /\ \A w \in Workers : Drain(w) \/ Start(w) => UNCHANGED <<jobs, inserted, cancels>>
  /\ \A w \in Workers : Crash(w) \/ Exit(w) =>
       UNCHANGED <<jobs, inserted>> /\ cancels' \subseteq cancels
BY DEF BeginExecute, FinishLost, EndExecute, Drain, Start, Crash, Exit, Die

LEMMA RowsStep == QInv /\ [Next]_vars => RowsOK'
<1> SUFFICES ASSUME TypeOK, AttemptsAreUnique, RowsOK, [Next]_vars PROVE RowsOK'
  BY DEF QInv
<1>b. \A t \in tasks : jobs[t.job].status # "absent"
  BY DEF TypeOK, Task, Row, AttemptsAreUnique, RowsOK
<1>a. /\ inserted \in Nat
      /\ \A j \in Jobs : jobs[j].created \in Nat /\ jobs[j].attempts \in Nat
      /\ \A t \in tasks : t.job \in Jobs
      /\ \A c \in cancels : c.job \in Jobs
  BY DEF TypeOK, Row, Task, Cancel
<1>1. ASSUME NEW w \in Workers, NEW j \in Jobs, Enqueue(w, j) PROVE RowsOK'
  <2>1. cancels' = cancels
    BY <1>1 DEF Enqueue
  <2>2. QED
    BY <1>1, <1>a, <2>1, EnqueueEffect DEF RowsOK
<1>2. ASSUME NEW w \in Workers, NEW j \in Jobs, LeaseJob(w, j) PROVE RowsOK'
  <2>1. UNCHANGED <<cancels, inserted>>
    BY <1>2 DEF LeaseJob
  <2>2. QED
    BY <1>2, <1>a, <2>1, LeaseEffect DEF RowsOK
<1>3. ASSUME NEW w \in Workers, NEW j \in Jobs, CancelSelect(w, j) PROVE RowsOK'
  <2> DEFINE new == [worker |-> w, job |-> j, sawQueued |-> jobs[j].status = "queued"]
  <2>1. new.job = j /\ (~new.sawQueued => jobs[j].status # "queued")
    OBVIOUS
  <2>2. /\ UNCHANGED <<jobs, inserted>> /\ cancels' = cancels \cup {new}
        /\ jobs[j].status # "absent"
    BY <1>3 DEF CancelSelect
  <2> HIDE DEF new
  <2>3. QED
    BY <2>1, <2>2 DEF RowsOK
<1>4. ASSUME NEW j \in Jobs, NEW s \in Terminal, FinishRow(j, s),
             jobs[j].status # "absent", UNCHANGED <<inserted, cancels>>
      PROVE  RowsOK'
  BY <1>4, <1>a, FinishEffect DEF RowsOK, Terminal
<1>5. ASSUME NEW t \in tasks, GiveUp(t) \/ FinishJob(t) PROVE RowsOK'
  BY <1>5, <1>4, <1>a, <1>b, StatusValues DEF GiveUp, FinishJob, TypeOK
<1>6. ASSUME NEW j \in Jobs, OnlyLease(j), UNCHANGED <<inserted, cancels>>
      PROVE  RowsOK'
  BY <1>6, <1>a DEF OnlyLease, RowsOK
<1>7. ASSUME NEW t \in tasks, Heartbeat(t) PROVE RowsOK'
  BY <1>7, <1>6, HeartbeatEffect DEF Heartbeat
<1>8. ASSUME NEW j \in Jobs, Expire(j) PROVE RowsOK'
  BY <1>8, <1>6, ExpireEffect DEF Expire
<1>9. ASSUME NEW c \in cancels, CancelUpdate(c) PROVE RowsOK'
  <2>1. inserted' = inserted /\ cancels' \subseteq cancels
    BY <1>9 DEF CancelUpdate
  <2>2. /\ c.job \in Jobs /\ jobs[c.job].status # "absent"
        /\ \/ jobs'[c.job].status = "cancelled"
           \/ jobs'[c.job].status = jobs[c.job].status /\ jobs[c.job].status # "queued"
    BY <1>9, <1>a, CancelEffect DEF RowsOK
  <2>3. \A i \in Jobs : /\ jobs'[i].status = "absent" <=> jobs[i].status = "absent"
                        /\ jobs'[i].status = "queued" => i # c.job /\ jobs[i].status = "queued"
                        /\ jobs'[i].status = "running" => jobs[i].status = "running"
                        /\ i # c.job => jobs'[i] = jobs[i]
                        /\ jobs'[i].created = jobs[i].created
                        /\ jobs'[i].attempts = jobs[i].attempts
                        /\ jobs'[i].lease = jobs[i].lease
    BY <1>9, <2>2, CancelEffect
  <2>4. QED
    BY <1>a, <2>1, <2>2, <2>3 DEF RowsOK
<1>10. ASSUME UNCHANGED <<jobs, inserted>>, cancels' \subseteq cancels PROVE RowsOK'
  BY <1>10 DEF RowsOK
<1>11. QED
  BY <1>1, <1>2, <1>3, <1>5, <1>7, <1>8, <1>9, <1>10, QuietSteps
     DEF Next, ProcessStep, TaskStep, vars
-----------------------------------------------------------------------------
\* A step that replaces at most one task, without changing its attempt, and
\* writes neither lease_owner nor attempts keeps the attempts unique.
LEMMA KeepsAttempts ==
  ASSUME TypeOK, AttemptsAreUnique, NEW t \in tasks, NEW new,
         new.job = t.job, new.n = t.n, new.worker = t.worker,
         tasks' \subseteq (tasks \ {t}) \cup {new} \/ tasks' \subseteq tasks,
         \A j \in Jobs : jobs'[j].owner = jobs[j].owner /\ jobs'[j].attempts = jobs[j].attempts
  PROVE  AttemptsAreUnique'
<1>1. \A u \in tasks : u.job \in Jobs
  BY DEF TypeOK, Task
<1>2. CASE tasks' \subseteq tasks
  BY <1>1, <1>2 DEF AttemptsAreUnique
<1>3. CASE tasks' \subseteq (tasks \ {t}) \cup {new}
  <2>1. \A u \in tasks' : u.job \in Jobs
    BY <1>1, <1>3
  <2>2. ASSUME NEW u \in tasks' PROVE /\ u.n <= jobs'[u.job].attempts
                                      /\ u.n = jobs'[u.job].attempts => u.worker = jobs'[u.job].owner
    BY <1>1, <1>3 DEF AttemptsAreUnique
  <2>3. ASSUME NEW u \in tasks', NEW v \in tasks', u.job = v.job, u.n = v.n PROVE u = v
    BY <1>1, <1>3, <2>3 DEF AttemptsAreUnique
  <2>4. QED
    BY <2>2, <2>3 DEF AttemptsAreUnique
<1>4. QED
  BY <1>2, <1>3

LEMMA AttemptsStep == QInv /\ [Next]_vars => AttemptsAreUnique'
<1> SUFFICES ASSUME TypeOK, AttemptsAreUnique, RowsOK, [Next]_vars PROVE AttemptsAreUnique'
  BY DEF QInv
<1>a. /\ \A j \in Jobs : jobs[j].attempts \in Nat
      /\ \A t \in tasks : t \in Task /\ t.job \in Jobs /\ t.n \in Nat
  BY DEF TypeOK, Row, Task
<1> DEFINE Same == \A j \in Jobs : /\ jobs'[j].owner = jobs[j].owner
                                  /\ jobs'[j].attempts = jobs[j].attempts
<1>b. ASSUME Same, tasks' \subseteq tasks PROVE AttemptsAreUnique'
  BY <1>a, <1>b DEF AttemptsAreUnique
<1>1. ASSUME NEW w \in Workers, NEW j \in Jobs, Enqueue(w, j) PROVE AttemptsAreUnique'
  <2>1. Same
    BY <1>1, EnqueueEffect
  <2>2. QED
    BY <1>1, <1>b, <2>1 DEF Enqueue
<1>2. ASSUME NEW w \in Workers, NEW j \in Jobs, LeaseJob(w, j) PROVE AttemptsAreUnique'
  <2> DEFINE new == [job |-> j, n |-> jobs[j].attempts + 1, worker |-> w,
                     phase |-> "leased", heart |-> FALSE, outcome |-> "none"]
  <2>1. new.job = j /\ new.n = jobs[j].attempts + 1 /\ new.worker = w
    OBVIOUS
  <2>2. tasks' = tasks \cup {new}
    BY <1>2 DEF LeaseJob
  <2> HIDE DEF new
  <2>3. \A t \in tasks : t.job = j => t.n < jobs'[j].attempts
    BY <1>2, <1>a, LeaseEffect DEF AttemptsAreUnique
  <2>4. ASSUME NEW t \in tasks', NEW u \in tasks', t.job = u.job, t.n = u.n PROVE t = u
    BY <1>2, <1>a, <2>1, <2>2, <2>3, <2>4, LeaseEffect DEF AttemptsAreUnique
  <2>5. ASSUME NEW t \in tasks' PROVE /\ t.n <= jobs'[t.job].attempts
                                      /\ t.n = jobs'[t.job].attempts => t.worker = jobs'[t.job].owner
    BY <1>2, <1>a, <2>1, <2>2, <2>3, LeaseEffect DEF AttemptsAreUnique
  <2>6. QED
    BY <2>4, <2>5 DEF AttemptsAreUnique
<1>3. ASSUME NEW w \in Workers, NEW j \in Jobs, CancelSelect(w, j) PROVE AttemptsAreUnique'
  BY <1>3, <1>b DEF CancelSelect
<1>4. ASSUME NEW t \in tasks, GiveUp(t) \/ FinishJob(t) PROVE AttemptsAreUnique'
  <2>1. \E s \in Terminal : FinishRow(t.job, s)
    BY <1>4, StatusValues DEF GiveUp, FinishJob, TypeOK
  <2>2. Same
    BY <1>a, <2>1, FinishEffect
  <2>3. QED
    BY <1>4, <1>b, <2>2 DEF GiveUp, FinishJob
<1>5. ASSUME NEW t \in tasks, BeginExecute(t) PROVE AttemptsAreUnique'
  <2> DEFINE new == [t EXCEPT !.phase = "executing", !.heart = TRUE]
  <2>1. new.job = t.job /\ new.n = t.n /\ new.worker = t.worker
    BY <1>a DEF Task
  <2>2. tasks' = (tasks \ {t}) \cup {new} /\ jobs' = jobs
    BY <1>5 DEF BeginExecute
  <2> HIDE DEF new
  <2>3. QED
    BY <2>1, <2>2, KeepsAttempts
<1>6. ASSUME NEW t \in tasks, Heartbeat(t) PROVE AttemptsAreUnique'
  <2> DEFINE new == [t EXCEPT !.heart = FALSE]
  <2>1. new.job = t.job /\ new.n = t.n /\ new.worker = t.worker
    BY <1>a DEF Task
  <2>2. tasks' = (tasks \ {t}) \cup {new} \/ tasks' = tasks
    BY <1>6 DEF Heartbeat
  <2>3. Same
    BY <1>6, HeartbeatEffect DEF OnlyLease
  <2> HIDE DEF new
  <2>4. QED
    BY <2>1, <2>2, <2>3, KeepsAttempts
<1>7. ASSUME NEW t \in tasks, NEW s \in Terminal, EndExecute(t, s) PROVE AttemptsAreUnique'
  <2> DEFINE new == [t EXCEPT !.phase = "finishing", !.heart = FALSE, !.outcome = s]
  <2>1. new.job = t.job /\ new.n = t.n /\ new.worker = t.worker
    BY <1>a DEF Task
  <2>2. tasks' = (tasks \ {t}) \cup {new} /\ jobs' = jobs
    BY <1>7 DEF EndExecute
  <2> HIDE DEF new
  <2>3. QED
    BY <2>1, <2>2, KeepsAttempts
<1>8. ASSUME NEW t \in tasks, FinishLost(t) PROVE AttemptsAreUnique'
  BY <1>8, <1>b DEF FinishLost
<1>9. ASSUME NEW c \in cancels, CancelUpdate(c) PROVE AttemptsAreUnique'
  <2>1. Same
    BY <1>9, CancelEffect
  <2>2. QED
    BY <1>9, <1>b, <2>1 DEF CancelUpdate
<1>10. ASSUME NEW j \in Jobs, Expire(j) PROVE AttemptsAreUnique'
  <2>1. Same
    BY <1>10, ExpireEffect DEF OnlyLease
  <2>2. QED
    BY <1>10, <1>b, <2>1 DEF Expire
<1>11. ASSUME NEW w \in Workers, Drain(w) \/ Crash(w) \/ Exit(w) \/ Start(w)
       PROVE AttemptsAreUnique'
  BY <1>11, <1>b DEF Drain, Crash, Exit, Start, Die
<1>12. CASE UNCHANGED vars
  BY <1>12, <1>b DEF vars
<1>13. QED
  BY <1>1, <1>2, <1>3, <1>4, <1>5, <1>6, <1>7, <1>8, <1>9, <1>10, <1>11, <1>12
     DEF Next, ProcessStep, TaskStep
-----------------------------------------------------------------------------
\* The table, the tasks and the calls in progress keep their shape, every
\* attempt is held by one task, and the columns of a row agree: in every
\* reachable state, for any number of jobs, processes and faults.
THEOREM QueueInvariant == Spec => []QInv
<1>1. QInv /\ [Next]_vars => QInv'
  BY TypeStep, RowsStep, AttemptsStep DEF QInv
<1>2. QED
  BY <1>1, InitQInv, PTL DEF Spec

\* Type correctness of the job queue.
THEOREM TypeCorrect == Spec => []TypeOK
BY QueueInvariant, PTL DEF QInv

\* The columns of a row agree with each other and with a cancel in progress.
THEOREM RowsConsistent == Spec => []RowsOK
BY QueueInvariant, PTL DEF QInv

\* No attempt of a job is ever held by two tasks, and the task of the last
\* attempt runs in the process that owns the lease.
THEOREM AttemptUniqueness == Spec => []AttemptsAreUnique
BY QueueInvariant, PTL DEF QInv

-----------------------------------------------------------------------------
(***************************************************************************)
(* Exclusive execution.  ExclusiveWithoutFaults is not inductive: that no  *)
(* second lease is handed out rests on the lease not having run out, and   *)
(* on every live task being the one of the last attempt.                   *)
(***************************************************************************)
Healthy ==
  faults = 0 => \A t \in tasks : /\ t.n = jobs[t.job].attempts
                                 /\ jobs[t.job].lease # "expired"

\* Replacing a task by one of the same attempt keeps the leases healthy.
LEMMA KeepsHealthy ==
  ASSUME TypeOK, Healthy, faults' = faults, NEW t \in tasks, NEW new,
         new.job = t.job, new.n = t.n,
         tasks' \subseteq (tasks \ {t}) \cup {new} \/ tasks' \subseteq tasks,
         \A j \in Jobs : /\ jobs'[j].attempts = jobs[j].attempts
                         /\ jobs'[j].lease = "expired" => jobs[j].lease = "expired"
  PROVE  Healthy'
BY DEF TypeOK, Task, Healthy

LEMMA HealthyStep == QInv /\ Healthy /\ [Next]_vars => Healthy'
<1> SUFFICES ASSUME TypeOK, AttemptsAreUnique, RowsOK, Healthy, [Next]_vars, faults' = 0
             PROVE  Healthy'
  BY DEF QInv, Healthy
<1>a. /\ \A j \in Jobs : jobs[j].attempts \in Nat
      /\ \A t \in tasks : t \in Task /\ t.job \in Jobs /\ t.n \in Nat \ {0}
      /\ faults \in Nat
  BY DEF TypeOK, Row, Task
<1>b. ASSUME UNCHANGED faults, tasks' \subseteq tasks,
             \A i \in Jobs : /\ jobs'[i].attempts = jobs[i].attempts
                             /\ jobs'[i].lease = "expired" => jobs[i].lease = "expired"
      PROVE  Healthy'
  BY <1>a, <1>b DEF Healthy
<1>c. ~Fault
  BY <1>a DEF Fault
<1>1. ASSUME NEW w \in Workers, NEW j \in Jobs, Enqueue(w, j) PROVE Healthy'
  <2>1. UNCHANGED <<tasks, faults>>
    BY <1>1 DEF Enqueue
  <2>2. QED
    BY <1>1, <1>b, <2>1, EnqueueEffect
<1>2. ASSUME NEW w \in Workers, NEW j \in Jobs, LeaseJob(w, j) PROVE Healthy'
  <2>1. \A t \in tasks : t.job # j
    BY <1>2, <1>a, LeaseEffect DEF LeaseJob, AttemptsAreUnique, RowsOK, Healthy
  <2> DEFINE new == [job |-> j, n |-> jobs[j].attempts + 1, worker |-> w,
                     phase |-> "leased", heart |-> FALSE, outcome |-> "none"]
  <2>2. tasks' = tasks \cup {new} /\ UNCHANGED faults
    BY <1>2 DEF LeaseJob
  <2>3. new.job = j /\ new.n = jobs[j].attempts + 1
    OBVIOUS
  <2> HIDE DEF new
  <2>4. QED
    BY <1>2, <1>a, <2>1, <2>2, <2>3, LeaseEffect DEF Healthy
<1>3. ASSUME NEW w \in Workers, NEW j \in Jobs, CancelSelect(w, j) PROVE Healthy'
  BY <1>3, <1>b DEF CancelSelect
<1>4. ASSUME NEW t \in tasks, GiveUp(t) \/ FinishJob(t) PROVE Healthy'
  <2>1. \E s \in Terminal : FinishRow(t.job, s)
    BY <1>4, StatusValues DEF GiveUp, FinishJob, TypeOK
  <2>2. tasks' \subseteq tasks /\ UNCHANGED faults
    BY <1>4 DEF GiveUp, FinishJob
  <2>3. QED
    BY <1>a, <1>b, <2>1, <2>2, FinishEffect
<1>5. ASSUME NEW t \in tasks, BeginExecute(t) PROVE Healthy'
  <2> DEFINE new == [t EXCEPT !.phase = "executing", !.heart = TRUE]
  <2>1. new.job = t.job /\ new.n = t.n
    BY <1>a DEF Task
  <2>2. tasks' = (tasks \ {t}) \cup {new} /\ UNCHANGED <<jobs, faults>>
    BY <1>5 DEF BeginExecute
  <2> HIDE DEF new
  <2>3. QED
    BY <2>1, <2>2, KeepsHealthy
<1>6. ASSUME NEW t \in tasks, Heartbeat(t) PROVE Healthy'
  <2> DEFINE new == [t EXCEPT !.heart = FALSE]
  <2>1. new.job = t.job /\ new.n = t.n
    BY <1>a DEF Task
  <2>2. (tasks' = (tasks \ {t}) \cup {new} \/ tasks' = tasks) /\ UNCHANGED faults
    BY <1>6 DEF Heartbeat
  <2>3. \A j \in Jobs : /\ jobs'[j].attempts = jobs[j].attempts
                        /\ jobs'[j].lease = "expired" => jobs[j].lease = "expired"
    BY <1>6, <1>a DEF Heartbeat, TypeOK, Row
  <2> HIDE DEF new
  <2>4. QED
    BY <2>1, <2>2, <2>3, KeepsHealthy
<1>7. ASSUME NEW t \in tasks, NEW s \in Terminal, EndExecute(t, s) PROVE Healthy'
  <2> DEFINE new == [t EXCEPT !.phase = "finishing", !.heart = FALSE, !.outcome = s]
  <2>1. new.job = t.job /\ new.n = t.n
    BY <1>a DEF Task
  <2>2. tasks' = (tasks \ {t}) \cup {new} /\ UNCHANGED <<jobs, faults>>
    BY <1>7 DEF EndExecute
  <2> HIDE DEF new
  <2>3. QED
    BY <2>1, <2>2, KeepsHealthy
<1>8. ASSUME NEW t \in tasks, FinishLost(t) PROVE Healthy'
  BY <1>8, <1>c DEF FinishLost
<1>9. ASSUME NEW c \in cancels, CancelUpdate(c) PROVE Healthy'
  <2>1. UNCHANGED <<tasks, faults>>
    BY <1>9 DEF CancelUpdate
  <2>2. QED
    BY <1>9, <1>b, <2>1, CancelEffect
<1>10. ASSUME NEW j \in Jobs, Expire(j) PROVE Healthy'
  <2>1. ~CurrentTaskAlive(j) /\ UNCHANGED <<tasks, faults>>
    BY <1>10, <1>c DEF Expire
  <2>2. \A t \in tasks : t.job # j
    BY <2>1 DEF CurrentTaskAlive, Healthy
  <2>3. QED
    BY <1>10, <1>a, <2>1, <2>2, ExpireEffect DEF OnlyLease, Healthy
<1>11. ASSUME NEW w \in Workers, Drain(w) \/ Crash(w) \/ Exit(w) \/ Start(w) PROVE Healthy'
  BY <1>11, <1>b, <1>c DEF Drain, Crash, Exit, Start, Die
<1>12. CASE UNCHANGED vars
  BY <1>12, <1>b DEF vars
<1>13. QED
  BY <1>1, <1>2, <1>3, <1>4, <1>5, <1>6, <1>7, <1>8, <1>9, <1>10, <1>11, <1>12
     DEF Next, ProcessStep, TaskStep

\* As long as nothing failed, no job has two tasks.
THEOREM Exclusive == Spec => []ExclusiveWithoutFaults
<1>1. Init => Healthy
  BY DEF Init, Healthy
<1>2. QInv /\ Healthy => ExclusiveWithoutFaults
  BY DEF QInv, AttemptsAreUnique, Healthy, ExclusiveWithoutFaults
<1>3. QED
  BY <1>1, <1>2, QueueInvariant, HealthyStep, PTL DEF Spec
-----------------------------------------------------------------------------
(***************************************************************************)
(* The limit on attempts.  A task executes only within it, and attempts    *)
(* are numbered, so the executions of a job can be counted by their number. *)
(***************************************************************************)
Limited == \A t \in tasks : t.phase # "leased" => t.n \in 1..MaxAttempts

LEMMA LimitedStep == QInv /\ Limited /\ [Next]_vars => Limited'
<1> SUFFICES ASSUME TypeOK, Limited, [Next]_vars PROVE Limited'
  BY DEF QInv
<1>a. \A t \in tasks : t \in Task /\ t.n \in Nat \ {0}
  BY DEF TypeOK, Task
<1>b. ASSUME tasks' \subseteq tasks PROVE Limited'
  BY <1>b DEF Limited
<1>1. ASSUME NEW w \in Workers, NEW j \in Jobs, LeaseJob(w, j) PROVE Limited'
  BY <1>1 DEF LeaseJob, Limited
<1>2. ASSUME NEW t \in tasks, BeginExecute(t) PROVE Limited'
  <2> DEFINE new == [t EXCEPT !.phase = "executing", !.heart = TRUE]
  <2>1. new.n = t.n /\ t.n \in 1..MaxAttempts
    BY <1>2, <1>a DEF Task, BeginExecute, Executable, WithinLimit
  <2>2. tasks' = (tasks \ {t}) \cup {new}
    BY <1>2 DEF BeginExecute
  <2> HIDE DEF new
  <2>3. QED
    BY <2>1, <2>2 DEF Limited
<1>3. ASSUME NEW t \in tasks, Heartbeat(t) PROVE Limited'
  <2> DEFINE new == [t EXCEPT !.heart = FALSE]
  <2>1. new.n = t.n /\ new.phase = t.phase
    BY <1>a DEF Task
  <2>2. tasks' = (tasks \ {t}) \cup {new} \/ tasks' = tasks
    BY <1>3 DEF Heartbeat
  <2> HIDE DEF new
  <2>3. QED
    BY <2>1, <2>2 DEF Limited
<1>4. ASSUME NEW t \in tasks, NEW s \in Terminal, EndExecute(t, s) PROVE Limited'
  <2> DEFINE new == [t EXCEPT !.phase = "finishing", !.heart = FALSE, !.outcome = s]
  <2>1. new.n = t.n /\ t.n \in 1..MaxAttempts
    BY <1>4, <1>a DEF Task, EndExecute, Limited
  <2>2. tasks' = (tasks \ {t}) \cup {new}
    BY <1>4 DEF EndExecute
  <2> HIDE DEF new
  <2>3. QED
    BY <2>1, <2>2 DEF Limited
<1>5. ASSUME \/ \E w \in Workers, j \in Jobs : Enqueue(w, j) \/ CancelSelect(w, j)
             \/ \E t \in tasks : GiveUp(t) \/ FinishJob(t) \/ FinishLost(t)
             \/ \E c \in cancels : CancelUpdate(c)
             \/ \E j \in Jobs : Expire(j)
             \/ \E w \in Workers : Drain(w) \/ Crash(w) \/ Exit(w) \/ Start(w)
             \/ UNCHANGED vars
      PROVE  Limited'
  BY <1>5, <1>b DEF Enqueue, CancelSelect, GiveUp, FinishJob, FinishLost, CancelUpdate,
     Expire, Drain, Crash, Exit, Start, Die, vars
<1>6. QED
  BY <1>1, <1>2, <1>3, <1>4, <1>5 DEF Next, ProcessStep, TaskStep

\* Distinct executions of a job hold distinct attempts within the limit, so
\* there are no more of them than the limit.
LEMMA CountExecutions ==
  ASSUME QInv, Limited, NEW j \in Jobs
  PROVE  Cardinality({t \in tasks : t.job = j /\ t.phase # "leased"}) <= MaxAttempts
<1> DEFINE E == {t \in tasks : t.job = j /\ t.phase # "leased"}
           number == [t \in E |-> t.n]
<1>1. number \in Injection(E, 1..MaxAttempts)
  BY DEF QInv, AttemptsAreUnique, Limited, Injection, IsInjective
<1>2. IsFiniteSet(1..MaxAttempts) /\ Cardinality(1..MaxAttempts) = MaxAttempts
  <2>1. 1 \in Int /\ MaxAttempts \in Int
    OBVIOUS
  <2>2. Cardinality(1..MaxAttempts) = IF 1 > MaxAttempts THEN 0 ELSE MaxAttempts - 1 + 1
    BY <2>1, FS_Interval
  <2>3. QED
    BY <2>1, <2>2, FS_Interval
<1>3. QED
  BY <1>1, <1>2, FS_Injection

\* No more tasks than the limit ever execute a job, across all processes and
\* crashes, and each of them within it.
THEOREM BoundedExecutions == Spec => []ExecutionsBounded
<1>1. Init => Limited
  BY DEF Init, Limited
<1>2. QInv /\ Limited => ExecutionsBounded
  BY CountExecutions DEF Limited, ExecutionsBounded
<1>3. QED
  BY <1>1, <1>2, QueueInvariant, LimitedStep, PTL DEF Spec
-----------------------------------------------------------------------------
(***************************************************************************)
(* What a step may never do to a row.                                      *)
(***************************************************************************)

\* No statement leads back out of a terminal status or clears the flag, and no
\* lease is given once it is set; only a heartbeat of the owner's process
\* revives a lease without counting a new attempt.
Forward(j) ==
  /\ jobs[j].status \in Terminal => jobs'[j].status \in Terminal
  /\ jobs[j].cancel => jobs'[j].cancel /\ jobs'[j].attempts = jobs[j].attempts
  /\ /\ jobs[j].lease = "expired" /\ jobs'[j].lease = "live"
     /\ jobs'[j].attempts = jobs[j].attempts
     => \E t \in tasks : t.job = j /\ t.heart /\ t.worker = jobs[j].owner

LEMMA ForwardStep == QInv /\ [Next]_vars => \A j \in Jobs : Forward(j)
<1> SUFFICES ASSUME TypeOK, RowsOK, [Next]_vars, NEW i \in Jobs PROVE Forward(i)
  BY DEF QInv
<1>a. /\ \A j \in Jobs : jobs[j].attempts \in Nat /\ jobs[j].status \in Status
      /\ \A t \in tasks : t.job \in Jobs
      /\ "cancelled" \in Terminal
  BY DEF TypeOK, Row, Task, Terminal
<1>b. ASSUME jobs' = jobs PROVE Forward(i)
  BY <1>b DEF Forward
<1>1. ASSUME NEW w \in Workers, NEW j \in Jobs, Enqueue(w, j) PROVE Forward(i)
  BY <1>1, <1>a, EnqueueEffect DEF Forward, Terminal
<1>2. ASSUME NEW w \in Workers, NEW j \in Jobs, LeaseJob(w, j) PROVE Forward(i)
  BY <1>2, <1>a, LeaseEffect DEF Forward, Terminal
<1>3. ASSUME NEW t \in tasks, GiveUp(t) \/ FinishJob(t) PROVE Forward(i)
  <2>1. \E s \in Terminal : FinishRow(t.job, s)
    BY <1>3, StatusValues DEF GiveUp, FinishJob, TypeOK
  <2>2. QED
    BY <1>a, <2>1, FinishEffect DEF Forward
<1>4. ASSUME NEW t \in tasks, Heartbeat(t) PROVE Forward(i)
  <2>1. jobs'[i].lease # jobs[i].lease => t.job = i /\ t.heart /\ t.worker = jobs[i].owner
    BY <1>4, <1>a, HeartbeatEffect DEF Heartbeat, Holds, OnlyLease
  <2>2. QED
    BY <1>4, <1>a, <2>1, HeartbeatEffect DEF Forward, OnlyLease
<1>5. ASSUME NEW c \in cancels, CancelUpdate(c) PROVE Forward(i)
  BY <1>5, <1>a, CancelEffect DEF Forward
<1>6. ASSUME NEW j \in Jobs, Expire(j) PROVE Forward(i)
  BY <1>6, <1>a, ExpireEffect DEF Forward, OnlyLease
<1>7. ASSUME \/ \E w \in Workers, j \in Jobs : CancelSelect(w, j)
             \/ UNCHANGED vars
      PROVE  Forward(i)
  BY <1>7, <1>b DEF CancelSelect, vars
<1>8. QED
  BY <1>1, <1>2, <1>3, <1>4, <1>5, <1>6, <1>7, <1>b, QuietSteps
     DEF Next, ProcessStep, TaskStep

\* No step makes a settled job runnable again.
THEOREM NeverResurrected == Spec => NoResurrection
<1>1. QInv /\ [Next]_vars =>
        [\A j \in Jobs : jobs[j].status \in Terminal => jobs'[j].status \in Terminal]_vars
  BY ForwardStep DEF Forward
<1>2. QED
  BY <1>1, QueueInvariant, PTL DEF Spec, NoResurrection

\* No step leases a job whose cancel has been written, in whichever process.
THEOREM CancelStopsLeases == Spec => NoLeaseAfterCancel
<1>1. QInv /\ [Next]_vars =>
        [\A j \in Jobs : jobs[j].cancel =>
           jobs'[j].cancel /\ jobs'[j].attempts = jobs[j].attempts]_vars
  BY ForwardStep DEF Forward
<1>2. QED
  BY <1>1, QueueInvariant, PTL DEF Spec, NoLeaseAfterCancel

\* What CancelLeavesNothingNew says of one job.
NothingNew(j) ==
  /\ jobs'[j].cancel
  /\ \A t \in tasks' : t.job = j => \E u \in tasks : u.job = j /\ u.n = t.n
  /\ \/ jobs'[j].status = jobs[j].status
     \/ \E t \in tasks \ tasks' : t.job = j
     \/ /\ jobs'[j].status = "cancelled"
        /\ \E c \in cancels \ cancels' : c.job = j /\ c.sawQueued

\* Replacing a task by one of the same attempt is nothing new.
LEMMA SameAttempt ==
  ASSUME NEW i \in Jobs, NEW t \in tasks, NEW new, new.job = t.job, new.n = t.n,
         tasks' = (tasks \ {t}) \cup {new} \/ tasks' = tasks,
         jobs'[i].cancel = jobs[i].cancel, jobs'[i].status = jobs[i].status, jobs[i].cancel
  PROVE  NothingNew(i)
BY DEF NothingNew

LEMMA NothingNewStep == QInv /\ [Next]_vars => \A j \in Jobs : jobs[j].cancel => NothingNew(j)
<1> SUFFICES ASSUME TypeOK, RowsOK, [Next]_vars, NEW i \in Jobs, jobs[i].cancel
             PROVE  NothingNew(i)
  BY DEF QInv
<1>a. /\ \A t \in tasks : t \in Task /\ t.job \in Jobs
      /\ \A c \in cancels : c.job \in Jobs
  BY DEF TypeOK, Task, Cancel
<1>b. ASSUME tasks' \subseteq tasks, jobs'[i].cancel, jobs'[i].status = jobs[i].status
      PROVE  NothingNew(i)
  BY <1>b DEF NothingNew
<1>1. ASSUME NEW w \in Workers, NEW j \in Jobs, Enqueue(w, j) PROVE NothingNew(i)
  <2>1. i # j /\ tasks' = tasks
    BY <1>1 DEF Enqueue, RowsOK
  <2>2. QED
    BY <1>1, <1>b, <2>1, EnqueueEffect
<1>2. ASSUME NEW w \in Workers, NEW j \in Jobs, LeaseJob(w, j) PROVE NothingNew(i)
  <2> DEFINE new == [job |-> j, n |-> jobs[j].attempts + 1, worker |-> w,
                     phase |-> "leased", heart |-> FALSE, outcome |-> "none"]
  <2>1. i # j /\ jobs'[i] = jobs[i]
    BY <1>2, LeaseEffect
  <2>2. new.job = j
    OBVIOUS
  <2>3. tasks' = tasks \cup {new}
    BY <1>2 DEF LeaseJob
  <2> HIDE DEF new
  <2>4. QED
    BY <2>1, <2>2, <2>3 DEF NothingNew
<1>3. ASSUME NEW w \in Workers, NEW j \in Jobs, CancelSelect(w, j) PROVE NothingNew(i)
  BY <1>3, <1>b DEF CancelSelect
<1>4. ASSUME NEW t \in tasks, GiveUp(t) \/ FinishJob(t) PROVE NothingNew(i)
  <2>1. \E s \in Terminal : FinishRow(t.job, s)
    BY <1>4, StatusValues DEF GiveUp, FinishJob, TypeOK
  <2>2. tasks' = tasks \ {t}
    BY <1>4 DEF GiveUp, FinishJob
  <2>3. jobs'[i].cancel /\ (i # t.job => jobs'[i] = jobs[i])
    BY <1>a, <2>1, FinishEffect
  <2>4. QED
    BY <2>2, <2>3 DEF NothingNew
<1>5. ASSUME NEW t \in tasks, BeginExecute(t) PROVE NothingNew(i)
  <2> DEFINE new == [t EXCEPT !.phase = "executing", !.heart = TRUE]
  <2>1. new.job = t.job /\ new.n = t.n
    BY <1>a DEF Task
  <2>2. tasks' = (tasks \ {t}) \cup {new} /\ jobs' = jobs
    BY <1>5 DEF BeginExecute
  <2> HIDE DEF new
  <2>3. QED
    BY <2>1, <2>2, SameAttempt
<1>6. ASSUME NEW t \in tasks, Heartbeat(t) PROVE NothingNew(i)
  <2> DEFINE new == [t EXCEPT !.heart = FALSE]
  <2>1. new.job = t.job /\ new.n = t.n
    BY <1>a DEF Task
  <2>2. tasks' = (tasks \ {t}) \cup {new} \/ tasks' = tasks
    BY <1>6 DEF Heartbeat
  <2>3. jobs'[i].cancel = jobs[i].cancel /\ jobs'[i].status = jobs[i].status
    BY <1>6, <1>a, HeartbeatEffect DEF OnlyLease
  <2> HIDE DEF new
  <2>4. QED
    BY <2>1, <2>2, <2>3, SameAttempt
<1>7. ASSUME NEW t \in tasks, NEW s \in Terminal, EndExecute(t, s) PROVE NothingNew(i)
  <2> DEFINE new == [t EXCEPT !.phase = "finishing", !.heart = FALSE, !.outcome = s]
  <2>1. new.job = t.job /\ new.n = t.n
    BY <1>a DEF Task
  <2>2. tasks' = (tasks \ {t}) \cup {new} /\ jobs' = jobs
    BY <1>7 DEF EndExecute
  <2> HIDE DEF new
  <2>3. QED
    BY <2>1, <2>2, SameAttempt
<1>8. ASSUME NEW t \in tasks, FinishLost(t) PROVE NothingNew(i)
  BY <1>8, <1>b DEF FinishLost
<1>9. ASSUME NEW c \in cancels, CancelUpdate(c) PROVE NothingNew(i)
  <2>1. tasks' = tasks /\ c \notin cancels'
    BY <1>9 DEF CancelUpdate
  <2>2. CASE i = c.job
    BY <1>9, <2>1, <2>2, CancelEffect DEF NothingNew
  <2>3. CASE i # c.job
    BY <1>9, <1>b, <2>1, <2>3, CancelEffect
  <2>4. QED
    BY <2>2, <2>3
<1>10. ASSUME NEW j \in Jobs, Expire(j) PROVE NothingNew(i)
  <2>1. tasks' = tasks
    BY <1>10 DEF Expire
  <2>2. QED
    BY <1>10, <1>b, <2>1, ExpireEffect DEF OnlyLease
<1>11. ASSUME NEW w \in Workers, Drain(w) \/ Crash(w) \/ Exit(w) \/ Start(w)
       PROVE NothingNew(i)
  BY <1>11, <1>b DEF Drain, Crash, Exit, Start, Die
<1>12. CASE UNCHANGED vars
  BY <1>12, <1>b DEF vars
<1>13. QED
  BY <1>1, <1>2, <1>3, <1>4, <1>5, <1>6, <1>7, <1>8, <1>9, <1>10, <1>11, <1>12
     DEF Next, ProcessStep, TaskStep

\* After a cancel is written only tasks leased before it go on, and only their
\* reports, or cancels that saw the row queued, move its status.
THEOREM CancelEndsLeasing == Spec => CancelLeavesNothingNew
<1>1. QInv /\ [Next]_vars => [\A j \in Jobs : jobs[j].cancel => NothingNew(j)]_vars
  BY NothingNewStep
<1>2. QED
  BY <1>1, QueueInvariant, PTL DEF Spec, CancelLeavesNothingNew, NothingNew

\* Nobody asks for the job any more and nobody executes it.
Withdrawn(j) == jobs[j].cancel /\ \A t \in tasks : t.job # j

\* A job cancelled while it has no task (before its first lease, or after its
\* process died) has none for ever.
THEOREM WithdrawnForever ==
  ASSUME NEW j \in Jobs
  PROVE  Spec => [](Withdrawn(j) => []Withdrawn(j))
<1>1. QInv /\ Withdrawn(j) /\ [Next]_vars => Withdrawn(j)'
  BY NothingNewStep DEF Withdrawn, NothingNew
<1>2. QED
  BY <1>1, QueueInvariant, PTL DEF Spec
-----------------------------------------------------------------------------
\* No step revives a lease for a process that does not own it.
THEOREM OwnersExtend == Spec => OnlyOwnerExtends
<1>1. QInv /\ [Next]_vars =>
        [\A j \in Jobs :
           /\ jobs[j].lease = "expired" /\ jobs'[j].lease = "live"
           /\ jobs'[j].attempts = jobs[j].attempts
           => \E t \in tasks : t.job = j /\ t.heart /\ t.worker = jobs[j].owner]_vars
  BY ForwardStep DEF Forward
<1>2. QED
  BY <1>1, QueueInvariant, PTL DEF Spec, OnlyOwnerExtends
-----------------------------------------------------------------------------
(***************************************************************************)
(* The order of first leases, and the contract.                            *)
(***************************************************************************)

LEMMA OrderStep == QInv /\ FirstLeaseInOrder /\ [Next]_vars => FirstLeaseInOrder'
<1> SUFFICES ASSUME TypeOK, AttemptsAreUnique, RowsOK, FirstLeaseInOrder, [Next]_vars
             PROVE  FirstLeaseInOrder'
  BY DEF QInv
<1>a. /\ inserted \in Nat
      /\ \A j \in Jobs : jobs[j].created \in Nat /\ jobs[j].attempts \in Nat
      /\ \A t \in tasks : t.job \in Jobs
  BY DEF TypeOK, Row, Task
<1>b. ASSUME \A j \in Jobs : /\ jobs'[j].status = "queued" => jobs[j].status = "queued"
                             /\ jobs'[j].attempts = jobs[j].attempts
                             /\ jobs'[j].created = jobs[j].created
      PROVE  FirstLeaseInOrder'
  BY <1>b DEF FirstLeaseInOrder, SameKind, IsRollout
<1>1. ASSUME NEW w \in Workers, NEW j \in Jobs, Enqueue(w, j) PROVE FirstLeaseInOrder'
  <2>1. jobs[j].attempts = 0
    BY <1>1, EnqueueEffect DEF RowsOK
  <2>2. QED
    BY <1>1, <1>a, <2>1, EnqueueEffect DEF FirstLeaseInOrder, SameKind, IsRollout, RowsOK
<1>2. ASSUME NEW w \in Workers, NEW j \in Jobs, LeaseJob(w, j) PROVE FirstLeaseInOrder'
  <2>1. ASSUME NEW i \in Jobs, SameKind(i, j), jobs'[i].status = "queued"
        PROVE  jobs[i].status = "queued" /\ i # j
    BY <1>2, <2>1, LeaseEffect
  <2>2. ASSUME NEW i \in Jobs, SameKind(i, j), jobs'[i].status = "queued"
        PROVE  jobs[j].created < jobs[i].created
    <3>1. Leasable(i)
      BY <2>1, <2>2 DEF Leasable, RowsOK
    <3>2. jobs[j].created <= jobs[i].created
      BY <1>2, <2>2, <3>1 DEF LeaseJob, Oldest
    <3>3. jobs[i].created # 0 /\ i # j
      BY <2>1, <2>2 DEF RowsOK
    <3>4. QED
      BY <1>a, <3>2, <3>3 DEF RowsOK
  <2>3. \A i \in Jobs : jobs'[i].created = jobs[i].created
    BY <1>2, LeaseEffect
  <2>4. \A i \in Jobs \ {j} : jobs'[i] = jobs[i]
    BY <1>2, LeaseEffect
  <2>5. ASSUME NEW i \in Jobs, NEW k \in Jobs, SameKind(i, k),
               jobs'[i].status = "queued", jobs'[k].attempts > 0
        PROVE  jobs'[k].created < jobs'[i].created
    <3>1. CASE k = j
      BY <2>2, <2>3, <2>5, <3>1
    <3>2. CASE k # j
      <4>1. i # j
        BY <1>2, <2>5, LeaseEffect
      <4>2. QED
        BY <2>4, <2>5, <3>2, <4>1 DEF FirstLeaseInOrder
    <3>3. QED
      BY <3>1, <3>2
  <2>6. QED
    BY <2>5 DEF FirstLeaseInOrder, SameKind, IsRollout
<1>3. ASSUME NEW t \in tasks, GiveUp(t) \/ FinishJob(t) PROVE FirstLeaseInOrder'
  <2>1. \E s \in Terminal : FinishRow(t.job, s)
    BY <1>3, StatusValues DEF GiveUp, FinishJob, TypeOK
  <2>2. QED
    BY <1>a, <1>b, <2>1, FinishEffect DEF Terminal
<1>4. ASSUME NEW t \in tasks, Heartbeat(t) PROVE FirstLeaseInOrder'
  BY <1>4, <1>b, HeartbeatEffect DEF OnlyLease
<1>5. ASSUME NEW c \in cancels, CancelUpdate(c) PROVE FirstLeaseInOrder'
  BY <1>5, <1>b, CancelEffect
<1>6. ASSUME NEW j \in Jobs, Expire(j) PROVE FirstLeaseInOrder'
  BY <1>6, <1>b, ExpireEffect DEF OnlyLease
<1>7. ASSUME jobs' = jobs PROVE FirstLeaseInOrder'
  BY <1>7, <1>b
<1>8. ASSUME NEW w \in Workers, NEW j \in Jobs, CancelSelect(w, j) PROVE FirstLeaseInOrder'
  BY <1>8, <1>7 DEF CancelSelect
<1>9. CASE UNCHANGED vars
  BY <1>9, <1>7 DEF vars
<1>10. QED
  BY <1>1, <1>2, <1>3, <1>4, <1>5, <1>6, <1>7, <1>8, <1>9, QuietSteps
     DEF Next, ProcessStep, TaskStep

\* A job that still waits was submitted after every job of its kind that was
\* ever leased.
THEOREM OldestFirst == Spec => []FirstLeaseInOrder
<1>1. Init => FirstLeaseInOrder
  BY DEF Init, FirstLeaseInOrder
<1>2. QED
  BY <1>1, QueueInvariant, OrderStep, PTL DEF Spec

\* What the contract calls the phase of a job.
Phase(j) ==
  IF jobs[j].status = "queued" THEN "pending"
  ELSE IF jobs[j].status = "running" THEN "active"
  ELSE IF jobs[j].status = "absent" THEN "absent" ELSE "settled"

\* A step that changes one job alone changes one entry of the contract.
LEMMA OneJob ==
  ASSUME NEW j \in Jobs, \A i \in Jobs \ {j} : jobs'[i] = jobs[i]
  PROVE  /\ [i \in Jobs |-> Phase(i)]' = [[i \in Jobs |-> Phase(i)] EXCEPT ![j] = Phase(j)']
         /\ [i \in Jobs |-> jobs[i].attempts]' =
              [[i \in Jobs |-> jobs[i].attempts] EXCEPT ![j] = jobs'[j].attempts]
         /\ [i \in Jobs |-> jobs[i].cancel]' =
              [[i \in Jobs |-> jobs[i].cancel] EXCEPT ![j] = jobs'[j].cancel]
         /\ [i \in Jobs |-> jobs[i].created]' =
              [[i \in Jobs |-> jobs[i].created] EXCEPT ![j] = jobs'[j].created]
BY DEF Phase

LEMMA ContractStep == QInv /\ [Next]_vars => [Contract!Next]_(Contract!vars)
<1> DEFINE P == [j \in Jobs |-> Phase(j)]
           S == [j \in Jobs |-> jobs[j].attempts]
           W == [j \in Jobs |-> jobs[j].cancel]
           A == [j \in Jobs |-> jobs[j].created]
<1> SUFFICES ASSUME TypeOK, AttemptsAreUnique, RowsOK, [Next]_vars
             PROVE  Contract!Next \/ UNCHANGED <<P, S, W, A>>
  BY DEF QInv, Contract!vars, Phase
<1>a. /\ inserted \in Nat
      /\ \A j \in Jobs : /\ jobs[j].created \in Nat /\ jobs[j].attempts \in Nat
                         /\ jobs[j].cancel \in BOOLEAN
      /\ \A t \in tasks : t.job \in Jobs /\ jobs[t.job].attempts > 0
      /\ \A c \in cancels : c.job \in Jobs
  BY DEF TypeOK, Row, Task, Cancel, AttemptsAreUnique
<1>b. ASSUME NEW j \in Jobs, \A i \in Jobs \ {j} : jobs'[i] = jobs[i],
             jobs'[j].status = jobs[j].status, jobs'[j].attempts = jobs[j].attempts,
             jobs'[j].cancel = jobs[j].cancel, jobs'[j].created = jobs[j].created
      PROVE  UNCHANGED <<P, S, W, A>>
  BY <1>b, OneJob DEF Phase
<1>1. ASSUME NEW w \in Workers, NEW j \in Jobs, Enqueue(w, j) PROVE Contract!Submit(j)
  <2>1. Phase(j) = "absent" /\ Phase(j)' = "pending" /\ jobs'[j].created = inserted + 1
    BY <1>1, EnqueueEffect DEF Phase
  <2>2. \A i \in Jobs : jobs[i].created <= inserted
    BY DEF RowsOK
  <2>3. P' = [P EXCEPT ![j] = "pending"]
    BY <1>1, <2>1, EnqueueEffect, OneJob
  <2>4. S' = S /\ W' = W
    BY <1>1, EnqueueEffect
  <2>5. /\ A' \in [Jobs -> Nat] /\ \A i \in Jobs : A[i] < A'[j]
        /\ \A i \in Jobs \ {j} : A'[i] = A[i]
    BY <1>1, <1>a, <2>1, <2>2, EnqueueEffect
  <2>6. QED
    BY <2>1, <2>3, <2>4, <2>5 DEF Contract!Submit, Phase
<1>2. ASSUME NEW w \in Workers, NEW j \in Jobs, LeaseJob(w, j)
      PROVE  Contract!Begin(j) \/ Contract!Again(j)
  <2>1. W' = W /\ A' = A
    BY <1>2, LeaseEffect
  <2>2. Phase(j)' = "active" /\ ~jobs[j].cancel
    BY <1>2, LeaseEffect DEF Phase
  <2>0. /\ \A i \in Jobs \ {j} : jobs'[i] = jobs[i]
        /\ jobs'[j].attempts = jobs[j].attempts + 1
    BY <1>2, LeaseEffect
  <2>3. P' = [P EXCEPT ![j] = "active"]
    BY <2>0, <2>2, OneJob
  <2>s. S' = [S EXCEPT ![j] = jobs[j].attempts + 1]
    BY <2>0, OneJob
  <2>4. CASE jobs[j].status = "queued"
    <3>1. jobs[j].attempts = 0
      BY <2>4 DEF RowsOK
    <3>2. S' = [S EXCEPT ![j] = 1]
      BY <2>s, <3>1, <1>a
    <3>3. ASSUME NEW i \in Jobs, Phase(i) = "pending", i \in Rollouts <=> j \in Rollouts
          PROVE  jobs[j].created <= jobs[i].created
      <4>1. Leasable(i)
        BY <3>3 DEF Phase, Leasable, RowsOK
      <4>2. QED
        BY <1>2, <3>3, <4>1 DEF LeaseJob, Oldest, SameKind, IsRollout
    <3>4. Contract!Begin(j)
      BY <2>1, <2>2, <2>3, <2>4, <3>2, <3>3 DEF Contract!Begin, Phase
    <3>5. QED
      BY <3>4
  <2>5. CASE jobs[j].status = "running"
    <3>1. P' = P
      BY <2>3, <2>5 DEF Phase
    <3>2. QED
      BY <2>1, <2>2, <2>s, <2>5, <3>1 DEF Contract!Again, Phase
  <2>6. QED
    BY <1>2, <2>4, <2>5, LeaseEffect
<1>3. ASSUME NEW t \in tasks, GiveUp(t) \/ FinishJob(t)
      PROVE  Contract!Settle(t.job) \/ UNCHANGED <<P, S, W, A>>
  <2> DEFINE j == t.job
  <2>1. j \in Jobs /\ \E s \in Terminal : FinishRow(j, s)
    BY <1>3, <1>a, StatusValues DEF GiveUp, FinishJob, TypeOK
  <2>2. S' = S /\ W' = W /\ A' = A
    BY <2>1, FinishEffect
  <2>3. Phase(j)' = "settled"
    BY <2>1, FinishEffect DEF Phase, Terminal
  <2>4. P' = [P EXCEPT ![j] = "settled"]
    BY <2>1, <2>3, FinishEffect, OneJob
  <2>5. Phase(j) \in {"active", "settled"}
    BY <1>a, <2>1 DEF Phase, RowsOK
  <2> HIDE DEF j
  <2>6. CASE Phase(j) = "settled"
    BY <2>1, <2>2, <2>4, <2>6
  <2>7. CASE Phase(j) = "active"
    <3>1. Contract!Settle(j)
      BY <2>1, <2>2, <2>4, <2>7 DEF Contract!Settle, Phase
    <3>2. QED
      BY <3>1 DEF j
  <2>8. QED
    BY <2>5, <2>6, <2>7
<1>4. ASSUME NEW t \in tasks, Heartbeat(t) PROVE UNCHANGED <<P, S, W, A>>
  <2>1. t.job \in Jobs /\ OnlyLease(t.job)
    BY <1>4, HeartbeatEffect
  <2>2. QED
    BY <1>b, <2>1 DEF OnlyLease
<1>5. ASSUME NEW j \in Jobs, Expire(j) PROVE UNCHANGED <<P, S, W, A>>
  <2>1. OnlyLease(j)
    BY <1>5, ExpireEffect
  <2>2. QED
    BY <1>b, <2>1 DEF OnlyLease
<1>6. ASSUME NEW c \in cancels, CancelUpdate(c) PROVE Contract!Withdraw(c.job)
  <2> DEFINE j == c.job
  <2>1. /\ j \in Jobs /\ jobs[j].status # "absent"
        /\ \A i \in Jobs \ {j} : jobs'[i] = jobs[i]
    BY <1>6, <1>a, CancelEffect DEF RowsOK
  <2>0. S' = S /\ A' = A
    BY <1>6, CancelEffect
  <2>2. W' = [W EXCEPT ![j] = TRUE]
    BY <1>6, <2>1, CancelEffect, OneJob
  <2>3. \/ Phase(j) # "pending" /\ Phase(j)' = Phase(j)
        \/ Phase(j)' = "settled"
    BY <1>6, CancelEffect DEF Phase, RowsOK
  <2>4. P' = [P EXCEPT ![j] = Phase(j)']
    BY <2>1, OneJob
  <2>5. Phase(j) # "absent"
    BY <2>1 DEF Phase
  <2> HIDE DEF j
  <2>6. P[j] = Phase(j) /\ (Phase(j)' = Phase(j) => P' = P)
    BY <2>1, <2>4
  <2>w. Contract!Withdraw(j)
    BY <2>0, <2>1, <2>2, <2>3, <2>4, <2>5, <2>6 DEF Contract!Withdraw, Phase
  <2>7. QED
    BY <2>w DEF j
<1>7. ASSUME jobs' = jobs PROVE UNCHANGED <<P, S, W, A>>
  BY <1>7 DEF Phase
<1>8. ASSUME NEW w \in Workers, NEW j \in Jobs, CancelSelect(w, j)
      PROVE  UNCHANGED <<P, S, W, A>>
  BY <1>8, <1>7 DEF CancelSelect
<1>9. CASE UNCHANGED vars
  BY <1>9, <1>7 DEF vars
<1> HIDE DEF P, S, W, A
<1>10. QED
  BY <1>1, <1>2, <1>3, <1>4, <1>5, <1>6, <1>7, <1>8, <1>9, <1>a, QuietSteps
     DEF Next, ProcessStep, TaskStep, Contract!Next

\* The queue, with its rows, leases, heartbeats, processes and faults,
\* implements the contract.
THEOREM KeepsContract == Spec => ImplementsContract
<1>1. Init => Contract!Init
  BY DEF Init, Contract!Init
<1>2. QED
  BY <1>1, QueueInvariant, ContractStep, PTL DEF Spec, ImplementsContract, Contract!Spec
-----------------------------------------------------------------------------
(***************************************************************************)
(* Permits.                                                                *)
(***************************************************************************)
Holders(w) == {t \in tasks : t.worker = w /\ IsRollout(t.job)}

Conserved ==
  \A w \in Workers : /\ IsFiniteSet(Holders(w))
                     /\ permits[w] + Cardinality(Holders(w)) = Slots

\* A task that only changes its phase keeps its permit.
LEMMA KeepsPermits ==
  ASSUME TypeOK, AttemptsAreUnique, Conserved, UNCHANGED permits,
         NEW t \in tasks, NEW new,
         new.job = t.job, new.n = t.n, new.worker = t.worker,
         tasks' = (tasks \ {t}) \cup {new} \/ tasks' = tasks
  PROVE  Conserved'
<1> SUFFICES ASSUME NEW w \in Workers
             PROVE  /\ IsFiniteSet(Holders(w)')
                    /\ Cardinality(Holders(w)') = Cardinality(Holders(w))
  BY DEF Conserved
<1>1. IsFiniteSet(Holders(w))
  BY DEF Conserved
<1>2. CASE tasks' = tasks
  BY <1>1, <1>2 DEF Holders
<1>3. CASE tasks' = (tasks \ {t}) \cup {new} /\ t \in Holders(w)
  <2> DEFINE rest == Holders(w) \ {t}
  <2>1. new \notin rest
    BY DEF Holders, AttemptsAreUnique
  <2>2. Holders(w)' = rest \cup {new}
    BY <1>3 DEF Holders, IsRollout
  <2>3. IsFiniteSet(rest) /\ Cardinality(rest) = Cardinality(Holders(w)) - 1
    BY <1>1, <1>3, FS_RemoveElement
  <2>4. IsFiniteSet(rest \cup {new}) /\ Cardinality(rest \cup {new}) = Cardinality(rest) + 1
    BY <2>1, <2>3, FS_AddElement
  <2>5. Cardinality(Holders(w)) \in Nat
    BY <1>1, FS_CardinalityType
  <2> HIDE DEF rest
  <2>6. QED
    BY <2>2, <2>3, <2>4, <2>5
<1>4. CASE tasks' = (tasks \ {t}) \cup {new} /\ t \notin Holders(w)
  <2>1. Holders(w)' = Holders(w)
    BY <1>4 DEF Holders, IsRollout
  <2>2. QED
    BY <1>1, <2>1
<1>5. QED
  BY <1>2, <1>3, <1>4

\* A task that ends gives its permit back, if it held one.
LEMMA ReturnsPermit ==
  ASSUME TypeOK, Conserved, NEW t \in tasks, tasks' = tasks \ {t}, ReleasePermit(t)
  PROVE  Conserved'
<1> SUFFICES ASSUME NEW w \in Workers
             PROVE  /\ IsFiniteSet(Holders(w)')
                    /\ permits'[w] + Cardinality(Holders(w)') = Slots
  BY DEF Conserved
<1>1. /\ IsFiniteSet(Holders(w)) /\ permits[w] + Cardinality(Holders(w)) = Slots
      /\ Cardinality(Holders(w)) \in Nat /\ permits[w] \in Nat
  BY FS_CardinalityType DEF Conserved, TypeOK
<1>2. CASE t \in Holders(w)
  <2>1. Holders(w)' = Holders(w) \ {t}
    BY DEF Holders, IsRollout
  <2>2. permits'[w] = permits[w] + 1
    BY <1>2 DEF Holders, ReleasePermit, TypeOK
  <2>3. /\ IsFiniteSet(Holders(w) \ {t})
        /\ Cardinality(Holders(w) \ {t}) = Cardinality(Holders(w)) - 1
    BY <1>1, <1>2, FS_RemoveElement
  <2>4. QED
    BY <1>1, <2>1, <2>2, <2>3
<1>3. CASE t \notin Holders(w)
  <2>1. Holders(w)' = Holders(w)
    BY <1>3 DEF Holders, IsRollout
  <2>2. permits'[w] = permits[w]
    BY <1>3 DEF Holders, ReleasePermit, TypeOK
  <2>3. QED
    BY <1>1, <2>1, <2>2
<1>4. QED
  BY <1>2, <1>3

LEMMA PermitsStep == QInv /\ Conserved /\ [Next]_vars => Conserved'
<1> SUFFICES ASSUME TypeOK, AttemptsAreUnique, Conserved, [Next]_vars PROVE Conserved'
  BY DEF QInv
<1>a. \A t \in tasks : t \in Task
  BY DEF TypeOK
<1>b. ASSUME UNCHANGED <<tasks, permits>> PROVE Conserved'
  BY <1>b DEF Conserved, Holders, IsRollout
<1>1. ASSUME NEW w \in Workers, NEW j \in Jobs, LeaseJob(w, j) PROVE Conserved'
  <2> DEFINE new == [job |-> j, n |-> jobs[j].attempts + 1, worker |-> w,
                     phase |-> "leased", heart |-> FALSE, outcome |-> "none"]
  <2>1. new.job = j /\ new.worker = w /\ new.n = jobs[j].attempts + 1
    OBVIOUS
  <2>2. tasks' = tasks \cup {new}
    BY <1>1 DEF LeaseJob
  <2> HIDE DEF new
  <2>3. new \notin tasks
    BY <2>1 DEF AttemptsAreUnique, TypeOK, Row, Task
  <2> SUFFICES ASSUME NEW v \in Workers
               PROVE  /\ IsFiniteSet(Holders(v)')
                      /\ permits'[v] + Cardinality(Holders(v)') = Slots
    BY DEF Conserved
  <2>4. /\ IsFiniteSet(Holders(v)) /\ permits[v] + Cardinality(Holders(v)) = Slots
        /\ Cardinality(Holders(v)) \in Nat /\ permits[v] \in Nat
    BY FS_CardinalityType DEF Conserved, TypeOK
  <2>5. CASE v = w /\ IsRollout(j)
    <3>1. Holders(v)' = Holders(v) \cup {new} /\ new \notin Holders(v)
      BY <2>1, <2>2, <2>3, <2>5 DEF Holders, IsRollout
    <3>2. permits'[v] = permits[v] - 1
      BY <1>1, <2>5 DEF LeaseJob, TypeOK
    <3>3. /\ IsFiniteSet(Holders(v) \cup {new})
          /\ Cardinality(Holders(v) \cup {new}) = Cardinality(Holders(v)) + 1
      BY <2>4, <3>1, FS_AddElement
    <3>4. QED
      BY <2>4, <3>1, <3>2, <3>3
  <2>6. CASE ~(v = w /\ IsRollout(j))
    <3>1. Holders(v)' = Holders(v)
      BY <2>1, <2>2, <2>6 DEF Holders, IsRollout
    <3>2. permits'[v] = permits[v]
      BY <1>1, <2>6 DEF LeaseJob, TypeOK
    <3>3. QED
      BY <2>4, <3>1, <3>2
  <2>7. QED
    BY <2>5, <2>6
<1>2. ASSUME NEW t \in tasks, GiveUp(t) \/ FinishJob(t) \/ FinishLost(t) PROVE Conserved'
  BY <1>2, ReturnsPermit DEF GiveUp, FinishJob, FinishLost
<1>3. ASSUME NEW t \in tasks, BeginExecute(t) PROVE Conserved'
  <2> DEFINE new == [t EXCEPT !.phase = "executing", !.heart = TRUE]
  <2>1. new.job = t.job /\ new.n = t.n /\ new.worker = t.worker
    BY <1>a DEF Task
  <2>2. tasks' = (tasks \ {t}) \cup {new} /\ UNCHANGED permits
    BY <1>3 DEF BeginExecute
  <2> HIDE DEF new
  <2>3. QED
    BY <2>1, <2>2, KeepsPermits
<1>4. ASSUME NEW t \in tasks, Heartbeat(t) PROVE Conserved'
  <2> DEFINE new == [t EXCEPT !.heart = FALSE]
  <2>1. new.job = t.job /\ new.n = t.n /\ new.worker = t.worker
    BY <1>a DEF Task
  <2>2. (tasks' = (tasks \ {t}) \cup {new} \/ tasks' = tasks) /\ UNCHANGED permits
    BY <1>4 DEF Heartbeat
  <2> HIDE DEF new
  <2>3. QED
    BY <2>1, <2>2, KeepsPermits
<1>5. ASSUME NEW t \in tasks, NEW s \in Terminal, EndExecute(t, s) PROVE Conserved'
  <2> DEFINE new == [t EXCEPT !.phase = "finishing", !.heart = FALSE, !.outcome = s]
  <2>1. new.job = t.job /\ new.n = t.n /\ new.worker = t.worker
    BY <1>a DEF Task
  <2>2. tasks' = (tasks \ {t}) \cup {new} /\ UNCHANGED permits
    BY <1>5 DEF EndExecute
  <2> HIDE DEF new
  <2>3. QED
    BY <2>1, <2>2, KeepsPermits
<1>6. ASSUME NEW w \in Workers, Die(w) PROVE Conserved'
  <2>1. Holders(w)' = {} /\ permits'[w] = Slots
    BY <1>6 DEF Die, Holders, TypeOK
  <2>2. \A v \in Workers \ {w} : Holders(v)' = Holders(v) /\ permits'[v] = permits[v]
    BY <1>6 DEF Die, Holders, IsRollout, TypeOK
  <2>3. IsFiniteSet({}) /\ Cardinality({}) = 0
    BY FS_EmptySet
  <2>4. QED
    BY <2>1, <2>2, <2>3 DEF Conserved
<1>7. ASSUME \/ \E w \in Workers, j \in Jobs : Enqueue(w, j) \/ CancelSelect(w, j)
             \/ \E c \in cancels : CancelUpdate(c)
             \/ \E j \in Jobs : Expire(j)
             \/ \E w \in Workers : Drain(w) \/ Start(w)
             \/ UNCHANGED vars
      PROVE  Conserved'
  BY <1>7, <1>b DEF Enqueue, CancelSelect, CancelUpdate, Expire, Drain, Start, vars
<1>8. QED
  BY <1>1, <1>2, <1>3, <1>4, <1>5, <1>6, <1>7
     DEF Next, ProcessStep, TaskStep, Crash, Exit

\* Free permits and live rollout tasks of a process always add up to its slots.
THEOREM PermitsAddUp == Spec => []PermitsConserved
<1>1. Init => Conserved
  BY FS_EmptySet DEF Init, Conserved, Holders
<1>2. Conserved => PermitsConserved
  BY DEF Conserved, Holders, PermitsConserved
<1>3. QED
  BY <1>1, <1>2, QueueInvariant, PermitsStep, PTL DEF Spec
=============================================================================

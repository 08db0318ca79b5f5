---------------------------- MODULE BridgeProofs ----------------------------
(***************************************************************************)
(* Proofs about Bridge, for any set of calls.                              *)
(***************************************************************************)
EXTENDS Bridge, FiniteSetTheorems, SequenceTheorems, TLAPS

USE BridgeAssumption

Started == {c \in Calls : call[c].stage # "idle"}

\* Workers are spawned in order, by different calls; who is past ensure_worker
\* has one.
Spawned ==
  /\ spawned <= Cardinality(Started)
  /\ \A w \in Workers : worker[w].child = "none" <=> w > spawned
  /\ \A t \in Tasks : call[t].stage \notin {"idle", "done"} => call[t].at # 0

TInv == TypeOK /\ Spawned

LEMMA CallsCounted == Cardinality(Calls) \in Nat
BY FS_CardinalityType

\* The number of a worker in use.
LEMMA HasWorker ==
  ASSUME TInv, NEW t \in Tasks, call[t].stage \notin {"idle", "done"}
  PROVE  /\ call[t].at \in 1..spawned
         /\ call[t].at \in Workers
         /\ At(t) = worker[call[t].at]
         /\ worker[call[t].at] \in WorkerType
         /\ call[t] \in CallType
         /\ worker[call[t].at].child # "none"
<1>1. call[t] \in CallType /\ call[t].at \in 0..spawned
  BY DEF TInv, TypeOK, CallType
<1>2. call[t].at # 0
  BY DEF TInv, Spawned
<1>3. spawned \in Nat /\ Cardinality(Calls) \in Nat /\ spawned <= Cardinality(Calls)
  BY CallsCounted DEF TInv, TypeOK
<1>4. call[t].at \in 1..spawned /\ call[t].at \in Workers
  BY <1>1, <1>2, <1>3 DEF Workers
<1>5. worker[call[t].at] \in WorkerType
  BY <1>4 DEF TInv, TypeOK
<1>6. worker[call[t].at].child # "none"
  BY <1>3, <1>4 DEF TInv, Spawned
<1> QED
  BY <1>1, <1>4, <1>5, <1>6 DEF At

\* A call with its fields replaced by others of their types is a call.
LEMMA Received ==
  ASSUME NEW k \in CallType, k.rx # <<>>
  PROVE  /\ Taken(k) \in CallType
         /\ Taken(k).at = k.at /\ Taken(k).stage = k.stage
         /\ Taken(k).seen = k.seen /\ Taken(k).result = k.result
<1>1. Tail(k.rx) \in Seq({"event", "answer"})
  BY DEF CallType
<1> QED
  BY <1>1 DEF CallType, Taken

LEMMA SentKeeps ==
  ASSUME NEW k \in CallType, NEW m
  PROVE  /\ Sent(k, m).stage = k.stage /\ Sent(k, m).at = k.at
         /\ Sent(k, m).result = k.result
BY DEF CallType, Sent

LEMMA TInit == Init => TInv
<1> SUFFICES ASSUME Init PROVE TInv
  OBVIOUS
<1>1. Cardinality(Calls) \in Nat
  BY CallsCounted
<1>2. Unborn \in WorkerType
  BY DEF Unborn, WorkerType, Line
<1>3. Idle \in CallType
  BY DEF Init, Idle, CallType
<1>4. TypeOK
  BY <1>1, <1>2, <1>3 DEF Init, TypeOK, Tasks, Idle
<1>5. Started = {}
  BY DEF Init, Started, Tasks, Idle
<1>6. Spawned
  BY <1>1, <1>5, FS_EmptySet DEF Init, Spawned, Tasks, Idle, Unborn, Workers
<1> QED
  BY <1>4, <1>6 DEF TInv
-----------------------------------------------------------------------------
\* What a step on one worker and one call has to leave.

LEMMA StartedCount ==
  ASSUME TInv, spawned' = spawned, Started \subseteq Started'
  PROVE  (spawned <= Cardinality(Started))'
<1>1. IsFiniteSet(Started') /\ Cardinality(Started) <= Cardinality(Started')
  BY FS_Subset DEF Started
<1>2. Cardinality(Started) \in Nat /\ Cardinality(Started') \in Nat
  BY <1>1, FS_Subset, FS_CardinalityType DEF Started
<1> QED
  BY <1>1, <1>2 DEF TInv, TypeOK, Spawned

LEMMA OneCall ==
  ASSUME TInv, spawned' = spawned, NEW t \in Tasks, NEW K \in CallType,
         K.stage = "idle" => call[t].stage = "idle",
         K.stage \notin {"idle", "done"} => K.at # 0,
         call' = [call EXCEPT ![t] = K]
  PROVE  /\ (call \in [Tasks -> CallType])'
         /\ (spawned <= Cardinality(Started))'
         /\ (\A u \in Tasks : call[u].stage \notin {"idle", "done"} => call[u].at # 0)'
<1>1. call \in [Tasks -> CallType]
  BY DEF TInv, TypeOK
<1>2. CallType' = CallType
  BY DEF CallType
<1>3. (call \in [Tasks -> CallType])'
  BY <1>1, <1>2
<1>4. Started \subseteq Started'
  BY <1>1 DEF Started, Tasks
<1>5. \A u \in Tasks : call'[u].stage \notin {"idle", "done"} => call'[u].at # 0
  BY <1>1 DEF TInv, Spawned
<1> QED
  BY <1>3, <1>4, <1>5, StartedCount

LEMMA OneWorker ==
  ASSUME TInv, spawned' = spawned, NEW w \in 1..spawned, NEW W \in WorkerType,
         W.child # "none", worker' = [worker EXCEPT ![w] = W]
  PROVE  /\ (worker \in [Workers -> WorkerType])'
         /\ (\A v \in Workers : worker[v].child = "none" <=> v > spawned)'
<1>1. worker \in [Workers -> WorkerType] /\ spawned \in Nat
  BY CallsCounted DEF TInv, TypeOK
<1>2. worker' \in [Workers -> WorkerType]
  BY <1>1
<1>3. \A v \in Workers : worker'[v].child = "none" <=> v > spawned
  BY <1>1 DEF TInv, Spawned, Workers
<1>4. Workers' = Workers /\ WorkerType' = WorkerType
  BY DEF Workers, WorkerType
<1> QED
  BY <1>2, <1>3, <1>4

\* The parts of the invariant that a step leaves alone.
LEMMA SameCalls ==
  ASSUME TInv, UNCHANGED <<spawned, call>>
  PROVE  /\ (call \in [Tasks -> CallType])'
         /\ (spawned <= Cardinality(Started))'
         /\ (\A u \in Tasks : call[u].stage \notin {"idle", "done"} => call[u].at # 0)'
BY DEF TInv, TypeOK, Spawned, CallType, Started

LEMMA SameWorkers ==
  ASSUME TInv, UNCHANGED <<spawned, worker>>
  PROVE  /\ (worker \in [Workers -> WorkerType])'
         /\ (\A v \in Workers : worker[v].child = "none" <=> v > spawned)'
BY DEF TInv, TypeOK, Spawned, WorkerType, Workers

LEMMA TypedSame == ASSUME TInv, UNCHANGED vars PROVE TInv'
BY DEF TInv, TypeOK, Spawned, Started, vars, CallType

\* ensure_worker
LEMMA TReuse == ASSUME TInv, NEW c \in Calls, Reuse(c) PROVE TInv'
<1> DEFINE K == [call[c] EXCEPT !.stage = "got", !.at = slot]
<1>1. c \in Tasks /\ call[c] \in CallType /\ call[c].stage = "idle"
  BY DEF Reuse, Tasks, TInv, TypeOK
<1>2. K \in CallType /\ K.stage = "got" /\ K.at # 0
  BY <1>1 DEF Reuse, CallType, TInv, TypeOK
<1>3. call' = [call EXCEPT ![c] = K]
  BY DEF Reuse
<1> HIDE DEF K
<1>4. \A t \in Tasks : (call'[t].stage = "killing") = (holder' = t)
  BY <1>1, <1>2, <1>3 DEF Reuse, TInv, TypeOK, Tasks
<1>5. UNCHANGED <<slot, holder, spawned, worker>>
  BY DEF Reuse
<1> QED
  BY <1>1, <1>2, <1>3, <1>4, <1>5, OneCall, SameWorkers DEF TInv, TypeOK, Spawned

LEMMA TInsert == ASSUME TInv, NEW c \in Calls, Insert(c) PROVE TInv'
<1> DEFINE K == [call[c] EXCEPT !.stage = "inserted"]
<1> DEFINE W == Registered(worker[call[c].at], c)
<1>1. c \in Tasks /\ call[c].stage = "got"
  BY DEF Insert, Tasks
<1>2. /\ call[c].at \in 1..spawned /\ At(c) = worker[call[c].at]
      /\ worker[call[c].at] \in WorkerType /\ call[c] \in CallType
      /\ worker[call[c].at].child # "none"
  BY <1>1, HasWorker
<1>3. K \in CallType /\ K.stage = "inserted" /\ K.at # 0
  BY <1>1, <1>2 DEF Insert, CallType
<1>4. W \in WorkerType /\ W.child # "none"
  BY <1>1, <1>2 DEF WorkerType, Registered
<1>5. call' = [call EXCEPT ![c] = K]
  BY <1>2 DEF Insert, Stage, Return
<1>6. worker' = [worker EXCEPT ![call[c].at] = W]
  BY <1>2 DEF Insert
<1> HIDE DEF K, W
<1>7. UNCHANGED spawned /\ slot' \in 0..spawned /\ holder' \in Tasks \cup {NoCall}
  BY <1>1 DEF Insert, TInv, TypeOK
<1>8. \A t \in Tasks : (call'[t].stage = "killing") = (holder' = t)
  BY <1>1, <1>3, <1>5 DEF Insert, TInv, TypeOK, Tasks
<1> QED
  BY <1>1, <1>2, <1>3, <1>4, <1>5, <1>6, <1>7, <1>8, OneCall, OneWorker
     DEF TInv, TypeOK, Spawned

LEMMA TBeginWrite == ASSUME TInv, NEW c \in Calls, BeginWrite(c) PROVE TInv'
<1> DEFINE K == [call[c] EXCEPT !.stage = "writing"]
<1> DEFINE W == [worker[call[c].at] EXCEPT !.stdin = c]
<1>1. c \in Tasks /\ call[c].stage = "inserted"
  BY DEF BeginWrite, Tasks
<1>2. /\ call[c].at \in 1..spawned /\ At(c) = worker[call[c].at]
      /\ worker[call[c].at] \in WorkerType /\ call[c] \in CallType
      /\ worker[call[c].at].child # "none"
  BY <1>1, HasWorker
<1>3. K \in CallType /\ K.stage = "writing" /\ K.at # 0
  BY <1>1, <1>2 DEF BeginWrite, CallType
<1>4. W \in WorkerType /\ W.child # "none"
  BY <1>1, <1>2 DEF BeginWrite, WorkerType
<1>5. call' = [call EXCEPT ![c] = K]
  BY <1>2 DEF BeginWrite, Stage, Return
<1>6. worker' = [worker EXCEPT ![call[c].at] = W]
  BY <1>2 DEF BeginWrite
<1> HIDE DEF K, W
<1>7. UNCHANGED spawned /\ slot' \in 0..spawned /\ holder' \in Tasks \cup {NoCall}
  BY <1>1 DEF BeginWrite, TInv, TypeOK
<1>8. \A t \in Tasks : (call'[t].stage = "killing") = (holder' = t)
  BY <1>1, <1>3, <1>5 DEF BeginWrite, TInv, TypeOK, Tasks
<1> QED
  BY <1>1, <1>2, <1>3, <1>4, <1>5, <1>6, <1>7, <1>8, OneCall, OneWorker
     DEF TInv, TypeOK, Spawned

LEMMA TEndWrite == ASSUME TInv, NEW c \in Calls, EndWrite(c) PROVE TInv'
<1> DEFINE K == [call[c] EXCEPT !.stage = "waiting", !.mangled = Unheard(At(c))]
<1> DEFINE W == [Delivered(worker[call[c].at], c) EXCEPT !.stdin = NoCall]
<1>1. c \in Tasks /\ call[c].stage = "writing"
  BY DEF EndWrite, Tasks
<1>2. /\ call[c].at \in 1..spawned /\ At(c) = worker[call[c].at]
      /\ worker[call[c].at] \in WorkerType /\ call[c] \in CallType
      /\ worker[call[c].at].child # "none"
  BY <1>1, HasWorker
<1>3. K \in CallType /\ K.stage = "waiting" /\ K.at # 0
  <2> DEFINE b == Unheard(At(c))
  <2>1. b \in BOOLEAN
    BY <1>2 DEF WorkerType, Unheard
  <2>2. K = [call[c] EXCEPT !.stage = "waiting", !.mangled = b]
    OBVIOUS
  <2> HIDE DEF b
  <2>3. [call[c] EXCEPT !.stage = "waiting", !.mangled = b] \in CallType
    BY <2>1, <1>2 DEF CallType
  <2>4. K.stage = "waiting" /\ K.at = call[c].at
    BY <2>2, <1>2 DEF CallType
  <2> QED
    BY <2>2, <2>3, <2>4, <1>2
<1>4. W \in WorkerType /\ W.child # "none"
  BY <1>1, <1>2 DEF EndWrite, WorkerType, Delivered
<1>5. call' = [call EXCEPT ![c] = K]
  BY <1>2 DEF EndWrite, Stage, Return
<1>6. worker' = [worker EXCEPT ![call[c].at] = W]
  BY <1>2 DEF EndWrite
<1> HIDE DEF K, W
<1>7. UNCHANGED spawned /\ slot' \in 0..spawned /\ holder' \in Tasks \cup {NoCall}
  BY <1>1 DEF EndWrite, TInv, TypeOK
<1>8. \A t \in Tasks : (call'[t].stage = "killing") = (holder' = t)
  BY <1>1, <1>3, <1>5 DEF EndWrite, TInv, TypeOK, Tasks
<1> QED
  BY <1>1, <1>2, <1>3, <1>4, <1>5, <1>6, <1>7, <1>8, OneCall, OneWorker
     DEF TInv, TypeOK, Spawned

LEMMA TWriteFails == ASSUME TInv, NEW c \in Calls, WriteFails(c) PROVE TInv'
<1> DEFINE K == [call[c] EXCEPT !.stage = "retire"]
<1> DEFINE W == Unregistered(worker[call[c].at], c)
<1>1. c \in Tasks /\ call[c].stage = "writing"
  BY DEF WriteFails, Tasks
<1>2. /\ call[c].at \in 1..spawned /\ At(c) = worker[call[c].at]
      /\ worker[call[c].at] \in WorkerType /\ call[c] \in CallType
      /\ worker[call[c].at].child # "none"
  BY <1>1, HasWorker
<1>3. K \in CallType /\ K.stage = "retire" /\ K.at # 0
  BY <1>1, <1>2 DEF WriteFails, CallType
<1>4. W \in WorkerType /\ W.child # "none"
  BY <1>1, <1>2 DEF WorkerType, Unregistered
<1>5. call' = [call EXCEPT ![c] = K]
  BY <1>2 DEF WriteFails, Stage, Return
<1>6. worker' = [worker EXCEPT ![call[c].at] = W]
  BY <1>2 DEF WriteFails
<1> HIDE DEF K, W
<1>7. UNCHANGED spawned /\ slot' \in 0..spawned /\ holder' \in Tasks \cup {NoCall}
  BY <1>1 DEF WriteFails, TInv, TypeOK
<1>8. \A t \in Tasks : (call'[t].stage = "killing") = (holder' = t)
  BY <1>1, <1>3, <1>5 DEF WriteFails, TInv, TypeOK, Tasks
<1> QED
  BY <1>1, <1>2, <1>3, <1>4, <1>5, <1>6, <1>7, <1>8, OneCall, OneWorker
     DEF TInv, TypeOK, Spawned

LEMMA TClosed == ASSUME TInv, NEW c \in Calls, Closed(c) PROVE TInv'
<1> DEFINE K == [call[c] EXCEPT !.stage = "retire"]
<1>1. c \in Tasks /\ call[c].stage = "waiting"
  BY DEF Closed, Tasks
<1>2. /\ call[c].at \in 1..spawned /\ At(c) = worker[call[c].at]
      /\ worker[call[c].at] \in WorkerType /\ call[c] \in CallType
      /\ worker[call[c].at].child # "none"
  BY <1>1, HasWorker
<1>3. K \in CallType /\ K.stage = "retire" /\ K.at # 0
  BY <1>1, <1>2 DEF Closed, CallType
<1>5. call' = [call EXCEPT ![c] = K]
  BY <1>2 DEF Closed, Stage, Return
<1>6. UNCHANGED worker
  BY DEF Closed
<1> HIDE DEF K
<1>7. UNCHANGED spawned /\ slot' \in 0..spawned /\ holder' \in Tasks \cup {NoCall}
  BY <1>1 DEF Closed, TInv, TypeOK
<1>8. \A t \in Tasks : (call'[t].stage = "killing") = (holder' = t)
  BY <1>1, <1>3, <1>5 DEF Closed, TInv, TypeOK, Tasks
<1> QED
  BY <1>1, <1>2, <1>3, <1>5, <1>6, <1>7, <1>8, OneCall, SameWorkers
     DEF TInv, TypeOK, Spawned

LEMMA TTimeOut == ASSUME TInv, NEW c \in Calls, TimeOut(c) PROVE TInv'
<1> DEFINE K == [call[c] EXCEPT !.stage = "done", !.result = "timeout"]
<1> DEFINE W == Unregistered(worker[call[c].at], c)
<1>1. c \in Tasks /\ call[c].stage = "waiting"
  BY DEF TimeOut, Tasks
<1>2. /\ call[c].at \in 1..spawned /\ At(c) = worker[call[c].at]
      /\ worker[call[c].at] \in WorkerType /\ call[c] \in CallType
      /\ worker[call[c].at].child # "none"
  BY <1>1, HasWorker
<1>3. K \in CallType /\ K.stage = "done" /\ K.at # 0
  <2>1. K \in CallType
    BY <1>2 DEF CallType
  <2>2. K.stage = "done" /\ K.at = call[c].at
    BY <1>2 DEF CallType
  <2> QED
    BY <1>2, <2>1, <2>2
<1>4. W \in WorkerType /\ W.child # "none"
  BY <1>1, <1>2 DEF WorkerType, Unregistered
<1>5. call' = [call EXCEPT ![c] = K]
  BY <1>2 DEF TimeOut, Stage, Return
<1>6. worker' = [worker EXCEPT ![call[c].at] = W]
  BY <1>2 DEF TimeOut
<1> HIDE DEF K, W
<1>7. UNCHANGED spawned /\ slot' \in 0..spawned /\ holder' \in Tasks \cup {NoCall}
  BY <1>1 DEF TimeOut, TInv, TypeOK
<1>8. \A t \in Tasks : (call'[t].stage = "killing") = (holder' = t)
  BY <1>1, <1>3, <1>5 DEF TimeOut, TInv, TypeOK, Tasks
<1> QED
  BY <1>1, <1>2, <1>3, <1>4, <1>5, <1>6, <1>7, <1>8, OneCall, OneWorker
     DEF TInv, TypeOK, Spawned

LEMMA TRetireBegin == ASSUME TInv, NEW t \in Tasks, RetireBegin(t) PROVE TInv'
<1> DEFINE K == [call[t] EXCEPT !.stage = "killing"]
<1>1. t \in Tasks /\ call[t].stage = "retire"
  BY DEF RetireBegin, Tasks
<1>2. /\ call[t].at \in 1..spawned /\ At(t) = worker[call[t].at]
      /\ worker[call[t].at] \in WorkerType /\ call[t] \in CallType
      /\ worker[call[t].at].child # "none"
  BY <1>1, HasWorker
<1>3. K \in CallType /\ K.stage = "killing" /\ K.at # 0
  BY <1>1, <1>2 DEF RetireBegin, CallType
<1>5. call' = [call EXCEPT ![t] = K]
  BY <1>2 DEF RetireBegin, Stage, Return
<1> HIDE DEF K
<1>7. UNCHANGED <<spawned, worker>> /\ slot' \in 0..spawned /\ holder' \in Tasks \cup {NoCall}
  BY <1>1 DEF RetireBegin, TInv, TypeOK
<1>8. \A u \in Tasks : (call'[u].stage = "killing") = (holder' = u)
  BY <1>1, <1>3, <1>5 DEF RetireBegin, TInv, TypeOK, Tasks
<1> QED
  BY <1>1, <1>3, <1>5, <1>7, <1>8, OneCall DEF TInv, TypeOK, Spawned

LEMMA TRetireClear == ASSUME TInv, NEW t \in Tasks, RetireClear(t) PROVE TInv'
<1> DEFINE K == [call[t] EXCEPT !.cleared = TRUE]
<1> DEFINE W == [worker[call[t].at] EXCEPT !.pending = {}]
<1>1. t \in Tasks /\ call[t].stage = "killing"
  BY DEF RetireClear, Tasks
<1>2. /\ call[t].at \in 1..spawned /\ At(t) = worker[call[t].at]
      /\ worker[call[t].at] \in WorkerType /\ call[t] \in CallType
      /\ worker[call[t].at].child # "none"
  BY <1>1, HasWorker
<1>3. K \in CallType /\ K.stage = "killing" /\ K.at # 0
  <2>1. K \in CallType
    BY <1>2 DEF CallType
  <2>2. K.stage = call[t].stage /\ K.at = call[t].at
    BY <1>2 DEF CallType
  <2> QED BY <1>1, <1>2, <2>1, <2>2
<1>4. W \in WorkerType /\ W.child # "none"
  BY <1>1, <1>2 DEF WorkerType
<1>5. call' = [call EXCEPT ![t] = K]
  BY <1>2 DEF RetireClear
<1>6. worker' = [worker EXCEPT ![call[t].at] = W]
  BY <1>2 DEF RetireClear
<1> HIDE DEF K, W
<1>7. UNCHANGED <<spawned, slot, holder>> /\ slot' \in 0..spawned /\ holder' \in Tasks \cup {NoCall}
  BY <1>1 DEF RetireClear, TInv, TypeOK
<1>8. \A u \in Tasks : (call'[u].stage = "killing") = (holder' = u)
  BY <1>1, <1>3, <1>5, <1>7 DEF TInv, TypeOK, Tasks
<1> QED
  BY <1>1, <1>2, <1>3, <1>4, <1>5, <1>6, <1>7, <1>8, OneCall, OneWorker
     DEF TInv, TypeOK, Spawned

LEMMA TRetireKill == ASSUME TInv, NEW t \in Tasks, RetireKill(t) PROVE TInv'
<1> DEFINE K == [call[t] EXCEPT !.stage = "done", !.result = "died"]
<1> DEFINE W == [Freed(Killed(worker[call[t].at]), t) EXCEPT !.alive = FALSE]
<1>1. t \in Tasks /\ call[t].stage = "killing"
  BY DEF RetireKill, Tasks
<1>2. /\ call[t].at \in 1..spawned /\ At(t) = worker[call[t].at]
      /\ worker[call[t].at] \in WorkerType /\ call[t] \in CallType
      /\ worker[call[t].at].child # "none"
  BY <1>1, HasWorker
<1>3. K \in CallType /\ K.stage = "done" /\ K.at # 0
  <2>1. K \in CallType
    BY <1>2 DEF CallType
  <2>2. K.stage = "done" /\ K.at = call[t].at
    BY <1>2 DEF CallType
  <2> QED
    BY <1>2, <2>1, <2>2
<1>4. W \in WorkerType /\ W.child # "none"
  BY <1>1, <1>2 DEF RetireKill, WorkerType, Freed, Killed
<1>5. call' = [call EXCEPT ![t] = K]
  BY <1>2 DEF RetireKill, Stage, Return
<1>6. worker' = [worker EXCEPT ![call[t].at] = W]
  BY <1>2 DEF RetireKill
<1> HIDE DEF K, W
<1>7. UNCHANGED spawned /\ slot' \in 0..spawned /\ holder' \in Tasks \cup {NoCall}
  BY <1>1 DEF RetireKill, TInv, TypeOK
<1>8. \A u \in Tasks : (call'[u].stage = "killing") = (holder' = u)
  BY <1>1, <1>3, <1>5 DEF RetireKill, TInv, TypeOK, Tasks
<1> QED
  BY <1>1, <1>2, <1>3, <1>4, <1>5, <1>6, <1>7, <1>8, OneCall, OneWorker
     DEF TInv, TypeOK, Spawned

LEMMA TReceive == ASSUME TInv, NEW c \in Calls, Receive(c) PROVE TInv'
<1> DEFINE K == IF Head(call[c].rx) = "event"
                THEN [Taken(call[c]) EXCEPT !.seen = call[c].seen + 1]
                ELSE [Taken(call[c]) EXCEPT !.stage = "done", !.result = "answer"]
<1>1. c \in Tasks /\ call[c].stage = "waiting"
  BY DEF Receive, Tasks
<1>2. call[c] \in CallType /\ call[c].at # 0
  BY <1>1, HasWorker
<1>3. K \in CallType /\ K.stage \in {"waiting", "done"} /\ K.at # 0
  <2>1. /\ Taken(call[c]) \in CallType /\ Taken(call[c]).at = call[c].at
        /\ Taken(call[c]).stage = "waiting"
    BY <1>1, <1>2, Received DEF Receive
  <2>2. CASE Head(call[c].rx) = "event"
    <3>1. call[c].seen + 1 \in Nat
      BY <1>2 DEF CallType
    <3> QED
      BY <1>2, <2>1, <2>2, <3>1 DEF CallType
  <2>3. CASE Head(call[c].rx) # "event"
    BY <1>2, <2>1, <2>3 DEF CallType
  <2> QED
    BY <2>2, <2>3
<1>4. call' = [call EXCEPT ![c] = K]
  BY DEF Receive
<1> HIDE DEF K
<1>5. \A t \in Tasks : (call'[t].stage = "killing") = (holder' = t)
  BY <1>1, <1>3, <1>4 DEF Receive, TInv, TypeOK, Tasks
<1>6. UNCHANGED <<slot, holder, spawned, worker>>
  BY DEF Receive
<1> QED
  BY <1>1, <1>3, <1>4, <1>5, <1>6, OneCall, SameWorkers DEF TInv, TypeOK, Spawned

\* A process that prints, dies or loses a request, and its reader.
LEMMA WorkerForms ==
  ASSUME NEW W \in WorkerType
  PROVE  /\ \A line \in Line : Printed(W, line) \in WorkerType /\ Printed(W, line).child = W.child
         /\ Killed(W) \in WorkerType /\ Killed(W).child = "exited"
         /\ \A c \in Calls : Finished(W, c) \in WorkerType /\ Finished(W, c).child = W.child
         /\ \A line \in Line : Routed(W, line) \in WorkerType /\ Routed(W, line).child = W.child
<1>1. ASSUME NEW line \in Line
      PROVE  Printed(W, line) \in WorkerType /\ Printed(W, line).child = W.child
  <2>1. Append(W.out, line) \in Seq(Line)
    BY DEF WorkerType
  <2> QED
    BY <2>1 DEF WorkerType, Printed
<1>2. Killed(W) \in WorkerType /\ Killed(W).child = "exited"
  BY DEF WorkerType, Killed
<1>3. ASSUME NEW c \in Calls
      PROVE  Finished(W, c) \in WorkerType /\ Finished(W, c).child = W.child
  BY DEF WorkerType, Finished
<1>4. ASSUME NEW line \in Line
      PROVE  Routed(W, line) \in WorkerType /\ Routed(W, line).child = W.child
  BY DEF WorkerType, Routed, Unregistered
<1> QED
  BY <1>1, <1>2, <1>3, <1>4

LEMMA WorkerStep ==
  ASSUME TInv, NEW w \in 1..spawned, NEW W \in WorkerType, W.child # "none",
         worker' = [worker EXCEPT ![w] = W], UNCHANGED <<slot, holder, spawned, call>>
  PROVE  TInv'
BY OneWorker, SameCalls DEF TInv, TypeOK, Spawned

LEMMA Born ==
  ASSUME TInv, NEW w \in 1..spawned
  PROVE  w \in Workers /\ worker[w] \in WorkerType /\ worker[w].child # "none"
<1>1. spawned \in Nat /\ Cardinality(Calls) \in Nat /\ spawned <= Cardinality(Calls)
  BY CallsCounted DEF TInv, TypeOK
<1> QED
  BY <1>1 DEF TInv, TypeOK, Spawned, Workers

LEMMA TAnswer == ASSUME TInv, NEW w \in 1..spawned, NEW c \in Calls, Answer(w, c) PROVE TInv'
<1> DEFINE line == [id |-> c, is |-> "answer"]
           W == Finished(Printed(worker[w], line), c)
<1>1. line \in Line
  BY DEF Line
<1>2. Printed(worker[w], line) \in WorkerType /\ Printed(worker[w], line).child # "none"
  BY <1>1, Born, WorkerForms
<1>3. W \in WorkerType /\ W.child # "none"
  BY <1>2, WorkerForms
<1> QED
  BY <1>3, WorkerStep DEF Answer

LEMMA TExit == ASSUME TInv, NEW w \in 1..spawned, Exit(w) \/ Reap(w) PROVE TInv'
<1>1. Killed(worker[w]) \in WorkerType /\ Killed(worker[w]).child # "none"
  BY Born, WorkerForms
<1> QED
  BY <1>1, WorkerStep DEF Exit, Reap

LEMMA TGarbage == ASSUME TInv, NEW w \in 1..spawned, Garbage(w) PROVE TInv'
<1> DEFINE line == [id |-> NoCall, is |-> "garbage"]
<1>1. line \in Line
  BY DEF Line
<1> HIDE DEF line
<1>2. worker[w] \in WorkerType /\ worker[w].child # "none"
  BY Born
<1>3. \A l \in Line : Printed(worker[w], l) \in WorkerType
                     /\ Printed(worker[w], l).child = worker[w].child
  BY <1>2, WorkerForms
<1>4. Printed(worker[w], line) \in WorkerType /\ Printed(worker[w], line).child # "none"
  BY <1>1, <1>2, <1>3
<1> QED
  BY <1>4, WorkerStep DEF Garbage, line

LEMMA TStop == ASSUME TInv, NEW w \in 1..spawned, Stop(w) PROVE TInv'
<1> DEFINE W == [worker[w] EXCEPT !.alive = FALSE, !.reader = "stopping", !.out = <<>>]
<1>1. worker[w] \in WorkerType /\ worker[w].child # "none"
  BY Born
<1>2. W \in WorkerType
  <2>1. <<>> \in Seq(Line) /\ FALSE \in BOOLEAN
    OBVIOUS
  <2>2. [worker[w] EXCEPT !.out = <<>>] \in WorkerType
    BY <1>1, <2>1 DEF WorkerType
  <2>3. [worker[w] EXCEPT !.alive = FALSE, !.reader = "stopping"] \in WorkerType
    BY <1>1, <2>1 DEF WorkerType
  <2> QED
    BY <1>1, <2>1, <2>2, <2>3 DEF WorkerType
<1>3. W.child = worker[w].child
  BY <1>1 DEF WorkerType
<1>4. worker' = [worker EXCEPT ![w] = W] /\ UNCHANGED <<slot, holder, spawned, call>>
  BY DEF Stop
<1> QED
  BY <1>1, <1>2, <1>3, <1>4, WorkerStep

LEMMA TClear == ASSUME TInv, NEW w \in 1..spawned, Clear(w) PROVE TInv'
<1> DEFINE W == [worker[w] EXCEPT !.pending = {}, !.reader = "done"]
<1>1. worker[w] \in WorkerType /\ worker[w].child # "none"
  BY Born
<1>2. W \in WorkerType
  BY <1>1 DEF WorkerType
<1>3. W.child = worker[w].child
  BY <1>1 DEF WorkerType
<1>4. worker' = [worker EXCEPT ![w] = W] /\ UNCHANGED <<slot, holder, spawned, call>>
  BY DEF Clear
<1> QED
  BY <1>1, <1>2, <1>3, <1>4, WorkerStep

\* Steps on a call and a worker that leave the slot and its mutex alone.
LEMMA BothStep ==
  ASSUME TInv, NEW w \in 1..spawned, NEW W \in WorkerType, W.child # "none",
         worker' = [worker EXCEPT ![w] = W],
         NEW t \in Tasks, NEW K \in CallType, K.stage = call[t].stage, K.at = call[t].at,
         call' = [call EXCEPT ![t] = K], UNCHANGED <<slot, holder, spawned>>
  PROVE  TInv'
<1>1. K.stage \notin {"idle", "done"} => K.at # 0
  BY DEF TInv, Spawned
<1>2. \A u \in Tasks : (call'[u].stage = "killing") = (holder' = u)
  BY DEF TInv, TypeOK
<1> QED
  BY <1>1, <1>2, OneWorker, OneCall DEF TInv, TypeOK, Spawned
LEMMA TEmit == ASSUME TInv, NEW w \in 1..spawned, NEW c \in Calls, Emit(w, c) PROVE TInv'
<1> DEFINE line == [id |-> c, is |-> "event"]
           W == Printed(worker[w], line)
           K == [call[c] EXCEPT !.sent = 1]
<1>1. line \in Line
  BY DEF Line
<1>2. W \in WorkerType /\ W.child # "none"
  BY <1>1, Born, WorkerForms
<1>3. c \in Tasks /\ call[c] \in CallType
  BY DEF TInv, TypeOK, Tasks
<1>4. K \in CallType
  BY <1>3 DEF CallType
<1>5. K.stage = call[c].stage /\ K.at = call[c].at
  BY <1>3 DEF CallType
<1>6. /\ worker' = [worker EXCEPT ![w] = W] /\ call' = [call EXCEPT ![c] = K]
      /\ UNCHANGED <<slot, holder, spawned>>
  BY DEF Emit
<1> HIDE DEF W, K
<1> QED
  BY <1>2, <1>3, <1>4, <1>5, <1>6, BothStep

LEMMA TRead == ASSUME TInv, NEW w \in 1..spawned, Read(w) PROVE TInv'
<1> DEFINE line == Head(worker[w].out)
           W == [Routed(worker[w], line) EXCEPT !.out = Tail(worker[w].out)]
           K == Sent(call[line.id], line.is)
<1>1. worker[w] \in WorkerType /\ worker[w].child # "none"
  BY Born
<1>2. worker[w].out \in Seq(Line) /\ worker[w].out # <<>>
  BY <1>1 DEF Read, WorkerType
<1>3. line \in Line /\ Tail(worker[w].out) \in Seq(Line)
  BY <1>2
<1>4. Routed(worker[w], line) \in WorkerType /\ Routed(worker[w], line).child # "none"
  BY <1>1, <1>3, WorkerForms
<1>5. W \in WorkerType
  BY <1>3, <1>4 DEF WorkerType
<1>6. W.child # "none"
  BY <1>4 DEF WorkerType
<1>7. worker' = [worker EXCEPT ![w] = W] /\ UNCHANGED <<slot, holder, spawned>>
  BY DEF Read
<1>8. CASE line.id \in worker[w].pending
  <2>1. line.id \in Tasks /\ call[line.id] \in CallType
    BY <1>1, <1>8 DEF WorkerType, Tasks, TInv, TypeOK
  <2>2. line.is \in {"event", "answer"}
    BY <1>3 DEF Line, Read
  <2>3. Append(call[line.id].rx, line.is) \in Seq({"event", "answer"})
    BY <2>1, <2>2 DEF CallType
  <2>4. K \in CallType
    BY <2>1, <2>3 DEF CallType, Sent
  <2>5. K.stage = call[line.id].stage /\ K.at = call[line.id].at
    BY <2>1 DEF CallType, Sent
  <2>6. call' = [call EXCEPT ![line.id] = K]
    BY <1>8 DEF Read
  <2> HIDE DEF W, K, line
  <2> QED
    BY <1>5, <1>6, <1>7, <2>1, <2>4, <2>5, <2>6, BothStep
<1>9. CASE line.id \notin worker[w].pending
  <2>1. call' = call
    BY <1>9 DEF Read
  <2> HIDE DEF W, line
  <2> QED
    BY <1>5, <1>6, <1>7, <2>1, WorkerStep
<1> QED
  BY <1>8, <1>9

LEMMA TShutdown == ASSUME TInv, Shutdown PROVE TInv'
<1> DEFINE K == [call[Main] EXCEPT !.stage = "retire", !.at = slot]
<1>1. Main \in Tasks /\ call[Main] \in CallType /\ call[Main].stage = "idle"
  BY DEF Shutdown, Tasks, TInv, TypeOK
<1>2. K \in CallType /\ K.stage = "retire" /\ K.at # 0
  BY <1>1 DEF Shutdown, CallType, TInv, TypeOK
<1>3. call' = [call EXCEPT ![Main] = K]
  BY DEF Shutdown
<1> HIDE DEF K
<1>4. \A t \in Tasks : (call'[t].stage = "killing") = (holder' = t)
  BY <1>1, <1>2, <1>3 DEF Shutdown, TInv, TypeOK, Tasks
<1>5. slot' = 0 /\ UNCHANGED <<holder, spawned, worker>>
  BY DEF Shutdown
<1>6. spawned \in Nat
  BY CallsCounted DEF TInv, TypeOK
<1>7. /\ (call \in [Tasks -> CallType])'
      /\ (spawned <= Cardinality(Started))'
      /\ (\A u \in Tasks : call[u].stage \notin {"idle", "done"} => call[u].at # 0)'
  BY <1>1, <1>2, <1>3, <1>5, OneCall
<1>8. /\ (worker \in [Workers -> WorkerType])'
      /\ (\A v \in Workers : worker[v].child = "none" <=> v > spawned)'
  BY <1>5, SameWorkers
<1>9. slot' \in 0..spawned' /\ spawned' \in 0..Cardinality(Calls)
  BY <1>5, <1>6 DEF TInv, TypeOK
<1> QED
  BY <1>4, <1>5, <1>7, <1>8, <1>9 DEF TInv, TypeOK, Spawned

LEMMA TDrop == ASSUME TInv, NEW c \in Calls, Drop(c) PROVE TInv'
<1> DEFINE K == [call[c] EXCEPT !.stage = "dropped"]
<1>1. c \in Tasks /\ call[c].stage \notin {"idle", "done"}
  BY DEF Drop, Ended, Tasks
<1>2. /\ call[c].at \in 1..spawned /\ At(c) = worker[call[c].at]
      /\ worker[call[c].at] \in WorkerType /\ call[c] \in CallType
      /\ worker[call[c].at].child # "none"
  BY <1>1, HasWorker
<1>3. K \in CallType /\ K.stage = "dropped" /\ K.at = call[c].at
  BY <1>2 DEF CallType
<1>4. PICK w \in LeftBehind(At(c), c) : worker' = [worker EXCEPT ![call[c].at] = Freed(w, c)]
  BY DEF Drop
<1>5. w \in WorkerType /\ w.child # "none"
  <2>1. /\ Delivered(At(c), c) \in WorkerType
        /\ Delivered(At(c), c).child = At(c).child
    BY <1>2 DEF Delivered, WorkerType
  <2>2. /\ [At(c) EXCEPT !.torn = TRUE] \in WorkerType
        /\ [At(c) EXCEPT !.torn = TRUE].child = At(c).child
    BY <1>2 DEF WorkerType, Unheard
  <2>3. Killed(At(c)) \in WorkerType /\ Killed(At(c)).child = "exited"
    BY <1>2, WorkerForms
  <2>4. /\ [Killed(At(c)) EXCEPT !.alive = FALSE] \in WorkerType
        /\ [Killed(At(c)) EXCEPT !.alive = FALSE].child = "exited"
    BY <2>3 DEF WorkerType
  <2> QED
    BY <1>2, <1>4, <2>1, <2>2, <2>4 DEF LeftBehind
<1>6. Freed(w, c) \in WorkerType /\ Freed(w, c).child # "none"
  BY <1>5 DEF Freed, WorkerType
<1>7. call' = [call EXCEPT ![c] = K] /\ UNCHANGED <<slot, spawned>>
  BY DEF Drop, Stage
<1>8. holder' \in Tasks \cup {NoCall} /\ holder' = IF holder = c THEN NoCall ELSE holder
  BY DEF Drop, TInv, TypeOK
<1> HIDE DEF K
<1>9. \A t \in Tasks : (call'[t].stage = "killing") = (holder' = t)
  BY <1>1, <1>3, <1>7, <1>8 DEF TInv, TypeOK, Tasks
<1>10. /\ (call \in [Tasks -> CallType])'
       /\ (spawned <= Cardinality(Started))'
       /\ (\A u \in Tasks : call[u].stage \notin {"idle", "done"} => call[u].at # 0)'
  <2>1. K.at # 0 /\ K.stage # "idle"
    BY <1>1, <1>3 DEF TInv, Spawned
  <2> QED
    BY <1>1, <1>3, <1>7, <2>1, OneCall
<1>11. /\ (worker \in [Workers -> WorkerType])'
       /\ (\A v \in Workers : worker[v].child = "none" <=> v > spawned)'
  BY <1>2, <1>4, <1>6, <1>7, OneWorker
<1> QED
  BY <1>7, <1>8, <1>9, <1>10, <1>11 DEF TInv, TypeOK, Spawned

\* A call that is still idle has spawned nothing: there is a number left.
LEMMA TSpawn == ASSUME TInv, NEW c \in Calls, Spawn(c) PROVE TInv'
<1>1. /\ c \in Tasks /\ call[c] \in CallType /\ call[c].stage = "idle" /\ c \notin Started
      /\ call \in [Tasks -> CallType] /\ worker \in [Workers -> WorkerType]
  BY DEF Spawn, Tasks, Started, TInv, TypeOK
<1>2. CASE UNCHANGED <<slot, spawned, worker>>
  <2> DEFINE K == [call[c] EXCEPT !.stage = "done", !.result = "spawn"]
  <2>1. K \in CallType
    BY <1>1 DEF CallType
  <2>2. K.stage = "done"
    BY <1>1 DEF CallType
  <2>3. call' = [call EXCEPT ![c] = K] /\ UNCHANGED holder
    BY <1>2, CallsCounted DEF Spawn, Return, TInv, TypeOK
  <2> HIDE DEF K
  <2>4. \A t \in Tasks : (call'[t].stage = "killing") = (holder' = t)
    BY <1>1, <2>2, <2>3 DEF TInv, TypeOK
  <2> QED
    BY <1>1, <1>2, <2>1, <2>2, <2>3, <2>4, OneCall, SameWorkers DEF TInv, TypeOK, Spawned
<1>3. CASE /\ spawned' = spawned + 1 /\ slot' = spawned + 1
           /\ worker' = [worker EXCEPT ![spawned + 1] =
                [@ EXCEPT !.child = "running", !.alive = TRUE, !.reader = "reading"]]
           /\ call' = [call EXCEPT ![c] = [@ EXCEPT !.stage = "got", !.at = spawned + 1]]
  <2> DEFINE n == spawned + 1
             W == [worker[n] EXCEPT !.child = "running", !.alive = TRUE, !.reader = "reading"]
             K == [call[c] EXCEPT !.stage = "got", !.at = n]
  <2>1. IsFiniteSet(Started) /\ Started \cup {c} \subseteq Calls
    BY FS_Subset DEF Started
  <2>2. /\ Cardinality(Started \cup {c}) = Cardinality(Started) + 1
        /\ Cardinality(Started \cup {c}) <= Cardinality(Calls)
        /\ Cardinality(Started) \in Nat /\ Cardinality(Calls) \in Nat
    BY <1>1, <2>1, FS_AddElement, FS_Subset, FS_CardinalityType
  <2>3. spawned \in Nat /\ spawned <= Cardinality(Started)
    BY <2>2 DEF TInv, TypeOK, Spawned
  <2>4. n \in Nat /\ n # 0 /\ n <= Cardinality(Calls) /\ n \in Workers
    BY <2>2, <2>3 DEF Workers
  <2>5. worker[n] \in WorkerType
    BY <1>1, <2>4
  <2>6. W \in WorkerType
    BY <2>5 DEF WorkerType
  <2>7. W.child = "running"
    BY <2>5 DEF WorkerType
  <2>8. K \in CallType'
    <3>1. call[c].at \in 0..n /\ n \in 0..n
      BY <1>1, <2>3, <2>4 DEF CallType
    <3>2. spawned' = n
      BY <1>3
    <3> HIDE DEF n
    <3> QED
      BY <1>1, <3>1, <3>2 DEF CallType
  <2>9. K.stage = "got" /\ K.at = n
    BY <1>1 DEF CallType
  <2>10. worker' = [worker EXCEPT ![n] = W] /\ call' = [call EXCEPT ![c] = K]
         /\ spawned' = n /\ slot' = n /\ UNCHANGED holder
    BY <1>3 DEF Spawn
  <2> HIDE DEF n, W, K
  <2>11. CallType \subseteq CallType'
    BY <1>3, <2>3 DEF CallType
  <2>12. call' \in [Tasks -> CallType'] /\ worker' \in [Workers -> WorkerType]
    BY <1>1, <2>6, <2>8, <2>10, <2>11
  <2>13. \A t \in Tasks : (call'[t].stage = "killing") = (holder' = t)
    BY <1>1, <2>9, <2>10 DEF TInv, TypeOK
  <2>id. TypeOK'
    BY <2>4, <2>10, <2>12, <2>13 DEF TInv, TypeOK, Workers, WorkerType
  <2>15. Started' = Started \cup {c}
    BY <1>1, <2>9, <2>10 DEF Started, Tasks
  <2>16. \A w \in Workers : worker'[w].child = "none" <=> w > spawned'
    BY <1>1, <2>3, <2>4, <2>7, <2>10 DEF TInv, Spawned, Workers, n
  <2>17. \A t \in Tasks : call'[t].stage \notin {"idle", "done"} => call'[t].at # 0
    BY <1>1, <2>4, <2>9, <2>10 DEF TInv, Spawned
  <2>18. spawned' <= Cardinality(Started')
    BY <2>2, <2>3, <2>10, <2>15 DEF n
  <2> QED
    BY <2>id, <2>16, <2>17, <2>18 DEF TInv, Spawned, Workers
<1> QED
  BY <1>2, <1>3 DEF Spawn

LEMMA TNext == TInv /\ [Next]_vars => TInv'
<1> SUFFICES ASSUME TInv, [Next]_vars PROVE TInv'
  OBVIOUS
<1>1. CASE UNCHANGED vars
  BY <1>1, TypedSame
<1>2. ASSUME NEW c \in Calls, CallStep(c) \/ Drop(c) PROVE TInv'
  BY <1>2, TReuse, TSpawn, TInsert, TBeginWrite, TEndWrite, TWriteFails, TReceive,
     TClosed, TTimeOut, TDrop DEF CallStep
<1>3. ASSUME NEW t \in Tasks, RetireStep(t) PROVE TInv'
  BY <1>3, TRetireBegin, TRetireClear, TRetireKill DEF RetireStep
<1>4. ASSUME NEW w \in 1..spawned,
             \/ ReaderStep(w) \/ Exit(w) \/ Garbage(w) \/ Reap(w)
             \/ \E c \in Calls : Emit(w, c) \/ Answer(w, c)
      PROVE  TInv'
  BY <1>4, TRead, TStop, TClear, TExit, TGarbage, TEmit, TAnswer DEF ReaderStep
<1> QED
  BY <1>1, <1>2, <1>3, <1>4, TShutdown DEF Next

\* Every reachable state is well typed, workers are spawned by different calls,
\* and who is past ensure_worker has one (PythonBridge).
THEOREM BridgeTyped == Spec => []TInv
<1> QED
  BY TInit, TNext, PTL DEF Spec

\* The types of the bridge, the bound on its workers, and the mutex of the slot.
THEOREM BridgeTypeCorrect == Spec => []TypeOK
<1>1. TInv => TypeOK
  BY DEF TInv
<1> QED
  BY <1>1, BridgeTyped, PTL

-----------------------------------------------------------------------------
(***************************************************************************)
(* A call that failed with Died leaves no worker behind in the slot.       *)
(***************************************************************************)
Replaced ==
  \A t \in Tasks :
    /\ call[t].result = "died" => call[t].stage = "done" /\ call[t].at # 0
    /\ call[t].stage = "killing" \/ call[t].result = "died" => slot # call[t].at

LEMMA RNext == TInv /\ Replaced /\ [Next]_vars => Replaced'
<1> SUFFICES ASSUME TInv, Replaced, [Next]_vars PROVE Replaced'
  OBVIOUS
<1> USE DEF Replaced, At
<1>0. /\ call \in [Tasks -> CallType] /\ spawned \in Nat /\ slot \in 0..spawned
      /\ \A t \in Tasks : call[t].at \in 0..spawned /\ (call[t].stage = "killing") = (holder = t)
      /\ \A t \in Tasks : call[t].stage \notin {"idle", "done"} => call[t].at # 0
      /\ Calls \subseteq Tasks /\ Main \in Tasks /\ NoCall \notin Tasks
  BY CallsCounted DEF TInv, TypeOK, CallType, Tasks, Spawned
<1>1. ASSUME NEW c \in Calls, Reuse(c) PROVE Replaced'
  BY <1>0, <1>1 DEF Reuse, CallType
<1>2. ASSUME NEW c \in Calls, Spawn(c) PROVE Replaced'
  <2>1. CASE slot' = slot /\ call' = [call EXCEPT ![c] = [@ EXCEPT !.stage = "done", !.result = "spawn"]]
    BY <1>0, <1>2, <2>1 DEF Spawn, CallType
  <2>2. CASE /\ slot' = spawned + 1
             /\ call' = [call EXCEPT ![c] = [@ EXCEPT !.stage = "got", !.at = spawned + 1]]
    <3>1. \A t \in Tasks : spawned + 1 # call[t].at
      BY <1>0
    <3>2. call[c].stage = "idle" /\ call[c].result # "died"
      BY <1>0, <1>2 DEF Spawn
    <3>3. \A t \in Tasks : t # c => call'[t] = call[t]
      BY <1>0, <2>2
    <3>4. call'[c].stage = "got" /\ call'[c].result # "died"
      BY <1>0, <2>2, <3>2 DEF CallType
    <3> QED
      BY <1>0, <2>2, <3>1, <3>3, <3>4
  <2> QED
    BY <1>2, <2>1, <2>2 DEF Spawn, Return
<1>3. ASSUME NEW c \in Calls, Insert(c) PROVE Replaced'
  BY <1>0, <1>3 DEF Insert, Stage, Registered, CallType
<1>4. ASSUME NEW c \in Calls, BeginWrite(c) PROVE Replaced'
  BY <1>0, <1>4 DEF BeginWrite, Stage, CallType
<1>5. ASSUME NEW c \in Calls, EndWrite(c) PROVE Replaced'
  BY <1>0, <1>5 DEF EndWrite, Delivered, CallType
<1>6. ASSUME NEW c \in Calls, WriteFails(c) PROVE Replaced'
  BY <1>0, <1>6 DEF WriteFails, Stage, Unregistered, CallType
<1>7. ASSUME NEW c \in Calls, Receive(c) PROVE Replaced'
  <2>1. slot' = slot /\ \A t \in Tasks : t # c => call'[t] = call[t]
    BY <1>0, <1>7 DEF Receive
  <2>2. call[c].stage = "waiting" /\ call[c].result # "died" /\ c \in Tasks
    BY <1>0, <1>7 DEF Receive
  <2>4. Taken(call[c]) \in CallType /\ Taken(call[c]).result = call[c].result
        /\ Taken(call[c]).stage = "waiting"
    BY <1>0, <1>7, <2>2, Received DEF Receive
  <2>3. call'[c].stage \in {"waiting", "done"} /\ call'[c].result # "died"
    <3>1. CASE Head(call[c].rx) = "event"
      BY <1>0, <1>7, <2>2, <2>4, <3>1 DEF Receive, CallType
    <3>2. CASE Head(call[c].rx) # "event"
      <4> DEFINE K == [Taken(call[c]) EXCEPT !.stage = "done", !.result = "answer"]
      <4>1. call'[c] = K
        BY <1>0, <1>7, <2>2, <3>2 DEF Receive
      <4>2. K.stage = "done"
        BY <2>4 DEF CallType
      <4>3. K.result = "answer"
        BY <2>4 DEF CallType
      <4> QED
        BY <4>1, <4>2, <4>3
    <3> QED
      BY <3>1, <3>2
  <2> QED
    BY <2>1, <2>2, <2>3
<1>8. ASSUME NEW c \in Calls, Closed(c) PROVE Replaced'
  BY <1>0, <1>8 DEF Closed, Stage, CallType
<1>9. ASSUME NEW c \in Calls, TimeOut(c) PROVE Replaced'
  BY <1>0, <1>9 DEF TimeOut, Return, Unregistered, CallType
<1>10. ASSUME NEW c \in Calls, Drop(c) PROVE Replaced'
  BY <1>0, <1>10 DEF Drop, LeftBehind, Delivered, Killed, Freed, Ended, Stage, CallType
<1>11. ASSUME NEW t \in Tasks, RetireBegin(t) PROVE Replaced'
  BY <1>0, <1>11 DEF RetireBegin, Stage, CallType
<1>23. ASSUME NEW t \in Tasks, RetireClear(t) PROVE Replaced'
  BY <1>0, <1>23 DEF RetireClear, CallType
<1>12. ASSUME NEW t \in Tasks, RetireKill(t) PROVE Replaced'
  BY <1>0, <1>12 DEF RetireKill, Return, Freed, Killed, CallType
<1>13. ASSUME Shutdown PROVE Replaced'
  BY <1>0, <1>13 DEF Shutdown, CallType
<1>14. ASSUME NEW w \in 1..spawned, NEW c \in Calls, Emit(w, c) PROVE Replaced'
  BY <1>0, <1>14 DEF Emit, Printed, CallType
<1>15. ASSUME NEW w \in 1..spawned, NEW c \in Calls, Answer(w, c) PROVE Replaced'
  BY <1>0, <1>15 DEF Answer, Printed, Finished, CallType
<1>16. ASSUME NEW w \in 1..spawned, Exit(w) PROVE Replaced'
  BY <1>0, <1>16 DEF Exit, Killed, CallType
<1>17. ASSUME NEW w \in 1..spawned, Garbage(w) PROVE Replaced'
  BY <1>0, <1>17 DEF Garbage, Printed, CallType
<1>18. ASSUME NEW w \in 1..spawned, Reap(w) PROVE Replaced'
  BY <1>0, <1>18 DEF Reap, Killed, CallType
<1>19. ASSUME NEW w \in 1..spawned, Read(w) PROVE Replaced'
  <2> DEFINE i == Head(worker[w].out).id
  <2>1. slot' = slot
    BY <1>19 DEF Read
  <2>2. \/ call' = call
        \/ i \in worker[w].pending /\ call' = [call EXCEPT ![i] = Sent(@, Head(worker[w].out).is)]
    BY <1>19 DEF Read
  <2>3. worker[w].pending \subseteq Tasks
    BY <1>0, Born DEF WorkerType
  <2> HIDE DEF i
  <2>4. \A t \in Tasks : /\ call'[t].stage = call[t].stage /\ call'[t].at = call[t].at
                         /\ call'[t].result = call[t].result
    BY <1>0, <2>2, <2>3, SentKeeps
  <2> QED
    BY <2>1, <2>4
<1>20. ASSUME NEW w \in 1..spawned, Stop(w) PROVE Replaced'
  BY <1>0, <1>20 DEF Stop, CallType
<1>21. ASSUME NEW w \in 1..spawned, Clear(w) PROVE Replaced'
  BY <1>0, <1>21 DEF Clear, CallType
<1>22. CASE UNCHANGED vars
  BY <1>22 DEF vars
<1> QED
  BY <1>1, <1>2, <1>3, <1>4, <1>5, <1>6, <1>7, <1>8, <1>9, <1>10, <1>11, <1>12, <1>13, <1>14, <1>15, <1>16, <1>17, <1>18, <1>19, <1>20, <1>21, <1>22, <1>23 DEF Next, CallStep, RetireStep, ReaderStep

\* Only ensure_worker takes a call out of idle.
LEMMA FirstStep ==
  ASSUME TInv, [Next]_vars, NEW c \in Calls, call[c].stage = "idle",
         call'[c].stage # "idle"
  PROVE  Reuse(c) \/ Spawn(c)
<1>0. /\ call \in [Tasks -> CallType] /\ c \in Tasks /\ c # Main
      /\ Calls \subseteq Tasks
  BY DEF TInv, TypeOK, Tasks
<1>1. ASSUME NEW b \in Calls,
             \/ Insert(b) \/ BeginWrite(b) \/ EndWrite(b) \/ WriteFails(b) \/ Receive(b)
             \/ Closed(b) \/ TimeOut(b) \/ Drop(b)
      PROVE  FALSE
  <2>1. call[b].stage # "idle"
    BY <1>1 DEF Insert, BeginWrite, EndWrite, WriteFails, Receive, Closed, TimeOut, Drop
  <2>2. call'[c] = call[c]
    BY <1>0, <1>1, <2>1 DEF Insert, BeginWrite, EndWrite, WriteFails, Receive, Closed,
       TimeOut, Drop, Stage, Return
  <2> QED
    BY <2>2
<1>2. ASSUME NEW b \in Calls, Reuse(b) \/ Spawn(b), b # c PROVE FALSE
  BY <1>0, <1>2 DEF Reuse, Spawn, Return
<1>3. ASSUME NEW t \in Tasks, RetireStep(t) PROVE FALSE
  BY <1>0, <1>3 DEF RetireStep, RetireBegin, RetireClear, RetireKill, Stage, Return
<1>4. ASSUME Shutdown PROVE FALSE
  BY <1>0, <1>4 DEF Shutdown
<1>5. ASSUME NEW w \in 1..spawned, Read(w) PROVE FALSE
  <2> DEFINE i == Head(worker[w].out).id
  <2>1. \/ call' = call
        \/ i \in worker[w].pending /\ call' = [call EXCEPT ![i] = Sent(@, Head(worker[w].out).is)]
    BY <1>5 DEF Read
  <2>2. worker[w].pending \subseteq Tasks
    BY <1>0, Born DEF WorkerType
  <2> HIDE DEF i
  <2>3. call'[c].stage = call[c].stage
    BY <1>0, <2>1, <2>2, SentKeeps
  <2> QED
    BY <2>3
<1>6. ASSUME NEW w \in 1..spawned, NEW b \in Calls, Emit(w, b) PROVE FALSE
  BY <1>0, <1>6 DEF Emit, CallType
<1>7. ASSUME NEW w \in 1..spawned, NEW b \in Calls,
             Answer(w, b) \/ Exit(w) \/ Garbage(w) \/ Reap(w) \/ Stop(w) \/ Clear(w)
      PROVE  FALSE
  BY <1>7 DEF Answer, Exit, Garbage, Reap, Stop, Clear
<1>8. CASE UNCHANGED vars
  BY <1>8 DEF vars
<1> QED
  BY <1>1, <1>2, <1>3, <1>4, <1>5, <1>6, <1>7, <1>8 DEF Next, CallStep, ReaderStep

\* A worker on which a call failed with Died is never handed out again: retire
\* empties the slot before the call returns, and numbers are not reused.
THEOREM NeverReused == Spec => DiedMeansReplaced
<1>1. Init => Replaced
  BY DEF Init, Replaced, Idle, Tasks
<1>2. TInv /\ Replaced /\ [Next]_vars =>
        [\A b, c \in Calls :
           /\ call[b].result = "died"
           /\ call[c].stage = "idle" /\ call'[c].stage = "got"
           => call'[c].at # call[b].at]_vars
  <2> SUFFICES ASSUME TInv, Replaced, [Next]_vars, NEW b \in Calls, NEW c \in Calls,
                      call[b].result = "died", call[c].stage = "idle", call'[c].stage = "got"
               PROVE  call'[c].at # call[b].at
    OBVIOUS
  <2>1. Reuse(c) \/ Spawn(c)
    BY FirstStep
  <2>2. b \in Tasks /\ c \in Tasks /\ call \in [Tasks -> CallType]
        /\ call[b].at \in 0..spawned /\ spawned \in Nat
    BY CallsCounted DEF TInv, TypeOK, Tasks, CallType
  <2>3. CASE Reuse(c)
    BY <2>2, <2>3 DEF Reuse, Replaced, CallType
  <2>4. CASE Spawn(c)
    <3>1. \/ call' = [call EXCEPT ![c] = [@ EXCEPT !.stage = "got", !.at = spawned + 1]]
          \/ call' = [call EXCEPT ![c] = [@ EXCEPT !.stage = "done", !.result = "spawn"]]
      BY <2>4 DEF Spawn, Return
    <3>2. call[c] \in CallType
      BY <2>2
    <3>3. CASE call' = [call EXCEPT ![c] = [@ EXCEPT !.stage = "got", !.at = spawned + 1]]
      <4>1. call'[c].at = spawned + 1
        BY <2>2, <3>2, <3>3 DEF CallType
      <4> QED
        BY <2>2, <4>1
    <3>4. CASE call' = [call EXCEPT ![c] = [@ EXCEPT !.stage = "done", !.result = "spawn"]]
      <4>1. call'[c].stage = "done"
        BY <2>2, <3>2, <3>4 DEF CallType
      <4> QED
        BY <4>1
    <3> QED
      BY <3>1, <3>3, <3>4
  <2> QED
    BY <2>1, <2>3, <2>4
<1> QED
  BY <1>1, <1>2, RNext, BridgeTyped, PTL DEF Spec, DiedMeansReplaced

-----------------------------------------------------------------------------
(***************************************************************************)
(* The pending maps: who is in one has a channel without an answer.        *)
(***************************************************************************)
Unanswered(c) == \A i \in DOMAIN call[c].rx : call[c].rx[i] = "event"

Routes ==
  /\ \A w \in Workers : \A c \in worker[w].pending :
       /\ call[c].at = w /\ Unanswered(c)
       /\ call[c].stage \in {"inserted", "writing", "waiting", "dropped"}
  /\ \A c \in Calls : call[c].stage \in {"idle", "got"} => call[c].rx = <<>>

LEMMA PendingOf ==
  ASSUME NEW W \in WorkerType, NEW c \in Calls
  PROVE  /\ Delivered(W, c) \in WorkerType /\ Delivered(W, c).pending = W.pending
         /\ [W EXCEPT !.torn = TRUE] \in WorkerType /\ [W EXCEPT !.torn = TRUE].pending = W.pending
         /\ [Killed(W) EXCEPT !.alive = FALSE] \in WorkerType
         /\ [Killed(W) EXCEPT !.alive = FALSE].pending = W.pending
<1>1. Delivered(W, c) \in WorkerType /\ Delivered(W, c).pending = W.pending
  BY DEF Delivered, WorkerType
<1>2. [W EXCEPT !.torn = TRUE] \in WorkerType /\ [W EXCEPT !.torn = TRUE].pending = W.pending
  BY DEF WorkerType
<1>3. Killed(W) \in WorkerType /\ Killed(W).pending = W.pending
  BY DEF Killed, WorkerType
<1>4. /\ [Killed(W) EXCEPT !.alive = FALSE] \in WorkerType
      /\ [Killed(W) EXCEPT !.alive = FALSE].pending = W.pending
  BY <1>3 DEF WorkerType
<1> QED
  BY <1>1, <1>2, <1>4

LEMMA RoutedPending ==
  ASSUME NEW W \in WorkerType
  PROVE  \A line \in Line : Routed(W, line).pending =
           IF line.is = "event" THEN W.pending ELSE W.pending \ {line.id}
<1> SUFFICES ASSUME NEW line \in Line
             PROVE  Routed(W, line).pending =
                      IF line.is = "event" THEN W.pending ELSE W.pending \ {line.id}
  OBVIOUS
<1>1. Unregistered(W, line.id).pending = W.pending \ {line.id}
  BY DEF Unregistered, WorkerType
<1> QED
  BY <1>1 DEF Routed

LEMMA EventsOnly ==
  ASSUME NEW q \in Seq({"event", "answer"}), \A i \in DOMAIN q : q[i] = "event"
  PROVE  /\ \A i \in DOMAIN Append(q, "event") : Append(q, "event")[i] = "event"
         /\ q # <<>> => \A i \in DOMAIN Tail(q) : Tail(q)[i] = "event"
OBVIOUS

\* A step on one call: its own entries keep to the rules, no map has grown.
LEMMA RoutesOne ==
  ASSUME TInv, Routes, NEW c \in Calls,
         \A d \in Calls : d # c => call'[d] = call[d],
         \A v \in Workers : worker'[v].pending \subseteq worker[v].pending,
         call'[c].stage \notin {"idle", "got"} \/ call'[c].rx = <<>>,
         \A v \in Workers : c \in worker'[v].pending =>
           /\ call'[c].at = call[c].at /\ Unanswered(c)'
           /\ call'[c].stage \in {"inserted", "writing", "waiting", "dropped"}
  PROVE  Routes'
<1>1. Workers' = Workers /\ \A w \in Workers : worker[w].pending \subseteq Calls
  BY DEF Workers, TInv, TypeOK, WorkerType
<1>2. ASSUME NEW v \in Workers, NEW d \in worker'[v].pending
      PROVE  /\ call'[d].at = v /\ Unanswered(d)'
             /\ call'[d].stage \in {"inserted", "writing", "waiting", "dropped"}
  <2>1. d \in worker[v].pending /\ d \in Calls
    BY <1>1
  <2>2. CASE d = c
    BY <2>1, <2>2 DEF Routes
  <2>3. CASE d # c
    BY <2>1, <2>3 DEF Routes, Unanswered
  <2> QED
    BY <2>2, <2>3
<1>3. ASSUME NEW d \in Calls, call'[d].stage \in {"idle", "got"} PROVE call'[d].rx = <<>>
  BY <1>3 DEF Routes
<1> QED
  BY <1>1, <1>2, <1>3 DEF Routes

LEMMA RoutesNext == TInv /\ Routes /\ [Next]_vars => Routes'
<1> SUFFICES ASSUME TInv, Routes, [Next]_vars PROVE Routes'
  OBVIOUS
<1> USE DEF Routes, At, Unanswered
<1>0. /\ call \in [Tasks -> CallType] /\ worker \in [Workers -> WorkerType]
      /\ \A w \in Workers : worker[w].pending \subseteq Calls
      /\ Calls \subseteq Tasks /\ Main \in Tasks /\ Main \notin Calls
      /\ Workers' = Workers
      /\ \A t \in Tasks : call[t].stage \notin {"idle", "done"} => call[t].at \in Workers
      /\ spawned \in Nat /\ 1..spawned \subseteq Workers
  <2>1. /\ call \in [Tasks -> CallType] /\ worker \in [Workers -> WorkerType]
        /\ \A w \in Workers : worker[w].pending \subseteq Calls
    BY DEF TInv, TypeOK, WorkerType
  <2>2. Calls \subseteq Tasks /\ Main \in Tasks /\ Main \notin Calls /\ Workers' = Workers
    BY BridgeAssumption DEF Tasks, Workers
  <2>3. spawned \in Nat /\ 1..spawned \subseteq Workers
    BY CallsCounted DEF TInv, TypeOK, Workers
  <2>4. \A t \in Tasks : call[t].stage \notin {"idle", "done"} => call[t].at \in Workers
    BY <2>3, HasWorker
  <2> QED BY <2>1, <2>2, <2>3, <2>4
<1>1. ASSUME NEW c \in Calls, Reuse(c) PROVE Routes'
  BY <1>0, <1>1 DEF Reuse, CallType, WorkerType
<1>2. ASSUME NEW c \in Calls, Spawn(c) PROVE Routes'
  <2>1. call[c].stage = "idle" /\ c \in Tasks /\ call[c] \in CallType
    BY <1>0, <1>2 DEF Spawn, TInv, TypeOK
  <2>2. \A v \in Workers : worker'[v].pending = worker[v].pending
    <3>1. CASE worker' = worker
      BY <3>1
    <3>2. CASE worker' = [worker EXCEPT ![spawned + 1] =
                 [@ EXCEPT !.child = "running", !.alive = TRUE, !.reader = "reading"]]
      BY <1>0, <3>2 DEF WorkerType
    <3> QED
      BY <1>2, <3>1, <3>2 DEF Spawn
  <2>3. \A u \in Tasks : u # c => call'[u] = call[u]
    BY <1>0, <1>2 DEF Spawn, Return
  <2>4. call'[c].rx = call[c].rx
    <3>1. CASE call' = [call EXCEPT ![c] = [@ EXCEPT !.stage = "got", !.at = spawned + 1]]
      BY <1>0, <2>1, <3>1 DEF CallType
    <3>2. CASE call' = [call EXCEPT ![c] = [@ EXCEPT !.stage = "done", !.result = "spawn"]]
      BY <1>0, <2>1, <3>2 DEF CallType
    <3> QED
      BY <1>2, <3>1, <3>2 DEF Spawn, Return
  <2> QED
    BY <1>0, <2>1, <2>2, <2>3, <2>4
<1>3. ASSUME NEW c \in Calls, Insert(c) PROVE Routes'
  BY <1>0, <1>3 DEF Insert, Stage, Registered, CallType, WorkerType
<1>4. ASSUME NEW c \in Calls, BeginWrite(c) PROVE Routes'
  BY <1>0, <1>4 DEF BeginWrite, Stage, CallType, WorkerType
<1>5. ASSUME NEW c \in Calls, EndWrite(c) PROVE Routes'
  BY <1>0, <1>5 DEF EndWrite, Delivered, CallType, WorkerType
<1>6. ASSUME NEW c \in Calls, WriteFails(c) PROVE Routes'
  BY <1>0, <1>6 DEF WriteFails, Stage, Unregistered, CallType, WorkerType
<1>7. ASSUME NEW c \in Calls, Receive(c) PROVE Routes'
  <2>1. /\ c \in Tasks /\ call[c].stage = "waiting" /\ call[c].rx # <<>>
        /\ call[c] \in CallType /\ worker' = worker
        /\ \A u \in Tasks : u # c => call'[u] = call[u]
    BY <1>0, <1>7 DEF Receive, TInv, TypeOK
  <2>2. /\ Taken(call[c]) \in CallType /\ Taken(call[c]).at = call[c].at
        /\ Taken(call[c]).stage = "waiting" /\ Taken(call[c]).rx = Tail(call[c].rx)
    BY <2>1, Received DEF Taken, CallType
  <2>3. CASE Head(call[c].rx) = "event"
    <3>1. call'[c] = [Taken(call[c]) EXCEPT !.seen = call[c].seen + 1]
      BY <1>0, <1>7, <2>1, <2>3 DEF Receive
    <3>2. /\ call'[c].stage = "waiting" /\ call'[c].at = call[c].at
          /\ call'[c].rx = Tail(call[c].rx)
      BY <2>2, <3>1 DEF CallType
    <3>3. call[c].rx \in Seq({"event", "answer"})
      BY <2>1 DEF CallType
    <3>4. Unanswered(c) => Unanswered(c)'
      BY <2>1, <3>2, <3>3, EventsOnly
    <3>5. \A v \in Workers : c \in worker[v].pending => Unanswered(c)
      OBVIOUS
    <3> HIDE DEF Routes, Unanswered
    <3> QED
      BY <1>0, <2>1, <3>2, <3>4, <3>5, RoutesOne
  <2>4. CASE Head(call[c].rx) # "event"
    <3>1. \A v \in Workers : c \notin worker[v].pending
      <4>1. 1 \in DOMAIN call[c].rx /\ call[c].rx[1] # "event"
        BY <2>1, <2>4 DEF CallType
      <4> QED
        BY <4>1
    <3>2. call'[c] = [Taken(call[c]) EXCEPT !.stage = "done", !.result = "answer"]
      BY <1>0, <1>7, <2>1, <2>4 DEF Receive
    <3>3. call'[c].stage = "done"
      BY <2>2, <3>2 DEF CallType
    <3> QED
      BY <1>0, <2>1, <3>1, <3>3
  <2> QED
    BY <2>3, <2>4
<1>8. ASSUME NEW c \in Calls, Closed(c) PROVE Routes'
  BY <1>0, <1>8 DEF Closed, Stage, CallType, WorkerType
<1>9. ASSUME NEW c \in Calls, TimeOut(c) PROVE Routes'
  BY <1>0, <1>9 DEF TimeOut, Return, Unregistered, CallType, WorkerType
<1>10. ASSUME NEW c \in Calls, Drop(c) PROVE Routes'
  <2>1. c \in Tasks /\ call[c].at \in Workers /\ call[c] \in CallType
    BY <1>0, <1>10 DEF Drop, Ended, TInv, TypeOK
  <2>2. PICK w \in LeftBehind(At(c), c) : worker' = [worker EXCEPT ![call[c].at] = Freed(w, c)]
    BY <1>10 DEF Drop
  <2>3. worker[call[c].at] \in WorkerType
    BY <1>0, <2>1
  <2>4. w \in WorkerType /\ w.pending = worker[call[c].at].pending
    <3>1. w \in {At(c), Delivered(At(c), c), [At(c) EXCEPT !.torn = TRUE],
                  [Killed(At(c)) EXCEPT !.alive = FALSE]}
      BY <2>2 DEF LeftBehind
    <3>2. At(c) \in WorkerType /\ At(c) = worker[call[c].at]
      BY <2>3
    <3> DEFINE W == At(c)
    <3> HIDE DEF W
    <3>3. W \in WorkerType /\ W.pending = worker[call[c].at].pending
      BY <3>2 DEF W
    <3>4. w \in {W, Delivered(W, c), [W EXCEPT !.torn = TRUE],
                  [Killed(W) EXCEPT !.alive = FALSE]}
      BY <3>1 DEF W
    <3>5. CASE w = W
      BY <3>3, <3>5
    <3>6. CASE w = Delivered(W, c)
      <4>1. Delivered(W, c) \in WorkerType /\ Delivered(W, c).pending = W.pending
        BY <3>3, PendingOf
      <4> QED
        BY <3>3, <3>6, <4>1
    <3>7. CASE w = [W EXCEPT !.torn = TRUE]
      BY <3>3, <3>7, PendingOf
    <3>8. CASE w = [Killed(W) EXCEPT !.alive = FALSE]
      BY <3>3, <3>8, PendingOf
    <3> QED
      BY <3>4, <3>5, <3>6, <3>7, <3>8
  <2>5. Freed(w, c).pending = worker[call[c].at].pending
    BY <2>4 DEF Freed, WorkerType
  <2>6. \A v \in Workers : worker'[v].pending = worker[v].pending
    BY <1>0, <2>1, <2>2, <2>5
  <2>7. call' = [call EXCEPT ![c] = [@ EXCEPT !.stage = "dropped"]]
    BY <1>10 DEF Drop, Stage
  <2>8. /\ call'[c].stage = "dropped" /\ call'[c].at = call[c].at /\ call'[c].rx = call[c].rx
        /\ \A u \in Tasks : u # c => call'[u] = call[u]
    BY <1>0, <2>1, <2>7 DEF CallType
  <2> QED
    BY <1>0, <2>1, <2>6, <2>8
<1>11. ASSUME NEW t \in Tasks, RetireBegin(t) PROVE Routes'
  BY <1>0, <1>11 DEF RetireBegin, Stage, CallType
<1>23. ASSUME NEW t \in Tasks, RetireClear(t) PROVE Routes'
  BY <1>0, <1>23 DEF RetireClear, CallType, WorkerType
<1>12. ASSUME NEW t \in Tasks, RetireKill(t) PROVE Routes'
  BY <1>0, <1>12 DEF RetireKill, Return, Freed, Killed, CallType, WorkerType
<1>13. ASSUME Shutdown PROVE Routes'
  BY <1>0, <1>13 DEF Shutdown, CallType, WorkerType
<1>14. ASSUME NEW w \in 1..spawned, NEW c \in Calls, Emit(w, c) PROVE Routes'
  BY <1>0, <1>14 DEF Emit, Printed, CallType, WorkerType
<1>15. ASSUME NEW w \in 1..spawned, NEW c \in Calls, Answer(w, c) PROVE Routes'
  BY <1>0, <1>15 DEF Answer, Printed, Finished, CallType, WorkerType
<1>16. ASSUME NEW w \in 1..spawned, Exit(w) PROVE Routes'
  BY <1>0, <1>16 DEF Exit, Killed, CallType, WorkerType
<1>17. ASSUME NEW w \in 1..spawned, Garbage(w) PROVE Routes'
  BY <1>0, <1>17 DEF Garbage, Printed, CallType, WorkerType
<1>18. ASSUME NEW w \in 1..spawned, Reap(w) PROVE Routes'
  BY <1>0, <1>18 DEF Reap, Killed, CallType, WorkerType
<1>19. ASSUME NEW w \in 1..spawned, Read(w) PROVE Routes'
  <2>line. PICK line : line = Head(worker[w].out)
    OBVIOUS
  <2>id. PICK i : i = line.id
    OBVIOUS
  <2>1. w \in Workers /\ worker[w] \in WorkerType
    BY <1>0
  <2>2. line \in Line
    BY <1>19, <2>line, <2>1 DEF Read, WorkerType
  <2>3. /\ \A v \in Workers : v # w => worker'[v] = worker[v]
        /\ worker'[w] = [Routed(worker[w], line) EXCEPT !.out = Tail(worker[w].out)]
    BY <1>0, <1>19, <2>line, <2>1 DEF Read
  <2>4. Routed(worker[w], line) \in WorkerType
    BY <2>1, <2>2, WorkerForms
  <2>5. worker'[w].pending = Routed(worker[w], line).pending
    BY <2>3, <2>4 DEF WorkerType
  <2>6. worker'[w].pending =
          IF line.is = "event" THEN worker[w].pending ELSE worker[w].pending \ {i}
    <3>1. Routed(worker[w], line).pending =
            IF line.is = "event" THEN worker[w].pending ELSE worker[w].pending \ {line.id}
      <4>1. \A l \in Line : Routed(worker[w], l).pending =
              IF l.is = "event" THEN worker[w].pending ELSE worker[w].pending \ {l.id}
        <5> HIDE DEF At, Routes, Unanswered
        <5> QED
          BY <2>1, RoutedPending
      <4> QED
        BY <2>2, <4>1
    <3>2. Routed(worker[w], line).pending =
            IF line.is = "event" THEN worker[w].pending ELSE worker[w].pending \ {i}
      BY <2>id, <3>1
    <3> HIDE DEF At, Routes, Unanswered
    <3> QED
      BY <2>5, <3>2
  <2>7. call' = IF i \in worker[w].pending THEN [call EXCEPT ![i] = Sent(@, line.is)] ELSE call
    BY <1>19, <2>line, <2>id DEF Read
  <2>8. \A v \in Workers : worker'[v].pending \subseteq worker[v].pending
    <3>1. ASSUME NEW v \in Workers PROVE worker'[v].pending \subseteq worker[v].pending
      <4>1. CASE v = w
        BY <4>1, <2>6
      <4>2. CASE v # w
        BY <4>2, <2>3
      <4> QED
        BY <4>1, <4>2
    <3> QED
      BY <3>1
  <2>9. CASE i \notin worker[w].pending
    <3>1. call' = call
      BY <2>7, <2>9
    <3> QED
      BY <1>0, <2>8, <3>1
  <2>10. CASE i \in worker[w].pending
    <3>1. i \in Calls /\ i \in Tasks /\ call[i] \in CallType
      BY <1>0, <2>1, <2>10 DEF TInv, TypeOK
    <3>2. /\ call'[i] = Sent(call[i], line.is)
          /\ \A d \in Calls : d # i => call'[d] = call[d]
      BY <1>0, <2>7, <2>10, <3>1
    <3>3. Sent(call[i], line.is).rx = Append(call[i].rx, line.is)
      BY <3>1 DEF Sent, CallType
    <3>4. /\ call'[i].stage = call[i].stage /\ call'[i].at = call[i].at
          /\ call'[i].rx = Append(call[i].rx, line.is)
      BY <3>1, <3>2, <3>3, SentKeeps
    <3>5. /\ call[i].at = w /\ Unanswered(i)
          /\ call[i].stage \in {"inserted", "writing", "waiting", "dropped"}
      BY <2>1, <2>10
    <3>6. call[i].rx \in Seq({"event", "answer"})
      BY <3>1 DEF CallType
    <3>7. line.is = "event" => Unanswered(i)'
      <4> DEFINE q == call[i].rx
      <4>1. q \in Seq({"event", "answer"}) /\ \A j \in DOMAIN q : q[j] = "event"
        BY <3>5, <3>6
      <4>2. call'[i].rx = Append(q, line.is)
        BY <3>4
      <4> HIDE DEF q
      <4>3. \A j \in DOMAIN Append(q, "event") : Append(q, "event")[j] = "event"
        BY <4>1, EventsOnly
      <4> QED
        BY <4>2, <4>3
    <3>8. line.is # "event" => \A v \in Workers : i \notin worker'[v].pending
      <4>1. \A v \in Workers : i \in worker[v].pending => v = w
        BY <3>5
      <4> QED
        BY <2>6, <2>8, <4>1
    <3>9. call'[i].stage \notin {"idle", "got"}
      BY <3>4, <3>5
    <3>10. ASSUME NEW v \in Workers, i \in worker'[v].pending
           PROVE  /\ call'[i].at = call[i].at /\ Unanswered(i)'
                  /\ call'[i].stage \in {"inserted", "writing", "waiting", "dropped"}
      <4> HIDE DEF Unanswered
      <4> QED
        BY <3>4, <3>5, <3>7, <3>8, <3>10
    <3> HIDE DEF Routes, Unanswered
    <3> QED
      BY <1>0, <2>8, <3>1, <3>2, <3>9, <3>10, RoutesOne
  <2> QED
    BY <2>9, <2>10
<1>20. ASSUME NEW w \in 1..spawned, Stop(w) PROVE Routes'
  BY <1>0, <1>20 DEF Stop, CallType, WorkerType
<1>21. ASSUME NEW w \in 1..spawned, Clear(w) PROVE Routes'
  BY <1>0, <1>21 DEF Clear, CallType, WorkerType
<1>22. CASE UNCHANGED vars
  BY <1>22, <1>0 DEF vars
<1> QED
  BY <1>1, <1>2, <1>3, <1>4, <1>5, <1>6, <1>7, <1>8, <1>9, <1>10, <1>11, <1>12, <1>13, <1>14, <1>15, <1>16, <1>17, <1>18, <1>19, <1>20, <1>21, <1>22, <1>23 DEF Next, CallStep, RetireStep, ReaderStep

\* A call that returned, however it did, has no entry in any pending map.
THEOREM LeavesNoEntry == Spec => []NoLeak
<1>1. Init => Routes
  BY DEF Init, Routes, Idle, Unborn, Tasks
<1>2. Routes => NoLeak
  BY DEF Routes, NoLeak
<1> QED
  BY <1>1, <1>2, RoutesNext, BridgeTyped, PTL DEF Spec

-----------------------------------------------------------------------------
(***************************************************************************)
(* One process at a time.  A process that nobody let go of is the one in    *)
(* the slot, or the one that the holder of the slot's mutex is killing: in  *)
(* the second case the slot is empty, or that process is already gone.      *)
(***************************************************************************)
Busy(w) == worker[w].child = "running" /\ ~LetGo(w)

Killing(w) == \E t \in Tasks : call[t].stage = "killing" /\ call[t].at = w

Alone ==
  /\ \A w \in Workers : Busy(w) => slot = w \/ Killing(w)
  /\ slot # 0 => \A w \in Workers : Killing(w) => ~Busy(w)
  /\ \A w \in Workers :
       worker[w].child = "running" /\ worker[w].reader = "reading" => worker[w].alive

\* What TInv says of tasks and workers, once and for all.
LEMMA Typed ==
  ASSUME TInv
  PROVE  /\ call \in [Tasks -> CallType] /\ worker \in [Workers -> WorkerType]
         /\ Calls \subseteq Tasks /\ Main \in Tasks /\ Main \notin Calls /\ NoCall \notin Tasks
         /\ Workers' = Workers /\ \A w \in Workers : w # 0
         /\ \A t \in Tasks : call[t].stage \notin {"idle", "done"} => call[t].at \in Workers
         /\ \A t \in Tasks : (call[t].stage = "killing") = (holder = t)
         /\ spawned \in Nat /\ 1..spawned \subseteq Workers
BY HasWorker, Born, CallsCounted DEF TInv, TypeOK, Tasks, Workers

\* A step that starts no process and lets go of none.
LEMMA NoneStarts ==
  ASSUME TInv,
         \A w \in Workers : /\ worker'[w].child = "running" => worker[w].child = "running"
                            /\ worker'[w].reader = "reading" => worker[w].reader = "reading",
         \A t \in Tasks : call[t].stage \in {"retire", "killing", "dropped"} =>
           call'[t].at = call[t].at /\
           (call'[t].stage = call[t].stage \/ (t = Main /\ call'[t].stage = "killing"))
  PROVE  \A w \in Workers : Busy(w)' => Busy(w)
<1> SUFFICES ASSUME NEW w \in Workers, LetGo(w)
             PROVE  LetGo(w)'
  BY DEF Busy
<1>1. Main \in Tasks /\ Calls \subseteq Tasks
  BY Typed
<1>2. CASE worker[w].reader # "reading"
  BY <1>2 DEF LetGo
<1>3. CASE call[Main].at = w /\ call[Main].stage \in {"retire", "killing"}
  BY <1>1, <1>3 DEF LetGo
<1>4. CASE \E c \in Calls : call[c].at = w /\ call[c].stage = "dropped"
  <2>1. PICK c \in Calls : call[c].at = w /\ call[c].stage = "dropped"
    BY <1>4
  <2>2. call'[c].at = w /\ call'[c].stage = "dropped"
    BY <1>1, <2>1
  <2> QED BY <2>2 DEF LetGo
<1> QED BY <1>2, <1>3, <1>4 DEF LetGo

\* A step that leaves the slot and its mutex alone.
LEMMA AloneStep ==
  ASSUME TInv, Alone, slot' = slot,
         \A w \in Workers : /\ worker'[w].child = "running" => worker[w].child = "running"
                            /\ worker'[w].reader = "reading" =>
                                 worker[w].reader = "reading" /\ worker'[w].alive = worker[w].alive,
         \A t \in Tasks :
           /\ call[t].stage \in {"retire", "killing", "dropped"} =>
                call'[t].at = call[t].at /\ call'[t].stage = call[t].stage
           /\ call'[t].stage = "killing" => call[t].stage = "killing"
  PROVE  Alone'
<1>1. \A w \in Workers : Busy(w)' => Busy(w)
  BY NoneStarts
<1>2. \A w \in Workers : Killing(w)' = Killing(w)
  BY Typed DEF Killing
<1>3. Workers' = Workers
  BY Typed
<1> HIDE DEF Busy, Killing
<1>4. (\A w \in Workers : Busy(w) => slot = w \/ Killing(w))'
  BY <1>1, <1>2, <1>3 DEF Alone
<1>5. (slot # 0 => \A w \in Workers : Killing(w) => ~Busy(w))'
  BY <1>1, <1>2, <1>3 DEF Alone
<1>6. (\A w \in Workers :
       worker[w].child = "running" /\ worker[w].reader = "reading" => worker[w].alive)'
  BY <1>3 DEF Alone
<1> QED BY <1>4, <1>5, <1>6 DEF Alone
-----------------------------------------------------------------------------
(***************************************************************************)
(* What the steps do, field by field                                       *)
(***************************************************************************)
OnlyCall(c)    == \A t \in Tasks : t # c => call'[t] = call[t]
OnlyWorker(w)  == \A v \in Workers : v # w => worker'[v] = worker[v]
SameProcess(w) == /\ worker'[w].child = worker[w].child /\ worker'[w].alive = worker[w].alive
                  /\ worker'[w].reader = worker[w].reader
SameTalk(w)    == worker'[w].work = worker[w].work /\ worker'[w].out = worker[w].out
SameNews(c)    == /\ call'[c].rx = call[c].rx /\ call'[c].sent = call[c].sent
                  /\ call'[c].seen = call[c].seen /\ call'[c].mangled = call[c].mangled

LEMMA ReuseDoes ==
  ASSUME TInv, NEW c \in Calls, Reuse(c)
  PROVE  /\ OnlyCall(c) /\ SameNews(c) /\ call[c].stage = "idle" /\ call'[c].stage = "got"
         /\ call'[c].result = call[c].result /\ UNCHANGED <<slot, holder, worker>>
BY Typed DEF Reuse, OnlyCall, SameNews, CallType

LEMMA InsertDoes ==
  ASSUME TInv, NEW c \in Calls, Insert(c), NEW w, w = call[c].at
  PROVE  /\ OnlyCall(c) /\ SameNews(c) /\ call[c].stage = "got" /\ call'[c].stage = "inserted"
         /\ call'[c].result = call[c].result /\ call'[c].at = w /\ UNCHANGED <<slot, holder>>
         /\ w \in Workers /\ OnlyWorker(w) /\ SameProcess(w) /\ SameTalk(w)
         /\ worker'[w].pending = worker[w].pending \cup {c}
<1>1. call[c].stage = "got" /\ c \in Tasks /\ w \in Workers
  BY Typed DEF Insert
<1>2. OnlyCall(c) /\ SameNews(c) /\ call'[c].stage = "inserted" /\ call'[c].at = w
      /\ call'[c].result = call[c].result
  BY <1>1, Typed DEF Insert, Stage, OnlyCall, SameNews, CallType
<1>3. /\ OnlyWorker(w) /\ SameProcess(w) /\ SameTalk(w)
      /\ worker'[w].pending = worker[w].pending \cup {c}
  BY <1>1, Typed DEF Insert, Registered, OnlyWorker, SameProcess, SameTalk, WorkerType
<1> QED BY <1>1, <1>2, <1>3 DEF Insert

LEMMA BeginWriteDoes ==
  ASSUME TInv, NEW c \in Calls, BeginWrite(c), NEW w, w = call[c].at
  PROVE  /\ OnlyCall(c) /\ SameNews(c) /\ call[c].stage = "inserted" /\ call'[c].stage = "writing"
         /\ call'[c].result = call[c].result /\ call'[c].at = w /\ UNCHANGED <<slot, holder>>
         /\ w \in Workers /\ OnlyWorker(w) /\ SameProcess(w) /\ SameTalk(w)
         /\ worker'[w].pending = worker[w].pending
<1>1. call[c].stage = "inserted" /\ c \in Tasks /\ w \in Workers
  BY Typed DEF BeginWrite
<1>2. OnlyCall(c) /\ SameNews(c) /\ call'[c].stage = "writing" /\ call'[c].at = w
      /\ call'[c].result = call[c].result
  BY <1>1, Typed DEF BeginWrite, Stage, OnlyCall, SameNews, CallType
<1>3. /\ OnlyWorker(w) /\ SameProcess(w) /\ SameTalk(w)
      /\ worker'[w].pending = worker[w].pending
  BY <1>1, Typed DEF BeginWrite, OnlyWorker, SameProcess, SameTalk, WorkerType
<1> QED BY <1>1, <1>2, <1>3 DEF BeginWrite

LEMMA EndWriteDoes ==
  ASSUME TInv, NEW c \in Calls, EndWrite(c), NEW w, w = call[c].at
  PROVE  /\ OnlyCall(c) /\ call[c].stage = "writing" /\ call'[c].stage = "waiting"
         /\ call'[c].rx = call[c].rx /\ call'[c].sent = call[c].sent /\ call'[c].seen = call[c].seen
         /\ call'[c].result = call[c].result /\ call'[c].at = w /\ UNCHANGED <<slot, holder>>
         /\ w \in Workers /\ OnlyWorker(w) /\ SameProcess(w) /\ worker'[w].out = worker[w].out
         /\ worker'[w].pending = worker[w].pending
         /\ worker'[w].work = worker[w].work \/ worker'[w].work = worker[w].work \cup {c}
         /\ ~call'[c].mangled =>
              worker[w].reader # "done" /\ worker'[w].work = worker[w].work \cup {c}
<1>1. call[c].stage = "writing" /\ c \in Tasks /\ w \in Workers
  BY Typed DEF EndWrite
<1>2. PICK m \in BOOLEAN : m = Unheard(worker[w])
  BY <1>1, Typed DEF Unheard, WorkerType
<1>3. call' = [call EXCEPT ![c] = [@ EXCEPT !.stage = "waiting", !.mangled = m]]
  BY <1>2 DEF EndWrite, At
<1>4. /\ OnlyCall(c) /\ call'[c].rx = call[c].rx /\ call'[c].sent = call[c].sent
      /\ call'[c].seen = call[c].seen /\ call'[c].stage = "waiting" /\ call'[c].at = w
      /\ call'[c].result = call[c].result /\ call'[c].mangled = m
  BY <1>1, <1>3, Typed DEF OnlyCall, CallType
<1>5. worker' = [worker EXCEPT ![w] = [Delivered(worker[w], c) EXCEPT !.stdin = NoCall]]
  BY <1>1, Typed DEF EndWrite
<1>6. /\ Delivered(worker[w], c).work = IF worker[w].torn THEN worker[w].work ELSE worker[w].work \cup {c}
      /\ Delivered(worker[w], c).out = worker[w].out
      /\ Delivered(worker[w], c).child = worker[w].child /\ Delivered(worker[w], c).alive = worker[w].alive
      /\ Delivered(worker[w], c).reader = worker[w].reader
      /\ Delivered(worker[w], c).pending = worker[w].pending
      /\ Delivered(worker[w], c) \in WorkerType
  <2>1. PICK W \in WorkerType : W = worker[w]
    BY <1>1, Typed
  <2>2. PICK V : V = Delivered(W, c)
    OBVIOUS
  <2>3. V = [W EXCEPT !.torn = FALSE, !.work = IF W.torn THEN W.work ELSE W.work \cup {c}]
    BY <2>2 DEF Delivered, WorkerType
  <2>4. PICK work \in SUBSET Calls : work = IF W.torn THEN W.work ELSE W.work \cup {c}
    BY DEF WorkerType
  <2>5. V \in WorkerType /\ V.work = work /\ V.out = W.out /\ V.child = W.child
        /\ V.alive = W.alive /\ V.reader = W.reader /\ V.pending = W.pending
    BY <2>3, <2>4 DEF WorkerType
  <2> QED BY <2>1, <2>2, <2>4, <2>5
<1>7. /\ OnlyWorker(w) /\ SameProcess(w) /\ worker'[w].out = worker[w].out
      /\ worker'[w].pending = worker[w].pending
      /\ worker'[w].work = Delivered(worker[w], c).work
  BY <1>1, <1>5, <1>6, Typed DEF OnlyWorker, SameProcess, WorkerType
<1>8. ~m => ~worker[w].torn /\ worker[w].reader # "done"
  BY <1>2 DEF Unheard
<1> QED BY <1>1, <1>4, <1>6, <1>7, <1>8 DEF EndWrite

LEMMA WriteFailsDoes ==
  ASSUME TInv, NEW c \in Calls, WriteFails(c), NEW w, w = call[c].at
  PROVE  /\ OnlyCall(c) /\ SameNews(c) /\ call[c].stage = "writing" /\ call'[c].stage = "retire"
         /\ call'[c].result = call[c].result /\ call'[c].at = w /\ UNCHANGED <<slot, holder>>
         /\ w \in Workers /\ OnlyWorker(w) /\ SameProcess(w) /\ SameTalk(w)
         /\ worker'[w].pending = worker[w].pending \ {c}
<1>1. call[c].stage = "writing" /\ c \in Tasks /\ w \in Workers
  BY Typed DEF WriteFails
<1>2. OnlyCall(c) /\ SameNews(c) /\ call'[c].stage = "retire" /\ call'[c].at = w
      /\ call'[c].result = call[c].result
  BY <1>1, Typed DEF WriteFails, Stage, OnlyCall, SameNews, CallType
<1>3. /\ OnlyWorker(w) /\ SameProcess(w) /\ SameTalk(w)
      /\ worker'[w].pending = worker[w].pending \ {c}
  BY <1>1, Typed DEF WriteFails, Unregistered, OnlyWorker, SameProcess, SameTalk, WorkerType
<1> QED BY <1>1, <1>2, <1>3 DEF WriteFails

LEMMA ReceiveDoes ==
  ASSUME TInv, NEW c \in Calls, Receive(c)
  PROVE  /\ OnlyCall(c) /\ call[c].stage = "waiting" /\ call[c].rx # <<>>
         /\ UNCHANGED <<slot, holder, worker>>
         /\ call'[c].rx = Tail(call[c].rx) /\ call'[c].at = call[c].at
         /\ call'[c].sent = call[c].sent /\ call'[c].mangled = call[c].mangled
         /\ \/ /\ Head(call[c].rx) = "event" /\ call'[c].stage = "waiting"
               /\ call'[c].seen = call[c].seen + 1 /\ call'[c].result = call[c].result
            \/ /\ Head(call[c].rx) # "event" /\ call'[c].stage = "done"
               /\ call'[c].seen = call[c].seen /\ call'[c].result = "answer"
<1>1. /\ c \in Tasks /\ call[c] \in CallType /\ call[c].stage = "waiting" /\ call[c].rx # <<>>
      /\ UNCHANGED <<slot, holder, worker>>
  BY Typed DEF Receive
<1>2. PICK k \in CallType : k = Taken(call[c]) /\ k.rx = Tail(call[c].rx) /\ k.at = call[c].at
        /\ k.sent = call[c].sent /\ k.mangled = call[c].mangled /\ k.stage = "waiting"
        /\ k.seen = call[c].seen /\ k.result = call[c].result
  <2>1. Taken(call[c]) \in CallType /\ Taken(call[c]).at = call[c].at
    BY <1>1, Received
  <2>2. /\ Taken(call[c]).rx = Tail(call[c].rx) /\ Taken(call[c]).sent = call[c].sent
        /\ Taken(call[c]).mangled = call[c].mangled /\ Taken(call[c]).stage = "waiting"
        /\ Taken(call[c]).seen = call[c].seen /\ Taken(call[c]).result = call[c].result
    BY <1>1 DEF Taken, CallType
  <2> QED BY <2>1, <2>2, Zenon
<1>3. CASE Head(call[c].rx) = "event"
  <2>1. PICK n : n = call[c].seen + 1
    OBVIOUS
  <2>2. call' = [call EXCEPT ![c] = [k EXCEPT !.seen = n]]
    BY <1>2, <1>3, <2>1 DEF Receive
  <2>3. OnlyCall(c) /\ call'[c] = [k EXCEPT !.seen = n]
    BY <1>1, <2>2, Typed DEF OnlyCall
  <2>4. /\ call'[c].rx = k.rx /\ call'[c].at = k.at /\ call'[c].sent = k.sent
        /\ call'[c].mangled = k.mangled /\ call'[c].stage = k.stage /\ call'[c].seen = n
        /\ call'[c].result = k.result
    BY <1>2, <2>3 DEF CallType
  <2> QED BY <1>1, <1>2, <1>3, <2>1, <2>3, <2>4
<1>4. CASE Head(call[c].rx) # "event"
  <2>1. call' = [call EXCEPT ![c] = [k EXCEPT !.stage = "done", !.result = "answer"]]
    BY <1>2, <1>4 DEF Receive
  <2>2. OnlyCall(c) /\ call'[c] = [k EXCEPT !.stage = "done", !.result = "answer"]
    BY <1>1, <2>1, Typed DEF OnlyCall
  <2>3. /\ call'[c].rx = k.rx /\ call'[c].at = k.at /\ call'[c].sent = k.sent
        /\ call'[c].mangled = k.mangled /\ call'[c].stage = "done" /\ call'[c].seen = k.seen
        /\ call'[c].result = "answer"
    BY <1>2, <2>2 DEF CallType
  <2> QED BY <1>1, <1>2, <1>4, <2>2, <2>3
<1> QED BY <1>3, <1>4

LEMMA ClosedDoes ==
  ASSUME TInv, NEW c \in Calls, Closed(c)
  PROVE  /\ OnlyCall(c) /\ SameNews(c) /\ call[c].stage = "waiting" /\ call'[c].stage = "retire"
         /\ call'[c].result = call[c].result /\ call'[c].at = call[c].at
         /\ UNCHANGED <<slot, holder, worker>>
BY Typed DEF Closed, Stage, OnlyCall, SameNews, CallType

LEMMA TimeOutDoes ==
  ASSUME TInv, NEW c \in Calls, TimeOut(c), NEW w, w = call[c].at
  PROVE  /\ OnlyCall(c) /\ SameNews(c) /\ call[c].stage = "waiting" /\ call'[c].stage = "done"
         /\ call'[c].result = "timeout" /\ call'[c].at = w /\ UNCHANGED <<slot, holder>>
         /\ w \in Workers /\ OnlyWorker(w) /\ SameProcess(w) /\ SameTalk(w)
         /\ worker'[w].pending = worker[w].pending \ {c}
<1>1. call[c].stage = "waiting" /\ c \in Tasks /\ w \in Workers
  BY Typed DEF TimeOut
<1>2. OnlyCall(c) /\ SameNews(c) /\ call'[c].stage = "done" /\ call'[c].at = w
      /\ call'[c].result = "timeout"
  BY <1>1, Typed DEF TimeOut, Return, OnlyCall, SameNews, CallType
<1>3. /\ OnlyWorker(w) /\ SameProcess(w) /\ SameTalk(w)
      /\ worker'[w].pending = worker[w].pending \ {c}
  BY <1>1, Typed DEF TimeOut, Unregistered, OnlyWorker, SameProcess, SameTalk, WorkerType
<1> QED BY <1>1, <1>2, <1>3 DEF TimeOut

LEMMA SpawnDoes ==
  ASSUME TInv, NEW c \in Calls, Spawn(c)
  PROVE  /\ OnlyCall(c) /\ SameNews(c) /\ call[c].stage = "idle" /\ holder' = holder
         /\ slot # 0 => ~worker[slot].alive
         /\ \/ /\ slot' = spawned + 1 /\ slot' \in Workers /\ OnlyWorker(slot')
               /\ call'[c].stage = "got" /\ call'[c].at = slot' /\ call'[c].result = call[c].result
               /\ worker'[slot'].child = "running" /\ worker'[slot'].alive
               /\ worker'[slot'].reader = "reading" /\ SameTalk(slot')
               /\ worker'[slot'].pending = worker[slot'].pending
            \/ /\ call'[c].stage = "done" /\ call'[c].at = call[c].at /\ call'[c].result = "spawn"
               /\ UNCHANGED <<slot, worker>>
<1>1. /\ c \in Tasks /\ call[c] \in CallType /\ call[c].stage = "idle" /\ holder' = holder
      /\ (slot # 0 => ~worker[slot].alive)
  BY Typed DEF Spawn
<1>2. CASE /\ spawned' = spawned + 1 /\ slot' = spawned + 1
           /\ worker' = [worker EXCEPT ![spawned + 1] =
                [@ EXCEPT !.child = "running", !.alive = TRUE, !.reader = "reading"]]
           /\ call' = [call EXCEPT ![c] = [@ EXCEPT !.stage = "got", !.at = spawned + 1]]
  <2>1. TInv'
    BY TSpawn
  <2>2. PICK n : n = spawned + 1 /\ n \in Workers
    <3>1. spawned + 1 \in Workers
      BY <1>2, <2>1, Typed, CallsCounted DEF TInv, TypeOK, Workers
    <3> QED BY <3>1
  <2>3. /\ slot' = n
        /\ worker' = [worker EXCEPT ![n] =
             [@ EXCEPT !.child = "running", !.alive = TRUE, !.reader = "reading"]]
        /\ call' = [call EXCEPT ![c] = [@ EXCEPT !.stage = "got", !.at = n]]
    BY <1>2, <2>2
  <2>4. OnlyCall(c) /\ SameNews(c) /\ call'[c].stage = "got" /\ call'[c].at = n
        /\ call'[c].result = call[c].result
    BY <1>1, <2>3, Typed DEF OnlyCall, SameNews, CallType
  <2>5. /\ OnlyWorker(n) /\ worker'[n].child = "running" /\ worker'[n].alive
        /\ worker'[n].reader = "reading" /\ SameTalk(n) /\ worker'[n].pending = worker[n].pending
    BY <2>2, <2>3, Typed DEF OnlyWorker, SameTalk, WorkerType
  <2> QED BY <1>1, <2>2, <2>3, <2>4, <2>5
<1>3. CASE Return(c, "spawn") /\ UNCHANGED <<slot, spawned, worker>>
  <2>1. /\ OnlyCall(c) /\ SameNews(c) /\ call'[c].stage = "done" /\ call'[c].at = call[c].at
        /\ call'[c].result = "spawn"
    BY <1>1, <1>3, Typed DEF Return, OnlyCall, SameNews, CallType
  <2> QED BY <1>1, <1>3, <2>1
<1> QED BY <1>2, <1>3 DEF Spawn

LEMMA RetireBeginDoes ==
  ASSUME TInv, NEW t \in Tasks, RetireBegin(t), NEW w, w = call[t].at
  PROVE  /\ OnlyCall(t) /\ SameNews(t) /\ call[t].stage = "retire" /\ call'[t].stage = "killing"
         /\ call'[t].result = call[t].result /\ call'[t].at = w
         /\ slot' = (IF slot = w THEN 0 ELSE slot) /\ holder = NoCall /\ holder' = t
         /\ w \in Workers /\ UNCHANGED worker
<1>1. call[t].stage = "retire" /\ w \in Workers
  BY Typed DEF RetireBegin
<1>2. OnlyCall(t) /\ SameNews(t) /\ call'[t].stage = "killing" /\ call'[t].at = w
      /\ call'[t].result = call[t].result
  BY <1>1, Typed DEF RetireBegin, Stage, OnlyCall, SameNews, CallType
<1> QED BY <1>1, <1>2 DEF RetireBegin

LEMMA RetireClearDoes ==
  ASSUME TInv, NEW t \in Tasks, RetireClear(t), NEW w, w = call[t].at
  PROVE  /\ OnlyCall(t) /\ SameNews(t) /\ call[t].stage = "killing" /\ call'[t].stage = "killing"
         /\ call'[t].result = call[t].result /\ call'[t].at = w /\ slot' = slot
         /\ w \in Workers /\ OnlyWorker(w) /\ SameProcess(w) /\ SameTalk(w)
         /\ worker'[w].pending = {}
<1>1. call[t].stage = "killing" /\ w \in Workers
  BY Typed DEF RetireClear
<1>2. OnlyCall(t) /\ SameNews(t) /\ call'[t].stage = "killing" /\ call'[t].at = w
      /\ call'[t].result = call[t].result
  BY <1>1, Typed DEF RetireClear, OnlyCall, SameNews, CallType
<1>3. /\ OnlyWorker(w) /\ SameProcess(w) /\ SameTalk(w) /\ worker'[w].pending = {}
  BY <1>1, Typed DEF RetireClear, OnlyWorker, SameProcess, SameTalk, WorkerType
<1> QED BY <1>1, <1>2, <1>3 DEF RetireClear

LEMMA RetireKillDoes ==
  ASSUME TInv, NEW t \in Tasks, RetireKill(t), NEW w, w = call[t].at
  PROVE  /\ OnlyCall(t) /\ SameNews(t) /\ call[t].stage = "killing" /\ call'[t].stage = "done"
         /\ call'[t].result = "died" /\ call'[t].at = w /\ slot' = slot /\ holder' = NoCall
         /\ w \in Workers /\ OnlyWorker(w) /\ worker'[w].child = "exited" /\ ~worker'[w].alive
         /\ worker'[w].reader = worker[w].reader /\ worker'[w].pending = worker[w].pending
         /\ worker'[w].work = {} /\ worker'[w].out = worker[w].out
<1>1. call[t].stage = "killing" /\ w \in Workers
  BY Typed DEF RetireKill
<1>2. OnlyCall(t) /\ SameNews(t) /\ call'[t].stage = "done" /\ call'[t].at = w
      /\ call'[t].result = "died"
  BY <1>1, Typed DEF RetireKill, Return, OnlyCall, SameNews, CallType
<1>3. PICK W \in WorkerType : W = worker[w]
  BY <1>1, Typed
<1>4. PICK V \in WorkerType : V = [W EXCEPT !.child = "exited", !.work = {}]
        /\ V.child = "exited" /\ V.work = {} /\ V.out = W.out /\ V.reader = W.reader
        /\ V.pending = W.pending
  <2>1. PICK V : V = [W EXCEPT !.child = "exited", !.work = {}]
    OBVIOUS
  <2>2. V \in WorkerType /\ V.child = "exited" /\ V.work = {} /\ V.out = W.out
        /\ V.reader = W.reader /\ V.pending = W.pending
    BY <2>1 DEF WorkerType
  <2> QED BY <2>1, <2>2
<1>5. PICK U \in WorkerType : U = Freed(V, t) /\ U.child = "exited" /\ U.work = {}
        /\ U.out = W.out /\ U.reader = W.reader /\ U.pending = W.pending
  <2>1. PICK U : U = Freed(V, t)
    OBVIOUS
  <2>2. U \in WorkerType /\ U.child = "exited" /\ U.work = {} /\ U.out = W.out
        /\ U.reader = W.reader /\ U.pending = W.pending
    BY <1>4, <2>1 DEF WorkerType, Freed
  <2> QED BY <2>1, <2>2
<1>6. worker' = [worker EXCEPT ![w] = [U EXCEPT !.alive = FALSE]]
  BY <1>3, <1>4, <1>5 DEF RetireKill, Killed
<1>7. OnlyWorker(w) /\ worker'[w] = [U EXCEPT !.alive = FALSE]
  BY <1>1, <1>6, Typed DEF OnlyWorker
<1>8. /\ worker'[w].child = "exited" /\ ~worker'[w].alive
      /\ worker'[w].reader = worker[w].reader /\ worker'[w].pending = worker[w].pending
      /\ worker'[w].work = {} /\ worker'[w].out = worker[w].out
  BY <1>3, <1>5, <1>7 DEF WorkerType
<1> QED BY <1>1, <1>2, <1>7, <1>8 DEF RetireKill

LEMMA ShutdownDoes ==
  ASSUME TInv, Shutdown
  PROVE  /\ OnlyCall(Main) /\ SameNews(Main) /\ call[Main].stage = "idle"
         /\ call'[Main].stage = "retire" /\ call'[Main].at = slot
         /\ call'[Main].result = call[Main].result
         /\ slot # 0 /\ slot' = 0 /\ holder = NoCall /\ UNCHANGED <<holder, worker>>
BY Typed DEF Shutdown, OnlyCall, SameNews, CallType

\* A dropped call leaves half a line, a whole one, or a kill behind, or nothing.
LEMMA DropDoes ==
  ASSUME TInv, NEW c \in Calls, Drop(c), NEW w, w = call[c].at
  PROVE  /\ OnlyCall(c) /\ SameNews(c) /\ call[c].stage \notin {"idle", "done", "dropped"}
         /\ call'[c].stage = "dropped" /\ call'[c].result = call[c].result /\ call'[c].at = w
         /\ slot' = slot /\ holder' = (IF holder = c THEN NoCall ELSE holder)
         /\ w \in Workers /\ OnlyWorker(w) /\ worker'[w].reader = worker[w].reader
         /\ worker'[w].pending = worker[w].pending /\ worker'[w].out = worker[w].out
         /\ \/ SameProcess(w) /\ worker'[w].work = worker[w].work
            \/ /\ call[c].stage = "writing"
               /\ SameProcess(w) /\ worker'[w].work = worker[w].work \cup {c}
            \/ worker'[w].child = "exited" /\ ~worker'[w].alive /\ worker'[w].work = {}
<1>1. call[c].stage \notin {"idle", "done", "dropped"} /\ c \in Tasks /\ w \in Workers
  BY Typed DEF Drop, Ended
<1>2. OnlyCall(c) /\ SameNews(c) /\ call'[c].stage = "dropped" /\ call'[c].at = w
      /\ call'[c].result = call[c].result
  BY <1>1, Typed DEF Drop, Stage, OnlyCall, SameNews, CallType
<1>3. PICK W \in WorkerType : W = worker[w]
  BY <1>1, Typed
<1>4. PICK V \in LeftBehind(W, c) : worker' = [worker EXCEPT ![w] = Freed(V, c)]
  BY <1>3 DEF Drop, At
<1> DEFINE Left(U) ==
             /\ U \in WorkerType /\ U.reader = W.reader /\ U.pending = W.pending /\ U.out = W.out
             /\ \/ U.child = W.child /\ U.alive = W.alive /\ U.work = W.work
                \/ /\ call[c].stage = "writing"
                   /\ U.child = W.child /\ U.alive = W.alive /\ U.work = W.work \cup {c}
                \/ U.child = "exited" /\ ~U.alive /\ U.work = {}
<1>5. Left(V)
  <2>1. \/ V \in {W, [Killed(W) EXCEPT !.alive = FALSE]}
        \/ call[c].stage = "writing" /\ V \in {Delivered(W, c), [W EXCEPT !.torn = TRUE]}
    BY <1>4 DEF LeftBehind
  <2>2. Left(W)
    OBVIOUS
  <2>3. ASSUME call[c].stage = "writing" PROVE Left(Delivered(W, c))
    <3>1. PICK U : U = Delivered(W, c)
      OBVIOUS
    <3>2. U = [W EXCEPT !.torn = FALSE, !.work = IF W.torn THEN W.work ELSE W.work \cup {c}]
      BY <3>1 DEF Delivered, WorkerType
    <3>3. PICK work \in SUBSET Calls : /\ work = IF W.torn THEN W.work ELSE W.work \cup {c}
                                       /\ work = W.work \/ work = W.work \cup {c}
      BY DEF WorkerType
    <3>4. U \in WorkerType /\ U.work = work /\ U.out = W.out /\ U.child = W.child
          /\ U.alive = W.alive /\ U.reader = W.reader /\ U.pending = W.pending
      BY <3>2, <3>3 DEF WorkerType
    <3>5. Left(U)
      BY <2>3, <3>3, <3>4
    <3> QED BY <3>1, <3>5
  <2>4. Left([W EXCEPT !.torn = TRUE])
    <3>1. PICK U : U = [W EXCEPT !.torn = TRUE]
      OBVIOUS
    <3>2. Left(U)
      BY <3>1 DEF WorkerType
    <3> QED BY <3>1, <3>2
  <2>5. Left([Killed(W) EXCEPT !.alive = FALSE])
    <3>1. PICK U : U = [Killed(W) EXCEPT !.alive = FALSE]
      OBVIOUS
    <3>2. U = [W EXCEPT !.child = "exited", !.work = {}, !.alive = FALSE]
      BY <3>1 DEF Killed, WorkerType
    <3>3. Left(U)
      BY <3>2 DEF WorkerType
    <3> QED BY <3>1, <3>3
  <2> HIDE DEF Left
  <2> QED BY <2>1, <2>2, <2>3, <2>4, <2>5
<1>6. PICK U : U = Freed(V, c)
  OBVIOUS
<1>7. U \in WorkerType /\ U.reader = V.reader /\ U.pending = V.pending /\ U.out = V.out
      /\ U.child = V.child /\ U.alive = V.alive /\ U.work = V.work
  BY <1>5, <1>6 DEF Freed, WorkerType
<1>8. OnlyWorker(w) /\ worker'[w] = U
  BY <1>1, <1>4, <1>6, Typed DEF OnlyWorker
<1>9. /\ worker'[w].reader = worker[w].reader /\ worker'[w].pending = worker[w].pending
      /\ worker'[w].out = worker[w].out
      /\ \/ SameProcess(w) /\ worker'[w].work = worker[w].work
         \/ /\ call[c].stage = "writing"
            /\ SameProcess(w) /\ worker'[w].work = worker[w].work \cup {c}
         \/ worker'[w].child = "exited" /\ ~worker'[w].alive /\ worker'[w].work = {}
  BY <1>3, <1>5, <1>7, <1>8 DEF SameProcess
<1> QED BY <1>1, <1>2, <1>8, <1>9 DEF Drop

\* Printing a line adds it to what the reader has not read, while there is one.
LEMMA PrintedIs ==
  ASSUME NEW W \in WorkerType, NEW line \in Line
  PROVE  /\ Printed(W, line) \in WorkerType
         /\ Printed(W, line).child = W.child /\ Printed(W, line).alive = W.alive
         /\ Printed(W, line).reader = W.reader /\ Printed(W, line).pending = W.pending
         /\ Printed(W, line).work = W.work
         /\ Printed(W, line).out = IF W.reader = "reading" THEN Append(W.out, line) ELSE W.out
<1>1. PICK out \in Seq(Line) : out = Append(W.out, line)
  <2>1. Append(W.out, line) \in Seq(Line)
    BY DEF WorkerType
  <2> QED BY <2>1, Zenon
<1>2. PICK V : V = [W EXCEPT !.out = out]
  OBVIOUS
<1>3. V \in WorkerType /\ V.child = W.child /\ V.alive = W.alive /\ V.reader = W.reader
      /\ V.pending = W.pending /\ V.work = W.work /\ V.out = out
  BY <1>2 DEF WorkerType
<1>4. Printed(W, line) = IF W.reader = "reading" THEN V ELSE W
  BY <1>1, <1>2 DEF Printed
<1> QED BY <1>1, <1>3, <1>4

LEMMA EmitDoes ==
  ASSUME TInv, NEW w \in 1..spawned, NEW c \in Calls, Emit(w, c)
  PROVE  /\ OnlyCall(c) /\ call[c].sent = 0 /\ call'[c].sent = 1 /\ c \in worker[w].work
         /\ call'[c].stage = call[c].stage /\ call'[c].at = call[c].at
         /\ call'[c].rx = call[c].rx /\ call'[c].seen = call[c].seen
         /\ call'[c].result = call[c].result /\ call'[c].mangled = call[c].mangled
         /\ UNCHANGED <<slot, holder>>
         /\ w \in Workers /\ OnlyWorker(w) /\ SameProcess(w) /\ worker'[w].work = worker[w].work
         /\ worker'[w].pending = worker[w].pending
         /\ worker'[w].out = IF worker[w].reader = "reading"
                             THEN Append(worker[w].out, [id |-> c, is |-> "event"])
                             ELSE worker[w].out
<1>1. c \in Tasks /\ w \in Workers /\ worker[w] \in WorkerType
  BY Typed
<1>2. PICK line \in Line : line = [id |-> c, is |-> "event"]
  BY DEF Line
<1>3. PICK V : V = Printed(worker[w], line)
  OBVIOUS
<1>4. OnlyWorker(w) /\ worker'[w] = V
  BY <1>1, <1>2, <1>3, Typed DEF Emit, OnlyWorker
<1>5. /\ SameProcess(w) /\ worker'[w].work = worker[w].work
      /\ worker'[w].pending = worker[w].pending
      /\ worker'[w].out = IF worker[w].reader = "reading" THEN Append(worker[w].out, line)
                          ELSE worker[w].out
  BY <1>1, <1>3, <1>4, PrintedIs DEF SameProcess
<1>6. /\ OnlyCall(c) /\ call'[c].sent = 1
      /\ call'[c].stage = call[c].stage /\ call'[c].at = call[c].at
      /\ call'[c].rx = call[c].rx /\ call'[c].seen = call[c].seen
      /\ call'[c].result = call[c].result /\ call'[c].mangled = call[c].mangled
  BY <1>1, Typed DEF Emit, OnlyCall, CallType
<1> QED BY <1>1, <1>2, <1>4, <1>5, <1>6 DEF Emit

LEMMA AnswerDoes ==
  ASSUME TInv, NEW w \in 1..spawned, NEW c \in Calls, Answer(w, c)
  PROVE  /\ UNCHANGED <<slot, holder, call>> /\ c \in worker[w].work
         /\ w \in Workers /\ OnlyWorker(w) /\ SameProcess(w)
         /\ worker'[w].work = worker[w].work \ {c}
         /\ worker'[w].pending = worker[w].pending
         /\ worker'[w].out = IF worker[w].reader = "reading"
                             THEN Append(worker[w].out, [id |-> c, is |-> "answer"])
                             ELSE worker[w].out
<1>1. w \in Workers /\ worker[w] \in WorkerType
  BY Typed
<1>2. PICK line \in Line : line = [id |-> c, is |-> "answer"]
  BY DEF Line
<1>3. PICK V \in WorkerType : V = Printed(worker[w], line)
        /\ V.child = worker[w].child /\ V.alive = worker[w].alive
        /\ V.reader = worker[w].reader /\ V.pending = worker[w].pending
        /\ V.work = worker[w].work
        /\ V.out = IF worker[w].reader = "reading" THEN Append(worker[w].out, line) ELSE worker[w].out
  <2>1. PICK V : V = Printed(worker[w], line)
    OBVIOUS
  <2> QED BY <1>1, <2>1, PrintedIs
<1>4. OnlyWorker(w) /\ worker'[w] = Finished(V, c)
  BY <1>1, <1>2, <1>3, Typed DEF Answer, OnlyWorker
<1>5. /\ worker'[w].child = V.child /\ worker'[w].alive = V.alive
      /\ worker'[w].reader = V.reader /\ worker'[w].work = V.work \ {c}
      /\ worker'[w].pending = V.pending /\ worker'[w].out = V.out
  BY <1>4 DEF Finished, WorkerType
<1> QED BY <1>1, <1>2, <1>3, <1>4, <1>5 DEF Answer, SameProcess

LEMMA DiesDoes ==
  ASSUME TInv, NEW w \in 1..spawned, Exit(w) \/ Reap(w)
  PROVE  /\ UNCHANGED <<slot, holder, call>>
         /\ w \in Workers /\ OnlyWorker(w) /\ worker'[w].child = "exited"
         /\ worker'[w].alive = worker[w].alive /\ worker'[w].reader = worker[w].reader
         /\ worker'[w].pending = worker[w].pending /\ worker'[w].work = {}
         /\ worker'[w].out = worker[w].out
<1>1. w \in Workers /\ worker' = [worker EXCEPT ![w] = Killed(@)] /\ UNCHANGED <<slot, holder, call>>
  BY Typed DEF Exit, Reap
<1> QED BY <1>1, Typed DEF Killed, OnlyWorker, WorkerType

LEMMA GarbageDoes ==
  ASSUME TInv, NEW w \in 1..spawned, Garbage(w)
  PROVE  /\ UNCHANGED <<slot, holder, call>>
         /\ w \in Workers /\ OnlyWorker(w) /\ SameProcess(w)
         /\ worker'[w].work = worker[w].work /\ worker'[w].pending = worker[w].pending
         /\ worker'[w].out = IF worker[w].reader = "reading"
                             THEN Append(worker[w].out, [id |-> NoCall, is |-> "garbage"])
                             ELSE worker[w].out
<1>1. w \in Workers /\ worker[w] \in WorkerType
  BY Typed
<1>2. PICK line \in Line : line = [id |-> NoCall, is |-> "garbage"]
  BY DEF Line
<1>3. PICK V : V = Printed(worker[w], line)
  OBVIOUS
<1>4. OnlyWorker(w) /\ worker'[w] = V
  BY <1>1, <1>2, <1>3, Typed DEF Garbage, OnlyWorker
<1> QED BY <1>1, <1>2, <1>3, <1>4, PrintedIs DEF Garbage, SameProcess

\* The reader gives the first line to the call that waits for it, if one does.
\* The call whose line is read, if it still has an entry.
LEMMA ReadRoutes ==
  ASSUME TInv, NEW w \in 1..spawned, Read(w), NEW line, line = Head(worker[w].out),
         line.id \in worker[w].pending
  PROVE  /\ OnlyCall(line.id) /\ line.id \in Calls
         /\ call'[line.id].rx = Append(call[line.id].rx, line.is)
         /\ call'[line.id].stage = call[line.id].stage /\ call'[line.id].at = call[line.id].at
         /\ call'[line.id].sent = call[line.id].sent /\ call'[line.id].seen = call[line.id].seen
         /\ call'[line.id].result = call[line.id].result
         /\ call'[line.id].mangled = call[line.id].mangled
<1>1. PICK W \in WorkerType : W = worker[w]
  BY Typed
<1>2. line = Head(W.out) /\ line.id \in W.pending
  BY <1>1
<1>3. PICK c \in Calls : c = line.id /\ c \in Tasks
  BY <1>2, Typed DEF WorkerType
<1>4. PICK is : is = line.is
  OBVIOUS
<1>5. PICK rx : rx = Append(call[c].rx, is)
  OBVIOUS
<1>6. call' = [call EXCEPT ![c] = [@ EXCEPT !.rx = rx]]
  BY <1>1, <1>2, <1>3, <1>4, <1>5, Typed DEF Read, Sent
<1>7. /\ OnlyCall(c) /\ call'[c].rx = rx
      /\ call'[c].stage = call[c].stage /\ call'[c].at = call[c].at
      /\ call'[c].sent = call[c].sent /\ call'[c].seen = call[c].seen
      /\ call'[c].result = call[c].result /\ call'[c].mangled = call[c].mangled
  BY <1>3, <1>6, Typed DEF OnlyCall, CallType
<1> QED BY <1>3, <1>4, <1>5, <1>7

LEMMA ReadDoes ==
  ASSUME TInv, NEW w \in 1..spawned, Read(w), NEW line, line = Head(worker[w].out)
  PROVE  /\ UNCHANGED <<slot, holder>> /\ line \in Line /\ line.is \in {"event", "answer"}
         /\ w \in Workers /\ OnlyWorker(w) /\ SameProcess(w)
         /\ worker[w].reader = "reading" /\ worker[w].out # <<>>
         /\ worker'[w].work = worker[w].work /\ worker'[w].out = Tail(worker[w].out)
         /\ worker'[w].pending =
              IF line.is = "event" THEN worker[w].pending ELSE worker[w].pending \ {line.id}
         /\ line.id \notin worker[w].pending => call' = call
         /\ \A t \in Tasks : call'[t].stage = call[t].stage /\ call'[t].at = call[t].at
                              /\ call'[t].mangled = call[t].mangled
<1>1. PICK W \in WorkerType : W = worker[w]
  BY Typed
<1>2. w \in Workers /\ W.out \in Seq(Line) /\ W.out # <<>> /\ W.reader = "reading"
      /\ line = Head(W.out)
  BY <1>1, Typed DEF Read, WorkerType
<1>3. line \in Line /\ line.is # "garbage"
  BY <1>1, <1>2 DEF Read
<1>4. line.is \in {"event", "answer"}
  BY <1>3 DEF Line
<1>5. PICK pending \in SUBSET Calls :
        pending = IF line.is = "event" THEN W.pending ELSE W.pending \ {line.id}
  BY DEF WorkerType
<1>6. PICK V : V = Routed(W, line)
  OBVIOUS
<1>7. V \in WorkerType /\ V.child = W.child /\ V.alive = W.alive /\ V.reader = W.reader
      /\ V.work = W.work /\ V.pending = pending
  BY <1>5, <1>6 DEF Routed, Unregistered, WorkerType
<1>8. PICK out \in Seq(Line) : out = Tail(W.out)
  <2>1. Tail(W.out) \in Seq(Line)
    BY <1>2
  <2> QED BY <2>1
<1>9. OnlyWorker(w) /\ worker'[w] = [V EXCEPT !.out = out]
  BY <1>1, <1>2, <1>6, <1>8, Typed DEF Read, OnlyWorker
<1>10. SameProcess(w) /\ worker'[w].work = W.work /\ worker'[w].out = out
       /\ worker'[w].pending = pending
  BY <1>1, <1>7, <1>9 DEF SameProcess, WorkerType
<1>11. line.id \notin W.pending => call' = call
  BY <1>1, <1>2 DEF Read
<1>12. \A t \in Tasks : call'[t].stage = call[t].stage /\ call'[t].at = call[t].at
                        /\ call'[t].mangled = call[t].mangled
  <2>1. CASE line.id \in W.pending
    <3>1. /\ OnlyCall(line.id)
          /\ call'[line.id].stage = call[line.id].stage /\ call'[line.id].at = call[line.id].at
          /\ call'[line.id].mangled = call[line.id].mangled
      BY <1>1, <2>1, ReadRoutes
    <3> QED BY <3>1 DEF OnlyCall
  <2>2. CASE line.id \notin W.pending
    BY <1>11, <2>2
  <2> QED BY <2>1, <2>2
<1>13. UNCHANGED <<slot, holder>>
  BY DEF Read
<1> QED BY <1>1, <1>2, <1>3, <1>4, <1>5, <1>8, <1>9, <1>10, <1>11, <1>12, <1>13

LEMMA StopDoes ==
  ASSUME TInv, NEW w \in 1..spawned, Stop(w)
  PROVE  /\ UNCHANGED <<slot, holder, call>> /\ worker[w].reader = "reading"
         /\ w \in Workers /\ OnlyWorker(w) /\ worker'[w].child = worker[w].child
         /\ worker'[w].reader = "stopping" /\ worker'[w].pending = worker[w].pending
         /\ worker'[w].work = worker[w].work /\ worker'[w].out = <<>>
BY Typed DEF Stop, OnlyWorker, WorkerType

LEMMA ClearDoes ==
  ASSUME TInv, NEW w \in 1..spawned, Clear(w)
  PROVE  /\ UNCHANGED <<slot, holder, call>> /\ worker[w].reader = "stopping"
         /\ w \in Workers /\ OnlyWorker(w) /\ worker'[w].child = worker[w].child
         /\ worker'[w].reader = "done" /\ worker'[w].alive = worker[w].alive
         /\ worker'[w].pending = {} /\ worker'[w].work = worker[w].work
         /\ worker'[w].out = worker[w].out
BY Typed DEF Clear, OnlyWorker, WorkerType
-----------------------------------------------------------------------------
\* Steps of a call or a worker that leave the slot and its mutex alone.
LEMMA AloneQuiet ==
  ASSUME TInv, Alone,
         \/ \E c \in Calls :
              \/ Reuse(c) \/ Insert(c) \/ BeginWrite(c) \/ EndWrite(c) \/ WriteFails(c)
              \/ Receive(c) \/ Closed(c) \/ TimeOut(c)
         \/ \E w \in 1..spawned :
              \/ ReaderStep(w) \/ Exit(w) \/ Garbage(w) \/ Reap(w)
              \/ \E c \in Calls : Emit(w, c) \/ Answer(w, c)
  PROVE  Alone'
<1> DEFINE Here(w) ==
             /\ worker'[w].child = "running" => worker[w].child = "running"
             /\ worker'[w].reader = "reading" =>
                  worker[w].reader = "reading" /\ worker'[w].alive = worker[w].alive
           There(t) ==
             /\ call[t].stage \in {"retire", "killing", "dropped"} =>
                  call'[t].at = call[t].at /\ call'[t].stage = call[t].stage
             /\ call'[t].stage = "killing" => call[t].stage = "killing"
           Quiet == slot' = slot /\ (\A w \in Workers : Here(w)) /\ \A t \in Tasks : There(t)
<1>1. ASSUME NEW c \in Calls, Reuse(c) PROVE Quiet
  BY <1>1, ReuseDoes DEF OnlyCall
<1>2. ASSUME NEW c \in Calls, Insert(c) PROVE Quiet
  BY <1>2, InsertDoes DEF OnlyCall, OnlyWorker, SameProcess
<1>3. ASSUME NEW c \in Calls, BeginWrite(c) PROVE Quiet
  BY <1>3, BeginWriteDoes DEF OnlyCall, OnlyWorker, SameProcess
<1>4. ASSUME NEW c \in Calls, EndWrite(c) PROVE Quiet
  BY <1>4, EndWriteDoes DEF OnlyCall, OnlyWorker, SameProcess
<1>5. ASSUME NEW c \in Calls, WriteFails(c) PROVE Quiet
  BY <1>5, WriteFailsDoes DEF OnlyCall, OnlyWorker, SameProcess
<1>6. ASSUME NEW c \in Calls, Receive(c) PROVE Quiet
  BY <1>6, ReceiveDoes DEF OnlyCall
<1>7. ASSUME NEW c \in Calls, Closed(c) PROVE Quiet
  BY <1>7, ClosedDoes DEF OnlyCall
<1>8. ASSUME NEW c \in Calls, TimeOut(c) PROVE Quiet
  BY <1>8, TimeOutDoes DEF OnlyCall, OnlyWorker, SameProcess
<1>9. ASSUME NEW w \in 1..spawned, NEW c \in Calls, Emit(w, c) PROVE Quiet
  BY <1>9, EmitDoes DEF OnlyCall, OnlyWorker, SameProcess
<1>10. ASSUME NEW w \in 1..spawned, NEW c \in Calls, Answer(w, c) PROVE Quiet
  BY <1>10, AnswerDoes DEF OnlyWorker, SameProcess
<1>11. ASSUME NEW w \in 1..spawned, Exit(w) \/ Reap(w) PROVE Quiet
  BY <1>11, DiesDoes DEF OnlyWorker
<1>12. ASSUME NEW w \in 1..spawned, Garbage(w) PROVE Quiet
  BY <1>12, GarbageDoes DEF OnlyWorker, SameProcess
<1>13. ASSUME NEW w \in 1..spawned, Read(w) PROVE Quiet
  BY <1>13, ReadDoes DEF OnlyWorker, SameProcess
<1>14. ASSUME NEW w \in 1..spawned, Stop(w) PROVE Quiet
  BY <1>14, StopDoes DEF OnlyWorker
<1>15. ASSUME NEW w \in 1..spawned, Clear(w) PROVE Quiet
  BY <1>15, ClearDoes DEF OnlyWorker
<1>16. Quiet
  <2> HIDE DEF Quiet
  <2> QED BY <1>1, <1>2, <1>3, <1>4, <1>5, <1>6, <1>7, <1>8, <1>9, <1>10, <1>11, <1>12, <1>13,
             <1>14, <1>15 DEF ReaderStep
<1> QED BY <1>16, AloneStep

\* A worker is spawned when the one in the slot is dead, and nobody kills one.
LEMMA AloneSpawn ==
  ASSUME TInv, Alone, NEW c \in Calls, Spawn(c)
  PROVE  Alone'
<1>1. /\ OnlyCall(c) /\ call[c].stage = "idle" /\ c \in Tasks
      /\ call'[c].stage \in {"got", "done"} /\ holder = NoCall
  BY SpawnDoes, Typed DEF Spawn
<1>2. CASE UNCHANGED <<slot, worker>>
  BY <1>1, <1>2, AloneStep DEF OnlyCall
<1>3. CASE /\ slot' \in Workers /\ OnlyWorker(slot') /\ worker'[slot'].alive
  <2>1. ASSUME NEW w \in Workers, w # slot', Busy(w)'
        PROVE  Busy(w)
    <3>1. worker'[w] = worker[w] /\ LetGo(w)' = LetGo(w)
      BY <1>1, <1>3, <2>1, Typed DEF LetGo, OnlyCall, OnlyWorker
    <3> QED BY <2>1, <3>1 DEF Busy
  <2>2. \A t \in Tasks : call[t].stage # "killing" /\ call'[t].stage # "killing"
    BY <1>1, Typed DEF OnlyCall
  <2>3. ASSUME NEW w \in Workers PROVE ~Busy(w) \/ w = slot'
    <3>1. Busy(w) => slot = w /\ ~worker[w].alive
      BY <2>2, SpawnDoes, Typed DEF Alone, Killing
    <3>2. ~worker[w].alive => worker[w].child # "running" \/ worker[w].reader # "reading"
      BY DEF Alone
    <3>3. worker[w].reader # "reading" => LetGo(w)
      BY DEF LetGo
    <3> QED BY <3>1, <3>2, <3>3 DEF Busy
  <2>4. \A w \in Workers : Busy(w)' => slot' = w
    BY <2>1, <2>3
  <2>5. \A w \in Workers : ~Killing(w)'
    BY <2>2 DEF Killing
  <2>6. \A w \in Workers :
          worker'[w].child = "running" /\ worker'[w].reader = "reading" => worker'[w].alive
    BY <1>3 DEF Alone, OnlyWorker
  <2> HIDE DEF Busy, Killing
  <2> QED BY <2>4, <2>5, <2>6, Typed DEF Alone
<1> QED BY <1>2, <1>3, SpawnDoes

\* retire: the lock is taken, the slot is emptied if it still holds this worker.
LEMMA AloneRetireBegin ==
  ASSUME TInv, Alone, NEW t \in Tasks, RetireBegin(t)
  PROVE  Alone'
<1> DEFINE w == call[t].at
<1>1. /\ OnlyCall(t) /\ call[t].stage = "retire" /\ call'[t].stage = "killing"
      /\ call'[t].at = w /\ slot' = (IF slot = w THEN 0 ELSE slot) /\ holder = NoCall
      /\ w \in Workers /\ UNCHANGED worker
  BY RetireBeginDoes
<1> HIDE DEF w
<1>2. \A u \in Tasks : call[u].stage # "killing"
  BY <1>1, Typed
<1>3. \A v \in Workers : /\ worker'[v].child = worker[v].child /\ worker'[v].alive = worker[v].alive
                         /\ worker'[v].reader = worker[v].reader
  BY <1>1
<1>4. \A v \in Workers : Busy(v)' => Busy(v)
  <2> SUFFICES ASSUME NEW v \in Workers, LetGo(v)
               PROVE  LetGo(v)'
    BY <1>3 DEF Busy
  <2> QED BY <1>1, <1>3, Typed DEF LetGo, OnlyCall, w
<1>5. \A v \in Workers : Busy(v) => slot = v
  BY <1>2 DEF Alone, Killing
<1>6. \A v \in Workers : Killing(v)' <=> v = w
  BY <1>1, <1>2 DEF Killing, OnlyCall
<1>7. \A v \in Workers : Busy(v)' => slot' = v \/ Killing(v)'
  BY <1>1, <1>4, <1>5, <1>6
<1>8. slot' # 0 => \A v \in Workers : Killing(v)' => ~Busy(v)'
  BY <1>1, <1>4, <1>5, <1>6
<1>9. \A v \in Workers :
        worker'[v].child = "running" /\ worker'[v].reader = "reading" => worker'[v].alive
  BY <1>3 DEF Alone
<1> HIDE DEF Busy, Killing
<1> QED BY <1>7, <1>8, <1>9, Typed DEF Alone

LEMMA AloneRetireClear ==
  ASSUME TInv, Alone, NEW t \in Tasks, RetireClear(t)
  PROVE  Alone'
BY RetireClearDoes, AloneStep DEF OnlyCall, OnlyWorker, SameProcess

LEMMA AloneRetireKill ==
  ASSUME TInv, Alone, NEW t \in Tasks, RetireKill(t)
  PROVE  Alone'
<1> DEFINE w == call[t].at
<1>1. /\ OnlyCall(t) /\ call[t].stage = "killing" /\ call'[t].stage = "done"
      /\ call'[t].at = w /\ slot' = slot
      /\ w \in Workers /\ OnlyWorker(w) /\ worker'[w].child = "exited"
  BY RetireKillDoes
<1> HIDE DEF w
<1>2. ASSUME NEW v \in Workers, Busy(v)'
      PROVE  Busy(v) /\ v # w
  <2>1. v # w /\ worker'[v] = worker[v]
    BY <1>1, <1>2 DEF Busy, OnlyWorker
  <2>2. LetGo(v) => LetGo(v)'
    BY <1>1, <2>1, Typed DEF LetGo, OnlyCall, w
  <2> QED BY <1>2, <2>1, <2>2 DEF Busy
<1>3. \A v \in Workers : (Killing(v)' => Killing(v)) /\ (v # w /\ Killing(v) => Killing(v)')
  BY <1>1 DEF Killing, OnlyCall, w
<1>4. \A v \in Workers :
        worker'[v].child = "running" /\ worker'[v].reader = "reading" => worker'[v].alive
  BY <1>1 DEF Alone, OnlyWorker
<1> HIDE DEF Busy, Killing
<1>5. \A v \in Workers : Busy(v)' => slot' = v \/ Killing(v)'
  BY <1>1, <1>2, <1>3 DEF Alone
<1>6. slot' # 0 => \A v \in Workers : Killing(v)' => ~Busy(v)'
  BY <1>1, <1>2, <1>3 DEF Alone
<1> QED BY <1>4, <1>5, <1>6, Typed DEF Alone

LEMMA AloneShutdown ==
  ASSUME TInv, Alone, Shutdown
  PROVE  Alone'
<1>1. /\ OnlyCall(Main) /\ call[Main].stage = "idle" /\ call'[Main].stage = "retire"
      /\ call'[Main].at = slot /\ slot # 0 /\ slot' = 0 /\ holder = NoCall /\ UNCHANGED worker
  BY ShutdownDoes
<1>2. \A v \in Workers : LetGo(v) => LetGo(v)'
  BY <1>1, Typed DEF LetGo, OnlyCall
<1>3. \A v \in Workers : Busy(v)' => Busy(v) /\ v # slot
  BY <1>1, <1>2 DEF Busy, LetGo
<1>4. \A u \in Tasks : call[u].stage # "killing" /\ call'[u].stage # "killing"
  BY <1>1, Typed DEF OnlyCall
<1>5. \A v \in Workers : ~Killing(v) /\ ~Killing(v)'
  BY <1>4 DEF Killing
<1>6. \A v \in Workers :
        worker'[v].child = "running" /\ worker'[v].reader = "reading" => worker'[v].alive
  BY <1>1 DEF Alone
<1> HIDE DEF Busy, Killing
<1> QED BY <1>1, <1>3, <1>5, <1>6, Typed DEF Alone

LEMMA AloneDrop ==
  ASSUME TInv, Alone, NEW c \in Calls, Drop(c)
  PROVE  Alone'
<1>0. PICK w : w = call[c].at
  OBVIOUS
<1>1. /\ OnlyCall(c) /\ c \in Tasks /\ c # Main /\ call[c].stage # "dropped"
      /\ call'[c].stage = "dropped" /\ call'[c].at = w /\ slot' = slot
      /\ w \in Workers /\ OnlyWorker(w) /\ worker'[w].reader = worker[w].reader
      /\ worker'[w].child = worker[w].child \/ worker'[w].child = "exited"
      /\ worker'[w].alive = worker[w].alive \/ worker'[w].child = "exited"
  BY <1>0, DropDoes, Typed DEF SameProcess
<1>2. ASSUME NEW v \in Workers, Busy(v)'
      PROVE  Busy(v) /\ v # w
  <2>1. LetGo(w)'
    BY <1>1 DEF LetGo
  <2>2. v # w /\ worker'[v] = worker[v]
    BY <1>1, <1>2, <2>1 DEF Busy, OnlyWorker
  <2>3. LetGo(v) => LetGo(v)'
    BY <1>0, <1>1, <2>2, Typed DEF LetGo, OnlyCall
  <2> QED BY <1>2, <2>2, <2>3 DEF Busy
<1>3. \A v \in Workers : (Killing(v)' => Killing(v)) /\ (v # w /\ Killing(v) => Killing(v)')
  BY <1>0, <1>1 DEF Killing, OnlyCall
<1>4. \A v \in Workers :
        worker'[v].child = "running" /\ worker'[v].reader = "reading" => worker'[v].alive
  BY <1>1 DEF Alone, OnlyWorker
<1> HIDE DEF Busy, Killing
<1>5. \A v \in Workers : Busy(v)' => slot' = v \/ Killing(v)'
  BY <1>1, <1>2, <1>3 DEF Alone
<1>6. slot' # 0 => \A v \in Workers : Killing(v)' => ~Busy(v)'
  BY <1>1, <1>2, <1>3 DEF Alone
<1> QED BY <1>4, <1>5, <1>6, Typed DEF Alone

LEMMA AloneNext == TInv /\ Alone /\ [Next]_vars => Alone'
<1> SUFFICES ASSUME TInv, Alone, [Next]_vars PROVE Alone'
  OBVIOUS
<1>1. CASE UNCHANGED vars
  BY <1>1, AloneStep DEF vars
<1>2. ASSUME NEW c \in Calls, CallStep(c) \/ Drop(c) PROVE Alone'
  BY <1>2, AloneQuiet, AloneSpawn, AloneDrop DEF CallStep
<1>3. ASSUME NEW t \in Tasks, RetireStep(t) PROVE Alone'
  BY <1>3, AloneRetireBegin, AloneRetireClear, AloneRetireKill DEF RetireStep
<1>4. ASSUME NEW w \in 1..spawned,
             \/ ReaderStep(w) \/ Exit(w) \/ Garbage(w) \/ Reap(w)
             \/ \E c \in Calls : Emit(w, c) \/ Answer(w, c)
      PROVE  Alone'
  BY <1>4, AloneQuiet
<1> QED BY <1>1, <1>2, <1>3, <1>4, AloneShutdown DEF Next

\* Whatever calls retire, respawn and drop, and however often the process dies, there is
\* one process beside those that shutdown, a dropped call or a stopped reader let go of
\* (ensure_worker and retire under the lock of the slot).
THEOREM OneProcess == Spec => []OneChild
<1>1. Init => Alone
  BY DEF Init, Alone, Busy, Killing, Idle, Unborn, Tasks, Workers
<1>2. TInv /\ Alone => OneChild
  <2> SUFFICES ASSUME TInv, Alone, NEW v \in Workers, NEW w \in Workers, Busy(v), Busy(w)
               PROVE  v = w
    BY DEF OneChild, Busy
  <2>1. (slot = v \/ Killing(v)) /\ (slot = w \/ Killing(w))
    BY DEF Alone
  <2>2. Killing(v) \/ Killing(w) => slot = 0
    BY DEF Alone
  <2>3. CASE slot # 0
    BY <2>1, <2>2, <2>3
  <2>4. CASE slot = 0
    <3>1. Killing(v) /\ Killing(w)
      BY <2>1, <2>4, Typed
    <3> QED BY <3>1, Typed DEF Killing
  <2> QED BY <2>3, <2>4
<1> QED BY <1>1, <1>2, AloneNext, BridgeTyped, PTL DEF Spec

-----------------------------------------------------------------------------
(***************************************************************************)
(* Waiting calls.  A call that waits on an open channel, and whose line was *)
(* read, has a reader that will use or close the channel; as long as the    *)
(* process lives, its request is in work or its answer on the way.          *)
(***************************************************************************)
OnTheWay(w, c) == \E i \in DOMAIN worker[w].out :
                    worker[w].out[i].id = c /\ worker[w].out[i].is # "event"

\* NobodyStranded and NobodyForgotten of one call at its worker.
HeardOf(c, w) ==
  call[c].stage = "waiting" /\ call[c].at = w /\ c \in worker[w].pending /\ ~call[c].mangled =>
    /\ worker[w].reader # "done"
    /\ worker[w].child = "running" /\ worker[w].reader = "reading" =>
         c \in worker[w].work \/ OnTheWay(w, c)

Heard == \A c \in Calls, w \in Workers : HeardOf(c, w)

\* A step that begins no wait: what a worker owes a waiting call, it still does.
LEMMA HeardStep ==
  ASSUME TInv, Heard,
         \A c \in Calls : call'[c].stage = "waiting" =>
           call[c].stage = "waiting" /\ call'[c].at = call[c].at /\ call'[c].mangled = call[c].mangled,
         \A w \in Workers :
           /\ worker'[w].pending \subseteq worker[w].pending \cup {c \in Calls : call[c].stage # "waiting"}
           /\ worker'[w].reader = "done" => worker[w].reader = "done" \/ worker'[w].pending = {}
           /\ worker'[w].child = "running" => worker[w].child = "running"
           /\ worker'[w].reader = "reading" => worker[w].reader = "reading",
         \A w \in Workers, c \in Calls :
           worker'[w].child = "running" /\ worker'[w].reader = "reading" /\ c \in worker'[w].pending =>
             /\ c \in worker[w].work => c \in worker'[w].work \/ OnTheWay(w, c)'
             /\ OnTheWay(w, c) => OnTheWay(w, c)'
  PROVE  Heard'
<1> SUFFICES ASSUME NEW c \in Calls, NEW w \in Workers PROVE HeardOf(c, w)'
  BY Typed DEF Heard
<1>1. HeardOf(c, w)
  BY DEF Heard
<1> HIDE DEF OnTheWay
<1> QED BY <1>1 DEF HeardOf

LEMMA WayAfterPrint ==
  ASSUME TInv, NEW w \in Workers, NEW line \in Line, NEW c,
         worker'[w].out = Append(worker[w].out, line)
  PROVE  /\ OnTheWay(w, c) => OnTheWay(w, c)'
         /\ line.id = c /\ line.is # "event" => OnTheWay(w, c)'
<1>1. PICK out \in Seq(Line) : out = worker[w].out
  BY Typed DEF WorkerType
<1>2. PICK new \in Seq(Line) : new = Append(out, line) /\ new = worker'[w].out
  <2>1. Append(out, line) \in Seq(Line)
    OBVIOUS
  <2> QED BY <1>1, <2>1
<1>3. /\ \A i \in DOMAIN out : i \in DOMAIN new /\ new[i] = out[i]
      /\ Len(out) + 1 \in DOMAIN new /\ new[Len(out) + 1] = line
  <2>1. /\ DOMAIN out = 1..Len(out) /\ DOMAIN new = 1..Len(new) /\ Len(new) = Len(out) + 1
        /\ Len(out) \in Nat
    BY <1>1, <1>2
  <2>2. new[Len(out) + 1] = line
    BY <1>1, <1>2
  <2>3. \A i \in 1..Len(out) : new[i] = out[i]
    BY <1>1, <1>2
  <2> QED BY <2>1, <2>2, <2>3
<1> QED BY <1>1, <1>2, <1>3 DEF OnTheWay

LEMMA WayAfterRead ==
  ASSUME TInv, NEW w \in Workers, worker[w].out # <<>>, worker'[w].out = Tail(worker[w].out),
         NEW c, Head(worker[w].out).id # c \/ Head(worker[w].out).is = "event"
  PROVE  OnTheWay(w, c) => OnTheWay(w, c)'
<1>1. PICK out \in Seq(Line) : out = worker[w].out /\ out # <<>>
  BY Typed DEF WorkerType
<1>2. PICK new \in Seq(Line) : new = Tail(out) /\ new = worker'[w].out
  <2>1. Tail(out) \in Seq(Line)
    BY <1>1
  <2> QED BY <1>1, <2>1
<1>3. \A i \in DOMAIN out : i # 1 => i - 1 \in DOMAIN new /\ new[i - 1] = out[i]
  BY <1>1, <1>2
<1>4. Head(out) = out[1]
  BY <1>1
<1> SUFFICES ASSUME OnTheWay(w, c) PROVE OnTheWay(w, c)'
  OBVIOUS
<1>5. PICK i \in DOMAIN out : out[i].id = c /\ out[i].is # "event"
  BY <1>1 DEF OnTheWay
<1>6. i # 1
  BY <1>1, <1>4, <1>5
<1>7. i - 1 \in DOMAIN new /\ new[i - 1].id = c /\ new[i - 1].is # "event"
  BY <1>3, <1>5, <1>6
<1>8. PICK j : j = i - 1
  OBVIOUS
<1>9. j \in DOMAIN worker'[w].out /\ worker'[w].out[j].id = c /\ worker'[w].out[j].is # "event"
  BY <1>2, <1>7, <1>8
<1> QED BY <1>9, Zenon DEF OnTheWay

\* Steps of the calls and of the shutdown.
LEMMA HeardCalls ==
  ASSUME TInv, Heard,
         \/ \E c \in Calls : CallStep(c) \/ Drop(c)
         \/ \E t \in Tasks : RetireStep(t)
         \/ Shutdown
  PROVE  Heard'
<1> DEFINE Waits(c) == call'[c].stage = "waiting" =>
             call[c].stage = "waiting" /\ call'[c].at = call[c].at /\ call'[c].mangled = call[c].mangled
           Owes(w) ==
             /\ worker'[w].pending \subseteq worker[w].pending \cup {c \in Calls : call[c].stage # "waiting"}
             /\ worker'[w].reader = worker[w].reader
             /\ worker'[w].child = "running" =>
                  worker[w].child = "running" /\ worker[w].work \subseteq worker'[w].work
             /\ worker'[w].out = worker[w].out
           Quiet == (\A c \in Calls : Waits(c)) /\ (\A w \in Workers : Owes(w))
<1>1. Quiet => Heard'
  <2> SUFFICES ASSUME Quiet PROVE Heard'
    OBVIOUS
  <2>1. \A w \in Workers, c \in Calls : OnTheWay(w, c) => OnTheWay(w, c)'
    BY DEF OnTheWay
  <2> QED BY <2>1, HeardStep
<1>2. ASSUME NEW c \in Calls, Reuse(c) PROVE Quiet
  BY <1>2, ReuseDoes, Typed DEF OnlyCall
<1>3. ASSUME NEW c \in Calls, Insert(c) PROVE Quiet
  BY <1>3, InsertDoes, Typed DEF OnlyCall, OnlyWorker, SameProcess, SameTalk
<1>4. ASSUME NEW c \in Calls, BeginWrite(c) PROVE Quiet
  BY <1>4, BeginWriteDoes, Typed DEF OnlyCall, OnlyWorker, SameProcess, SameTalk
<1>5. ASSUME NEW c \in Calls, WriteFails(c) PROVE Quiet
  BY <1>5, WriteFailsDoes, Typed DEF OnlyCall, OnlyWorker, SameProcess, SameTalk
<1>6. ASSUME NEW c \in Calls, Receive(c) PROVE Quiet
  BY <1>6, ReceiveDoes, Typed DEF OnlyCall
<1>7. ASSUME NEW c \in Calls, Closed(c) PROVE Quiet
  BY <1>7, ClosedDoes, Typed DEF OnlyCall
<1>8. ASSUME NEW c \in Calls, TimeOut(c) PROVE Quiet
  BY <1>8, TimeOutDoes, Typed DEF OnlyCall, OnlyWorker, SameProcess, SameTalk
<1>9. ASSUME NEW t \in Tasks, RetireBegin(t) PROVE Quiet
  BY <1>9, RetireBeginDoes, Typed DEF OnlyCall
<1>15. ASSUME NEW t \in Tasks, RetireClear(t) PROVE Quiet
  BY <1>15, RetireClearDoes, Typed DEF OnlyCall, OnlyWorker, SameProcess, SameTalk
<1>10. ASSUME NEW t \in Tasks, RetireKill(t) PROVE Quiet
  BY <1>10, RetireKillDoes, Typed DEF OnlyCall, OnlyWorker
<1>11. CASE Shutdown
  <2>1. Quiet
    BY <1>11, ShutdownDoes, Typed DEF OnlyCall
  <2> QED BY <1>1, <2>1
<1>12. ASSUME NEW c \in Calls, Drop(c) PROVE Quiet
  BY <1>12, DropDoes, Typed DEF OnlyCall, OnlyWorker, SameProcess
<1>13. ASSUME NEW c \in Calls, Spawn(c) PROVE Heard'
  <2>1. CASE UNCHANGED worker
    <3>1. Quiet
      BY <1>13, <2>1, SpawnDoes, Typed DEF OnlyCall
    <3> QED BY <1>1, <3>1
  <2>2. CASE /\ slot' \in Workers /\ OnlyWorker(slot') /\ worker'[slot'].pending = worker[slot'].pending
             /\ slot' = spawned + 1
    \* Nobody is at a worker that was not spawned.
    <3>1. \A d \in Calls : call[d].stage = "waiting" => call[d].at # slot'
      BY <2>2, HasWorker, Typed
    <3> SUFFICES ASSUME NEW d \in Calls, NEW w \in Workers PROVE HeardOf(d, w)'
      BY Typed DEF Heard
    <3>2. d # c => call'[d] = call[d]
      BY <1>13, SpawnDoes, Typed DEF OnlyCall
    <3>3. call'[c].stage # "waiting"
      BY <1>13, SpawnDoes
    <3>4. w # slot' => worker'[w] = worker[w]
      BY <2>2 DEF OnlyWorker
    <3>5. HeardOf(d, w)
      BY DEF Heard
    <3> QED BY <3>1, <3>2, <3>3, <3>4, <3>5 DEF HeardOf, OnTheWay
  <2> QED BY <1>13, <2>1, <2>2, SpawnDoes
<1>14. ASSUME NEW c \in Calls, EndWrite(c) PROVE Heard'
  <2>0. PICK v : v = call[c].at
    OBVIOUS
  <2>1. /\ OnlyCall(c) /\ call'[c].at = v
        /\ v \in Workers /\ OnlyWorker(v) /\ SameProcess(v) /\ worker'[v].out = worker[v].out
        /\ worker'[v].pending = worker[v].pending
        /\ worker'[v].work = worker[v].work \/ worker'[v].work = worker[v].work \cup {c}
        /\ ~call'[c].mangled =>
              worker[v].reader # "done" /\ worker'[v].work = worker[v].work \cup {c}
    BY <1>14, <2>0, EndWriteDoes
  <2> SUFFICES ASSUME NEW d \in Calls, NEW w \in Workers PROVE HeardOf(d, w)'
    BY Typed DEF Heard
  <2>2. /\ worker'[w].reader = worker[w].reader /\ worker'[w].child = worker[w].child
        /\ worker'[w].pending = worker[w].pending /\ worker[w].work \subseteq worker'[w].work
        /\ OnTheWay(w, d)' = OnTheWay(w, d)
    BY <2>1 DEF OnlyWorker, SameProcess, OnTheWay
  <2> HIDE DEF OnTheWay
  <2>3. CASE d = c
    BY <2>1, <2>2, <2>3 DEF HeardOf, SameProcess
  <2>4. CASE d # c
    <3>1. HeardOf(d, w) /\ call'[d] = call[d]
      BY <2>1, <2>4, Typed DEF Heard, OnlyCall
    <3> QED BY <2>2, <3>1 DEF HeardOf
  <2> QED BY <2>3, <2>4
<1> HIDE DEF Quiet
<1> QED BY <1>1, <1>2, <1>3, <1>4, <1>5, <1>6, <1>7, <1>8, <1>9, <1>10, <1>11, <1>12, <1>13, <1>14, <1>15
        DEF CallStep, RetireStep

\* Steps of the processes and their readers.
LEMMA HeardWorkers ==
  ASSUME TInv, Heard, NEW w \in 1..spawned,
         \/ ReaderStep(w) \/ Exit(w) \/ Garbage(w) \/ Reap(w)
         \/ \E c \in Calls : Emit(w, c) \/ Answer(w, c)
  PROVE  Heard'
<1> DEFINE Waits(c) == call'[c].stage = call[c].stage /\ call'[c].at = call[c].at
                       /\ call'[c].mangled = call[c].mangled
           Owes == 
             /\ worker'[w].pending \subseteq worker[w].pending
             /\ worker'[w].reader = "done" => worker[w].reader = "done" \/ worker'[w].pending = {}
             /\ worker'[w].child = "running" => worker[w].child = "running"
             /\ worker'[w].reader = "reading" => worker[w].reader = "reading"
           Gives(c) ==
             worker'[w].child = "running" /\ worker'[w].reader = "reading" /\ c \in worker'[w].pending =>
               /\ c \in worker[w].work => c \in worker'[w].work \/ OnTheWay(w, c)'
               /\ OnTheWay(w, c) => OnTheWay(w, c)'
           Quiet == (\A c \in Calls : Waits(c)) /\ OnlyWorker(w) /\ Owes /\ (\A c \in Calls : Gives(c))
<1>0. w \in Workers
  BY Typed
<1>1. Quiet => Heard'
  <2> SUFFICES ASSUME Quiet PROVE Heard'
    OBVIOUS
  <2>1. \A v \in Workers : v # w => worker'[v] = worker[v]
    BY DEF OnlyWorker
  <2>2. ASSUME NEW v \in Workers, NEW c \in Calls,
               worker'[v].child = "running", worker'[v].reader = "reading", c \in worker'[v].pending
        PROVE  /\ c \in worker[v].work => c \in worker'[v].work \/ OnTheWay(v, c)'
               /\ OnTheWay(v, c) => OnTheWay(v, c)'
    <3>1. CASE v = w
      BY <2>2, <3>1
    <3>2. CASE v # w
      BY <2>1, <3>2 DEF OnTheWay
    <3> QED BY <3>1, <3>2
  <2> HIDE DEF OnTheWay
  <2>3. \A v \in Workers :
          /\ worker'[v].pending \subseteq worker[v].pending \cup {c \in Calls : call[c].stage # "waiting"}
          /\ worker'[v].reader = "done" => worker[v].reader = "done" \/ worker'[v].pending = {}
          /\ worker'[v].child = "running" => worker[v].child = "running"
          /\ worker'[v].reader = "reading" => worker[v].reader = "reading"
    BY <2>1
  <2> QED BY <2>2, <2>3, HeardStep
<1>2. ASSUME NEW c \in Calls, Emit(w, c) PROVE Quiet
  <2>1. \A d \in Calls : OnTheWay(w, d) => OnTheWay(w, d)'
    <3>1. [id |-> c, is |-> "event"] \in Line
      BY DEF Line
    <3>2. CASE worker[w].reader = "reading"
      BY <1>0, <1>2, <3>1, <3>2, EmitDoes, WayAfterPrint
    <3>3. CASE worker[w].reader # "reading"
      BY <1>2, <3>3, EmitDoes DEF OnTheWay
    <3> QED BY <3>2, <3>3
  <2> HIDE DEF OnTheWay
  <2>2. \A d \in Calls : Waits(d)
    <3>1. OnlyCall(c) /\ Waits(c)
      BY <1>2, EmitDoes
    <3>2. \A d \in Calls : d # c => call'[d] = call[d]
      BY <3>1, Typed DEF OnlyCall
    <3> QED BY <3>1, <3>2
  <2>3. OnlyWorker(w) /\ Owes /\ worker'[w].work = worker[w].work
    BY <1>2, EmitDoes DEF SameProcess
  <2> QED BY <2>1, <2>2, <2>3
<1>3. ASSUME NEW c \in Calls, Answer(w, c) PROVE Quiet
  <2>1. [id |-> c, is |-> "answer"] \in Line
    BY DEF Line
  <2>2. ASSUME worker[w].reader = "reading", NEW d \in Calls
        PROVE  /\ OnTheWay(w, d) => OnTheWay(w, d)' 
               /\ d = c => OnTheWay(w, d)'
    BY <1>0, <1>3, <2>1, <2>2, AnswerDoes, WayAfterPrint
  <2> HIDE DEF OnTheWay
  <2>3. OnlyWorker(w) /\ Owes /\ (\A d \in Calls : Waits(d))
    BY <1>3, AnswerDoes DEF SameProcess
  <2>4. ASSUME NEW d \in Calls PROVE Gives(d)
    <3>1. worker'[w].reader = worker[w].reader /\ worker'[w].work = worker[w].work \ {c}
      BY <1>3, AnswerDoes DEF SameProcess
    <3> QED BY <2>2, <3>1
  <2> QED BY <2>3, <2>4
<1>4. ASSUME Exit(w) \/ Reap(w) PROVE Quiet
  BY <1>4, DiesDoes
<1>5. ASSUME Garbage(w) PROVE Quiet
  <2>1. \A d \in Calls : OnTheWay(w, d) => OnTheWay(w, d)'
    <3>1. [id |-> NoCall, is |-> "garbage"] \in Line
      BY DEF Line
    <3>2. CASE worker[w].reader = "reading"
      BY <1>0, <1>5, <3>1, <3>2, GarbageDoes, WayAfterPrint
    <3>3. CASE worker[w].reader # "reading"
      BY <1>5, <3>3, GarbageDoes DEF OnTheWay
    <3> QED BY <3>2, <3>3
  <2> QED BY <1>5, <2>1, GarbageDoes DEF SameProcess
<1>6. ASSUME Read(w) PROVE Quiet
  <2>0. PICK line : line = Head(worker[w].out)
    OBVIOUS
  <2>1. \A d \in Calls : line.id # d \/ line.is = "event" => (OnTheWay(w, d) => OnTheWay(w, d)')
    BY <1>0, <1>6, <2>0, ReadDoes, WayAfterRead
  <2> HIDE DEF OnTheWay
  <2>2. \A d \in worker'[w].pending : line.id # d \/ line.is = "event"
    <3>1. CASE line.is = "event"
      BY <3>1
    <3>2. CASE line.is # "event"
      <4>1. worker'[w].pending =
              IF line.is = "event" THEN worker[w].pending ELSE worker[w].pending \ {line.id}
        BY <1>6, <2>0, ReadDoes
      <4> QED BY <3>2, <4>1
    <3> QED BY <3>1, <3>2
  <2>3. OnlyWorker(w) /\ Owes
    BY <1>6, <2>0, ReadDoes DEF SameProcess
  <2>4. \A c \in Calls : Waits(c)
    BY <1>6, <2>0, ReadDoes, Typed
  <2>5. \A c \in Calls : Gives(c)
    BY <1>6, <2>0, <2>1, <2>2, ReadDoes
  <2> QED BY <2>3, <2>4, <2>5
<1>7. ASSUME Stop(w) PROVE Quiet
  BY <1>7, StopDoes
<1>8. ASSUME Clear(w) PROVE Quiet
  BY <1>8, ClearDoes
<1> HIDE DEF Quiet
<1> QED BY <1>1, <1>2, <1>3, <1>4, <1>5, <1>6, <1>7, <1>8 DEF ReaderStep

LEMMA HeardNext == TInv /\ Heard /\ [Next]_vars => Heard'
<1> SUFFICES ASSUME TInv, Heard, [Next]_vars PROVE Heard'
  OBVIOUS
<1>1. CASE UNCHANGED vars
  BY <1>1, Typed DEF vars, Heard, HeardOf, OnTheWay
<1>2. CASE Next
  BY <1>2, HeardCalls, HeardWorkers DEF Next
<1> QED BY <1>1, <1>2

\* The two ends of every call and the map agree: no waiting call is stranded or forgotten,
\* but for one whose line followed half a line or had no reader when it was written, and
\* no call that returned has an entry (call, the reader task, retire).  The entry of a call
\* that its caller dropped may stay until the worker is cleared.
THEOREM AllCallsAccounted == Spec => []CallsAccounted
<1>1. Init => Heard
  BY DEF Init, Heard, HeardOf, Idle, Tasks
<1>2. TInv /\ Heard => NobodyStranded /\ NobodyForgotten
  BY Typed DEF Heard, HeardOf, NobodyStranded, NobodyForgotten, Pending, At, OnTheWay
<1>3. Spec => [](NobodyStranded /\ NobodyForgotten)
  BY <1>1, <1>2, HeardNext, BridgeTyped, PTL DEF Spec
<1> QED BY <1>3, LeavesNoEntry, PTL DEF CallsAccounted
-----------------------------------------------------------------------------
(***************************************************************************)
(* Events and answers.  The process prints the event of a request before    *)
(* its answer, the reader routes the lines in their order, and the channel   *)
(* keeps it.  An entry of the map is taken out once and never put back, so    *)
(* an answer that finds it was not preceded by an event that did not.         *)
(***************************************************************************)
\* What may be in a channel.
Form(r)      == r \in {<<>>, <<"event">>, <<"answer">>, <<"event", "answer">>}
HasEvent(r)  == r \in {<<"event">>, <<"event", "answer">>}
HasAnswer(r) == r \in {<<"answer">>, <<"event", "answer">>}

\* What may be between the process and the reader.
HasLine(out, c, is) == \E i \in DOMAIN out : out[i].id = c /\ out[i].is = is
Ordered(out, c) ==
  \A i, j \in DOMAIN out :
    out[i].id = c /\ out[j].id = c /\ out[j].is = "event" =>
      (out[i].is = "event" => i = j) /\ (out[i].is = "answer" => j < i)

Early(c)    == call[c].stage \in {"idle", "got", "inserted", "writing"}
Answered(c) == HasAnswer(call[c].rx) \/ call[c].result = "answer"

\* The end of the call: an answer in the channel or returned comes after the event.
Told(c) ==
  /\ Form(call[c].rx) /\ call[c].seen \in {0, 1}
  /\ call[c].seen = 1 => call[c].sent = 1 /\ ~HasEvent(call[c].rx)
  /\ HasEvent(call[c].rx) => call[c].sent = 1
  /\ Answered(c) /\ call[c].sent = 1 => call[c].seen = 1 \/ HasEvent(call[c].rx)
  /\ Early(c) => call[c].sent = 0 /\ call[c].rx = <<>> /\ call[c].result # "answer"
  /\ call[c].result = "answer" => call[c].rx = <<>> /\ call[c].stage = "done"

\* A request is worked on, and printed about, at the worker of its call only.
Placed(w, c) ==
  (\/ c \in worker[w].work
   \/ HasLine(worker[w].out, c, "event")
   \/ HasLine(worker[w].out, c, "answer"))
    => call[c].at = w /\ ~Early(c)

\* The end of the worker.
InOrder(w, c) ==
  /\ Ordered(worker[w].out, c)
  /\ Answered(c) => c \notin worker[w].work \cup worker[w].pending
                    /\ ~HasLine(worker[w].out, c, "event")
  /\ HasLine(worker[w].out, c, "event") =>
       call[c].sent = 1 /\ call[c].seen = 0 /\ ~HasEvent(call[c].rx)
  /\ HasLine(worker[w].out, c, "answer") => c \notin worker[w].work
  /\ c \in worker[w].pending /\ worker[w].reader = "reading" /\ call[c].sent = 1 =>
       call[c].seen = 1 \/ HasEvent(call[c].rx) \/ HasLine(worker[w].out, c, "event")

Orderly ==
  \A c \in Calls : Told(c) /\ \A w \in Workers : Placed(w, c) /\ (call[c].at = w => InOrder(w, c))

LEMMA PairOf == ASSUME NEW a, NEW b PROVE Append(<<a>>, b) = <<a, b>>
<1> PICK S : S = {a, b}
  OBVIOUS
<1>1. Append(<<a>>, b) \in Seq(S) /\ Len(Append(<<a>>, b)) = 2
  OBVIOUS
<1>2. <<a, b>> \in Seq(S) /\ Len(<<a, b>>) = 2
  OBVIOUS
<1>3. \A i \in 1..2 : Append(<<a>>, b)[i] = <<a, b>>[i]
  OBVIOUS
<1> QED BY <1>1, <1>2, <1>3, SeqEqual, Zenon

LEMMA FormEmpty == Form(<<>>) /\ ~HasEvent(<<>>) /\ ~HasAnswer(<<>>)
BY DEF Form, HasEvent, HasAnswer

LEMMA FormAppend ==
  ASSUME NEW r, Form(r), ~HasAnswer(r)
  PROVE  /\ ~HasEvent(r) => /\ Form(Append(r, "event")) /\ HasEvent(Append(r, "event"))
                            /\ ~HasAnswer(Append(r, "event"))
         /\ Form(Append(r, "answer")) /\ HasAnswer(Append(r, "answer"))
         /\ HasEvent(Append(r, "answer")) = HasEvent(r)
<1>1. r = <<>> \/ r = <<"event">>
  BY DEF Form, HasAnswer
<1>2. "event" # "answer"
  OBVIOUS
<1>3. CASE r = <<>>
  <2>1. Append(r, "event") = <<"event">> /\ Append(r, "answer") = <<"answer">>
    BY <1>3
  <2> QED BY <1>2, <1>3, <2>1 DEF Form, HasEvent, HasAnswer
<1>4. CASE r = <<"event">>
  <2>1. Append(<<"event">>, "answer") = <<"event", "answer">>
    BY PairOf
  <2> QED BY <1>2, <1>4, <2>1 DEF Form, HasEvent, HasAnswer
<1> QED BY <1>1, <1>3, <1>4

LEMMA FormTail ==
  ASSUME NEW r, Form(r), r # <<>>
  PROVE  /\ Head(r) = "event" =>
              /\ HasEvent(r) /\ Form(Tail(r)) /\ ~HasEvent(Tail(r))
              /\ HasAnswer(Tail(r)) = HasAnswer(r)
         /\ Head(r) # "event" => HasAnswer(r) /\ ~HasEvent(r) /\ Tail(r) = <<>>
<1>1. "event" # "answer"
  OBVIOUS
<1>2. CASE r = <<"event">>
  <2>1. Head(r) = "event" /\ Tail(r) = <<>>
    BY <1>2
  <2> QED BY <1>1, <1>2, <2>1 DEF Form, HasEvent, HasAnswer
<1>3. CASE r = <<"answer">>
  <2>1. Head(r) = "answer" /\ Tail(r) = <<>>
    BY <1>3
  <2> QED BY <1>1, <1>3, <2>1 DEF Form, HasEvent, HasAnswer
<1>4. CASE r = <<"event", "answer">>
  <2>1. Head(r) = "event" /\ Tail(r) = <<"answer">>
    BY <1>4
  <2> QED BY <1>1, <1>4, <2>1 DEF Form, HasEvent, HasAnswer
<1> QED BY <1>2, <1>3, <1>4 DEF Form

\* A line more of the process.
LEMMA OutAppend ==
  ASSUME NEW out \in Seq(Line), NEW line \in Line, NEW c, NEW new, new = Append(out, line)
  PROVE  /\ HasLine(new, c, "event") <=>
              (HasLine(out, c, "event") \/ (line.id = c /\ line.is = "event"))
         /\ HasLine(new, c, "answer") <=>
              (HasLine(out, c, "answer") \/ (line.id = c /\ line.is = "answer"))
         /\ Ordered(out, c) /\ (line.id = c /\ line.is = "event" =>
                                  ~HasLine(out, c, "event") /\ ~HasLine(out, c, "answer"))
              => Ordered(new, c)
<1> PICK n \in Nat : n = Len(out)
  OBVIOUS
<1>1. DOMAIN out = 1..n /\ DOMAIN new = 1..(n + 1)
  OBVIOUS
<1>2. (\A i \in 1..n : new[i] = out[i]) /\ new[n + 1] = line
  OBVIOUS
<1>3. ASSUME NEW is PROVE HasLine(new, c, is) <=> (HasLine(out, c, is) \/ (line.id = c /\ line.is = is))
  <2>1. ASSUME HasLine(new, c, is), ~HasLine(out, c, is) PROVE line.id = c /\ line.is = is
    <3>1. PICK i \in 1..(n + 1) : new[i].id = c /\ new[i].is = is
      BY <1>1, <2>1 DEF HasLine
    <3>2. i \notin 1..n
      BY <1>1, <1>2, <2>1, <3>1 DEF HasLine
    <3>3. i = n + 1
      BY <3>2
    <3> QED BY <1>2, <3>1, <3>3
  <2>2. ASSUME HasLine(out, c, is) PROVE HasLine(new, c, is)
    <3>1. PICK i \in 1..n : out[i].id = c /\ out[i].is = is
      BY <1>1, <2>2 DEF HasLine
    <3>2. i \in DOMAIN new /\ new[i].id = c /\ new[i].is = is
      BY <1>1, <1>2, <3>1
    <3> QED BY <3>2, Zenon DEF HasLine
  <2>3. ASSUME line.id = c, line.is = is PROVE HasLine(new, c, is)
    <3>1. PICK i \in DOMAIN new : i = n + 1
      BY <1>1
    <3>2. new[i].id = c /\ new[i].is = is
      BY <1>2, <2>3, <3>1
    <3> QED BY <3>2, Zenon DEF HasLine
  <2> QED BY <2>1, <2>2, <2>3 DEF HasLine
<1>4. ASSUME Ordered(out, c), line.id = c /\ line.is = "event" =>
                                ~HasLine(out, c, "event") /\ ~HasLine(out, c, "answer")
      PROVE  Ordered(new, c)
  <2> SUFFICES ASSUME NEW i \in 1..(n + 1), NEW j \in 1..(n + 1),
                      new[i].id = c, new[j].id = c, new[j].is = "event"
               PROVE  (new[i].is = "event" => i = j) /\ (new[i].is = "answer" => j < i)
    BY <1>1 DEF Ordered
  <2>1. CASE j = n + 1
    <3>1. CASE i = n + 1
      BY <2>1, <3>1
    <3>2. CASE i \in 1..n
      BY <1>1, <1>2, <1>4, <2>1, <3>2 DEF HasLine
    <3> QED BY <3>1, <3>2
  <2>2. CASE j \in 1..n
    <3>1. CASE i = n + 1
      BY <1>1, <1>2, <1>4, <2>2, <3>1 DEF HasLine
    <3>2. CASE i \in 1..n
      BY <1>1, <1>2, <1>4, <2>2, <3>2 DEF Ordered
    <3> QED BY <3>1, <3>2
  <2> QED BY <2>1, <2>2
<1> QED BY <1>3, <1>4

LEMMA HeadLine ==
  ASSUME NEW out \in Seq(Line), out # <<>>, NEW line, line = Head(out)
  PROVE  HasLine(out, line.id, line.is)
<1>1. 1 \in DOMAIN out /\ out[1] = line
  OBVIOUS
<1> QED BY <1>1 DEF HasLine

LEMMA TailLine ==
  ASSUME NEW out \in Seq(Line), out # <<>>, NEW c, NEW new, new = Tail(out),
         NEW is, HasLine(new, c, is)
  PROVE  HasLine(out, c, is)
<1> PICK n \in Nat : n = Len(out) /\ n > 0
  OBVIOUS
<1>1. DOMAIN out = 1..n /\ DOMAIN new = 1..(n - 1)
  OBVIOUS
<1>2. \A i \in 1..(n - 1) : new[i] = out[i + 1] /\ i + 1 \in 1..n
  OBVIOUS
<1>3. PICK i \in 1..(n - 1) : new[i].id = c /\ new[i].is = is
  BY <1>1 DEF HasLine
<1>4. PICK a \in 1..n : a = i + 1
  BY <1>2
<1>5. a \in DOMAIN out /\ out[a].id = c /\ out[a].is = is
  BY <1>1, <1>2, <1>3, <1>4
<1> QED BY <1>5, Zenon DEF HasLine

\* The line that is read: the event is before the answer, and there is one.
LEMMA OutTail ==
  ASSUME NEW out \in Seq(Line), out # <<>>, NEW line, line = Head(out),
         NEW c, NEW new, new = Tail(out), Ordered(out, c)
  PROVE  /\ Ordered(new, c)
         /\ HasLine(new, c, "event") => HasLine(out, c, "event")
         /\ HasLine(new, c, "answer") => HasLine(out, c, "answer")
         /\ HasLine(out, c, "event") =>
              HasLine(new, c, "event") \/ (line.id = c /\ line.is = "event")
         /\ line.id = c /\ line.is \in {"event", "answer"} =>
              HasLine(out, c, line.is) /\ ~HasLine(new, c, "event")
<1> PICK n \in Nat : n = Len(out) /\ n > 0
  OBVIOUS
<1>1. DOMAIN out = 1..n /\ DOMAIN new = 1..(n - 1) /\ line = out[1] /\ 1 \in 1..n
  OBVIOUS
<1>2. \A i \in 1..(n - 1) : new[i] = out[i + 1] /\ i + 1 \in 1..n /\ i + 1 # 1
  OBVIOUS
<1>3. Ordered(new, c)
  <2> SUFFICES ASSUME NEW i \in 1..(n - 1), NEW j \in 1..(n - 1),
                      new[i].id = c, new[j].id = c, new[j].is = "event"
               PROVE  (new[i].is = "event" => i = j) /\ (new[i].is = "answer" => j < i)
    BY <1>1 DEF Ordered
  <2>1. PICK a \in 1..n, b \in 1..n : a = i + 1 /\ b = j + 1
    BY <1>2
  <2>2. out[a] = new[i] /\ out[b] = new[j]
    BY <1>2, <2>1
  <2>3. (new[i].is = "event" => a = b) /\ (new[i].is = "answer" => b < a)
    BY <1>1, <2>2 DEF Ordered
  <2> QED BY <2>1, <2>3
<1>4. ASSUME NEW is, HasLine(new, c, is) PROVE HasLine(out, c, is)
  BY <1>4, TailLine
<1>5. ASSUME NEW is, HasLine(out, c, is), ~(line.id = c /\ line.is = is) PROVE HasLine(new, c, is)
  <2>1. PICK i \in 1..n : out[i].id = c /\ out[i].is = is
    BY <1>1, <1>5 DEF HasLine
  <2>2. i # 1
    BY <1>1, <1>5, <2>1
  <2>3. PICK a \in 1..(n - 1) : i = a + 1
    <3>1. i - 1 \in 1..(n - 1) /\ i = (i - 1) + 1
      BY <2>2
    <3> QED BY <3>1
  <2>4. a \in DOMAIN new /\ new[a].id = c /\ new[a].is = is
    BY <1>1, <1>2, <2>1, <2>3
  <2> QED BY <2>4, Zenon DEF HasLine
<1>6. ASSUME line.id = c, line.is \in {"event", "answer"} 
      PROVE  HasLine(out, c, line.is) /\ ~HasLine(new, c, "event")
  <2>1. HasLine(out, c, line.is)
    BY <1>6, HeadLine
  <2>2. ASSUME HasLine(new, c, "event") PROVE FALSE
    <3>1. PICK i \in 1..(n - 1) : new[i].id = c /\ new[i].is = "event"
      BY <1>1, <2>2 DEF HasLine
    <3>2. PICK a \in 1..n : a = i + 1 /\ a > 1
      BY <1>2
    <3>3. out[a].id = c /\ out[a].is = "event"
      BY <1>2, <3>1, <3>2
    <3>4. (line.is = "event" => 1 = a) /\ (line.is = "answer" => a < 1)
      BY <1>1, <1>6, <3>3 DEF Ordered
    <3> QED BY <1>6, <3>2, <3>4
  <2> QED BY <2>1, <2>2
<1> QED BY <1>3, <1>4, <1>5, <1>6

\* A line that is not the event of the call, and the line read that is of the call.
LEMMA AppendOther ==
  ASSUME NEW out \in Seq(Line), NEW line \in Line, NEW c, NEW new, new = Append(out, line),
         line.id # c \/ line.is # "event", Ordered(out, c)
  PROVE  Ordered(new, c)
BY OutAppend

LEMMA NoEventAfter ==
  ASSUME NEW out \in Seq(Line), out # <<>>, NEW line, line = Head(out),
         NEW c, NEW new, new = Tail(out), Ordered(out, c),
         line.id = c, line.is \in {"event", "answer"}
  PROVE  ~HasLine(new, c, "event")
BY OutTail

\* A step that neither prints, nor reads, nor receives.
LEMMA OrderlyStep ==
  ASSUME TInv, Orderly,
         \A c \in Calls :
           /\ call'[c].rx = call[c].rx /\ call'[c].sent = call[c].sent /\ call'[c].seen = call[c].seen
           /\ call'[c].result = "answer" => call[c].result = "answer" /\ call'[c].stage = call[c].stage
           /\ Early(c)' => Early(c)
           /\ Early(c) \/ call'[c].at = call[c].at,
         \A w \in Workers :
           /\ worker'[w].out = worker[w].out
              \/ (worker'[w].out = <<>> /\ worker'[w].reader # "reading")
           /\ worker'[w].pending \subseteq worker[w].pending \cup {c \in Calls : Early(c)}
           /\ \A c \in worker'[w].work :
                c \in worker[w].work \/ (Early(c) /\ ~Early(c)' /\ call'[c].at = w)
           /\ \A c \in Calls : Early(c) \/ call[c].at # w
                \/ (worker'[w].reader = "reading" => worker[w].reader = "reading")
  PROVE  Orderly'
<1> SUFFICES ASSUME NEW c \in Calls
             PROVE  /\ Told(c)'
                    /\ \A w \in Workers : Placed(w, c)' /\ (call'[c].at = w => InOrder(w, c)')
  BY Typed DEF Orderly
<1>1. Told(c)
  BY DEF Orderly
<1>2. Answered(c)' => Answered(c)
  BY DEF Answered
<1>3. Told(c)'
  BY <1>1, <1>2 DEF Told
<1> SUFFICES ASSUME NEW w \in Workers
             PROVE  Placed(w, c)' /\ (call'[c].at = w => InOrder(w, c)')
  BY <1>3
<1>4. Placed(w, c) /\ (call[c].at = w => InOrder(w, c))
  BY DEF Orderly
<1>5. /\ ~HasLine(<<>>, c, "event") /\ ~HasLine(<<>>, c, "answer") /\ Ordered(<<>>, c)
  BY DEF HasLine, Ordered
<1>6. /\ HasLine(worker'[w].out, c, "event") => HasLine(worker[w].out, c, "event")
      /\ HasLine(worker'[w].out, c, "answer") => HasLine(worker[w].out, c, "answer")
      /\ Ordered(worker[w].out, c) => Ordered(worker'[w].out, c)
      /\ worker'[w].reader = "reading" /\ HasLine(worker[w].out, c, "event") =>
           HasLine(worker'[w].out, c, "event")
  <2>1. CASE worker'[w].out = worker[w].out
    BY <2>1
  <2>2. CASE worker'[w].out = <<>> /\ worker'[w].reader # "reading"
    BY <1>5, <2>2
  <2> QED BY <2>1, <2>2
<1>7. CASE Early(c)
  <2>1. /\ ~HasLine(worker[w].out, c, "event") /\ ~HasLine(worker[w].out, c, "answer")
        /\ c \notin worker[w].work
    BY <1>4, <1>7 DEF Placed
  <2>2. Placed(w, c)'
    BY <1>6, <2>1 DEF Placed
  <2>3. ~Answered(c) /\ call[c].sent = 0
    BY <1>1, <1>7, FormEmpty DEF Told, Answered
  <2>4. Ordered(worker'[w].out, c)
    <3>1. CASE worker'[w].out = worker[w].out
      BY <2>1, <3>1 DEF HasLine, Ordered
    <3>2. CASE worker'[w].out = <<>>
      BY <1>5, <3>2
    <3> QED BY <3>1, <3>2
  <2> QED BY <1>2, <1>6, <2>1, <2>2, <2>3, <2>4 DEF InOrder
<1>8. CASE ~Early(c)
  <2>1. /\ call'[c].at = call[c].at /\ ~Early(c)'
        /\ c \in worker'[w].work => c \in worker[w].work
        /\ c \in worker'[w].pending => c \in worker[w].pending
    BY <1>8
  <2>2. Placed(w, c)'
    BY <1>4, <1>6, <1>8, <2>1 DEF Placed
  <2>3. ASSUME call'[c].at = w PROVE InOrder(w, c)'
    <3>1. InOrder(w, c) /\ (worker'[w].reader = "reading" => worker[w].reader = "reading")
      BY <1>4, <1>8, <2>1, <2>3
    <3> QED BY <1>2, <1>6, <2>1, <3>1 DEF InOrder
  <2> QED BY <2>2, <2>3
<1> QED BY <1>7, <1>8

\* Steps of the calls and of the shutdown, but for Receive.
LEMMA OrderlyCalls ==
  ASSUME TInv, Orderly,
         \/ \E c \in Calls :
              \/ Reuse(c) \/ Insert(c) \/ BeginWrite(c) \/ EndWrite(c) \/ WriteFails(c)
              \/ Closed(c) \/ TimeOut(c) \/ Drop(c)
         \/ \E t \in Tasks : RetireStep(t)
         \/ Shutdown
  PROVE  Orderly'
<1> DEFINE Keeps(c) ==
             /\ call'[c].rx = call[c].rx /\ call'[c].sent = call[c].sent /\ call'[c].seen = call[c].seen
             /\ call'[c].result = "answer" => call[c].result = "answer" /\ call'[c].stage = call[c].stage
             /\ Early(c)' => Early(c)
             /\ Early(c) \/ call'[c].at = call[c].at
           Owes(w) ==
             /\ worker'[w].out = worker[w].out
             /\ worker'[w].pending \subseteq worker[w].pending \cup {c \in Calls : Early(c)}
             /\ \A c \in worker'[w].work :
                  c \in worker[w].work \/ (Early(c) /\ ~Early(c)' /\ call'[c].at = w)
             /\ worker'[w].reader = worker[w].reader
           Quiet == (\A c \in Calls : Keeps(c)) /\ (\A w \in Workers : Owes(w))
<1>1. Quiet => Orderly'
  <2> SUFFICES ASSUME Quiet PROVE Orderly'
    OBVIOUS
  <2>1. \A w \in Workers :
          /\ worker'[w].out = worker[w].out
             \/ (worker'[w].out = <<>> /\ worker'[w].reader # "reading")
          /\ \A c \in Calls : Early(c) \/ call[c].at # w
               \/ (worker'[w].reader = "reading" => worker[w].reader = "reading")
    OBVIOUS
  <2> QED BY <2>1, OrderlyStep
\* A call that is over has no step: its answer is returned once.
<1>0. \A c \in Calls : call[c].result = "answer" => call[c].stage = "done"
  BY DEF Orderly, Told
<1>2. ASSUME NEW c \in Calls, Reuse(c) PROVE Quiet
  BY <1>0, <1>2, ReuseDoes, Typed DEF OnlyCall, SameNews, Early
<1>3. ASSUME NEW c \in Calls, Insert(c) PROVE Quiet
  BY <1>0, <1>3, InsertDoes, Typed DEF OnlyCall, SameNews, OnlyWorker, SameProcess, SameTalk, Early
<1>4. ASSUME NEW c \in Calls, BeginWrite(c) PROVE Quiet
  BY <1>0, <1>4, BeginWriteDoes, Typed DEF OnlyCall, SameNews, OnlyWorker, SameProcess, SameTalk, Early
<1>5. ASSUME NEW c \in Calls, WriteFails(c) PROVE Quiet
  BY <1>0, <1>5, WriteFailsDoes, Typed DEF OnlyCall, SameNews, OnlyWorker, SameProcess, SameTalk, Early
<1>6. ASSUME NEW c \in Calls, Closed(c) PROVE Quiet
  BY <1>0, <1>6, ClosedDoes, Typed DEF OnlyCall, SameNews, Early
<1>7. ASSUME NEW c \in Calls, TimeOut(c) PROVE Quiet
  BY <1>0, <1>7, TimeOutDoes, Typed DEF OnlyCall, SameNews, OnlyWorker, SameProcess, SameTalk, Early
<1>8. ASSUME NEW t \in Tasks, RetireBegin(t) PROVE Quiet
  BY <1>0, <1>8, RetireBeginDoes, Typed DEF OnlyCall, SameNews, Early
<1>13. ASSUME NEW t \in Tasks, RetireClear(t) PROVE Quiet
  <2>0. PICK w : w = call[t].at
    OBVIOUS
  <2>1. \A d \in Calls : Keeps(d)
    BY <1>0, <1>13, <2>0, RetireClearDoes, Typed DEF OnlyCall, SameNews, Early
  <2>2. \A v \in Workers : Owes(v)
    BY <1>13, <2>0, RetireClearDoes DEF OnlyWorker, SameProcess, SameTalk
  <2> QED BY <2>1, <2>2
<1>9. ASSUME NEW t \in Tasks, RetireKill(t) PROVE Quiet
  <2>0. PICK w : w = call[t].at
    OBVIOUS
  <2>1. \A d \in Calls : Keeps(d)
    BY <1>0, <1>9, <2>0, RetireKillDoes, Typed DEF OnlyCall, SameNews, Early
  <2>2. \A v \in Workers : Owes(v)
    BY <1>9, <2>0, RetireKillDoes DEF OnlyWorker
  <2> QED BY <2>1, <2>2
<1>10. ASSUME Shutdown PROVE Quiet
  <2>1. \A d \in Calls : call'[d] = call[d]
    BY <1>10, ShutdownDoes, Typed DEF OnlyCall
  <2>2. \A d \in Calls : Keeps(d)
    BY <1>0, <2>1 DEF Early
  <2>3. \A v \in Workers : Owes(v)
    BY <1>10, ShutdownDoes
  <2> HIDE DEF Keeps, Owes
  <2> QED BY <2>2, <2>3
<1>11. ASSUME NEW c \in Calls, EndWrite(c) PROVE Quiet
  BY <1>0, <1>11, EndWriteDoes, Typed DEF OnlyCall, OnlyWorker, SameProcess, Early
<1>12. ASSUME NEW c \in Calls, Drop(c) PROVE Quiet
  <2>0. PICK w : w = call[c].at
    OBVIOUS
  <2>1. \A d \in Calls : Keeps(d)
    BY <1>0, <1>12, <2>0, DropDoes, Typed DEF OnlyCall, SameNews, Early
  <2>2. \A v \in Workers : Owes(v)
    BY <1>12, <2>0, DropDoes, Typed DEF OnlyWorker, SameProcess, Early
  <2> QED BY <2>1, <2>2
<1> HIDE DEF Quiet
<1> QED BY <1>1, <1>2, <1>3, <1>4, <1>5, <1>6, <1>7, <1>8, <1>9, <1>10, <1>11, <1>12, <1>13 DEF RetireStep

LEMMA OrderlySpawn ==
  ASSUME TInv, Orderly, NEW c \in Calls, Spawn(c)
  PROVE  Orderly'
<1>1. /\ OnlyCall(c) /\ SameNews(c) /\ call[c].stage = "idle"
      /\ call'[c].stage \in {"got", "done"} /\ call'[c].result \in {call[c].result, "spawn"}
  BY SpawnDoes
<1>2. Early(c) /\ call[c].result # "answer"
  BY <1>1 DEF Early, Orderly, Told
<1>3. \A d \in Calls :
        /\ call'[d].rx = call[d].rx /\ call'[d].sent = call[d].sent /\ call'[d].seen = call[d].seen
        /\ call'[d].result = "answer" => call[d].result = "answer" /\ call'[d].stage = call[d].stage
        /\ Early(d)' => Early(d)
        /\ Early(d) \/ call'[d].at = call[d].at
  BY <1>1, <1>2, Typed DEF OnlyCall, SameNews, Early
<1>4. \A w \in Workers : worker'[w].out = worker[w].out /\ worker'[w].work = worker[w].work
                         /\ worker'[w].pending = worker[w].pending
  BY SpawnDoes DEF OnlyWorker, SameTalk
<1>5. \A w \in Workers, d \in Calls :
        call[d].at # w \/ worker'[w].reader = worker[w].reader
  <2>1. CASE UNCHANGED worker
    BY <2>1
  <2>2. CASE slot' = spawned + 1 /\ OnlyWorker(slot')
    \* Nobody is at a worker that was not spawned.
    <3>1. \A d \in Calls : call[d].at # spawned + 1
      BY Typed DEF TInv, TypeOK, CallType
    <3> QED BY <2>2, <3>1 DEF OnlyWorker
  <2> QED BY <2>1, <2>2, SpawnDoes
<1> QED BY <1>3, <1>4, <1>5, OrderlyStep

LEMMA OrderlyReceive ==
  ASSUME TInv, Orderly, NEW c \in Calls, Receive(c)
  PROVE  Orderly'
<1>1. /\ OnlyCall(c) /\ call[c].stage = "waiting" /\ call[c].rx # <<>> /\ worker' = worker
      /\ call'[c].rx = Tail(call[c].rx) /\ call'[c].at = call[c].at /\ call'[c].sent = call[c].sent
      /\ \/ /\ Head(call[c].rx) = "event" /\ call'[c].stage = "waiting"
            /\ call'[c].seen = call[c].seen + 1 /\ call'[c].result = call[c].result
         \/ /\ Head(call[c].rx) # "event" /\ call'[c].stage = "done"
            /\ call'[c].seen = call[c].seen /\ call'[c].result = "answer"
  BY ReceiveDoes
<1>2. Told(c) /\ \A w \in Workers : Placed(w, c) /\ (call[c].at = w => InOrder(w, c))
  BY DEF Orderly
<1>3. ~Early(c) /\ ~Early(c)'
  BY <1>1 DEF Early
<1>4. Told(c)' /\ (Answered(c)' = Answered(c))
      /\ (~HasEvent(call[c].rx) => ~HasEvent(call'[c].rx) /\ call'[c].seen = call[c].seen)
      /\ (HasEvent(call[c].rx) => call'[c].seen = 1)
  <2>1. CASE Head(call[c].rx) = "event"
    BY <1>1, <1>2, <1>3, <2>1, FormTail DEF Told, Answered
  <2>2. CASE Head(call[c].rx) # "event"
    BY <1>1, <1>2, <1>3, <2>2, FormTail, FormEmpty DEF Told, Answered
  <2> QED BY <2>1, <2>2
<1>5. \A w \in Workers : Placed(w, c)' /\ (call'[c].at = w => InOrder(w, c)')
  BY <1>1, <1>2, <1>3, <1>4 DEF Placed, InOrder
<1>6. \A d \in Calls : d # c => call'[d] = call[d]
  BY <1>1, Typed DEF OnlyCall
<1>7. \A d \in Calls : d # c => Told(d)' /\ \A w \in Workers :
        Placed(w, d)' /\ (call'[d].at = w => InOrder(w, d)')
  BY <1>1, <1>6 DEF Orderly, Told, Placed, InOrder, Answered, Early
<1> QED BY <1>4, <1>5, <1>7, Typed DEF Orderly

LEMMA OrderlyEmit ==
  ASSUME TInv, Orderly, NEW w \in 1..spawned, NEW c \in Calls, Emit(w, c)
  PROVE  Orderly'
<1>1. /\ OnlyCall(c) /\ call[c].sent = 0 /\ call'[c].sent = 1 /\ c \in worker[w].work
      /\ call'[c].stage = call[c].stage /\ call'[c].at = call[c].at
      /\ call'[c].rx = call[c].rx /\ call'[c].seen = call[c].seen /\ call'[c].result = call[c].result
      /\ w \in Workers /\ OnlyWorker(w) /\ worker'[w].reader = worker[w].reader
      /\ worker'[w].work = worker[w].work /\ worker'[w].pending = worker[w].pending
  BY EmitDoes DEF SameProcess
<1>2. PICK line \in Line : line = [id |-> c, is |-> "event"]
  BY DEF Line
<1>3. worker'[w].out = IF worker[w].reader = "reading" THEN Append(worker[w].out, line)
                                                       ELSE worker[w].out
  BY <1>2, EmitDoes
<1>4. "event" # "answer" /\ line \in Line /\ line.id = c /\ line.is = "event"
  BY <1>2
<1>5. PICK out \in Seq(Line) : out = worker[w].out
  BY <1>1, Typed DEF WorkerType
<1>6. Told(c) /\ Placed(w, c) /\ call[c].at = w /\ InOrder(w, c) /\ ~Early(c)
  BY <1>1 DEF Orderly, Placed
<1>7. /\ ~Answered(c) /\ ~HasLine(out, c, "event") /\ ~HasLine(out, c, "answer")
      /\ call[c].seen = 0 /\ ~HasEvent(call[c].rx) /\ Ordered(out, c)
  BY <1>1, <1>5, <1>6 DEF InOrder, Told
<1>8. Told(c)' /\ ~Early(c)' /\ ~Answered(c)'
  BY <1>1, <1>6, <1>7 DEF Told, Answered, Early
<1>9. /\ Ordered(worker'[w].out, c) /\ ~HasLine(worker'[w].out, c, "answer")
      /\ worker[w].reader = "reading" => HasLine(worker'[w].out, c, "event")
  <2>1. CASE worker[w].reader = "reading"
    <3>1. worker'[w].out = Append(out, line)
      BY <1>3, <1>5, <2>1
    <3>2. PICK new : new = Append(out, line)
      OBVIOUS
    <3>3. /\ HasLine(new, c, "event") <=>
               (HasLine(out, c, "event") \/ (line.id = c /\ line.is = "event"))
          /\ HasLine(new, c, "answer") <=>
               (HasLine(out, c, "answer") \/ (line.id = c /\ line.is = "answer"))
          /\ Ordered(new, c)
      BY <1>4, <1>7, <3>2, OutAppend
    <3> QED BY <1>4, <1>7, <3>1, <3>2, <3>3
  <2>2. CASE worker[w].reader # "reading"
    BY <1>3, <1>5, <1>7, <2>2
  <2> QED BY <2>1, <2>2
<1>10. Placed(w, c)' /\ InOrder(w, c)'
  BY <1>1, <1>6, <1>7, <1>8, <1>9 DEF Placed, InOrder
<1>11. \A d \in Calls : d # c => call'[d] = call[d]
  BY <1>1, Typed DEF OnlyCall
<1>12. ASSUME NEW d \in Calls, d # c
       PROVE  Told(d)' /\ Placed(w, d)' /\ (call'[d].at = w => InOrder(w, d)')
  <2>1. Told(d) /\ Placed(w, d) /\ (call[d].at = w => InOrder(w, d))
    BY <1>1 DEF Orderly
  <2>2. /\ HasLine(worker'[w].out, d, "event") <=> HasLine(worker[w].out, d, "event")
        /\ HasLine(worker'[w].out, d, "answer") <=> HasLine(worker[w].out, d, "answer")
        /\ Ordered(worker[w].out, d) => Ordered(worker'[w].out, d)
    <3>1. CASE worker[w].reader = "reading"
      <4>1. worker'[w].out = Append(out, line)
        BY <1>3, <1>5, <3>1
      <4>2. PICK new : new = Append(out, line)
        OBVIOUS
      <4>3. /\ HasLine(new, d, "event") <=>
                 (HasLine(out, d, "event") \/ (line.id = d /\ line.is = "event"))
            /\ HasLine(new, d, "answer") <=>
                 (HasLine(out, d, "answer") \/ (line.id = d /\ line.is = "answer"))
        BY <1>4, <1>5, <1>12, <4>2, OutAppend
      <4>4. Ordered(out, d) => Ordered(new, d)
        BY <1>4, <1>5, <1>12, <4>2, AppendOther
      <4> QED BY <1>4, <1>5, <1>12, <4>1, <4>2, <4>3, <4>4
    <3>2. CASE worker[w].reader # "reading"
      BY <1>3, <3>2
    <3> QED BY <3>1, <3>2
  <2>3. call'[d] = call[d]
    BY <1>11, <1>12
  <2> QED BY <1>1, <2>1, <2>2, <2>3 DEF Told, Placed, InOrder, Answered, Early
<1>13. ASSUME NEW v \in Workers, NEW d \in Calls, v # w
       PROVE  Placed(v, d)' /\ (call'[d].at = v => InOrder(v, d)')
  <2>1. Placed(v, d) /\ (call[d].at = v => InOrder(v, d)) /\ worker'[v] = worker[v]
    BY <1>1, <1>13 DEF Orderly, OnlyWorker
  <2>2. CASE d = c
    BY <1>1, <1>6, <1>13, <2>1, <2>2 DEF Placed, Early
  <2>3. CASE d # c
    BY <1>11, <2>1, <2>3 DEF Placed, InOrder, Answered, Early
  <2> QED BY <2>2, <2>3
<1> QED BY <1>8, <1>10, <1>12, <1>13, Typed DEF Orderly

LEMMA OrderlyAnswer ==
  ASSUME TInv, Orderly, NEW w \in 1..spawned, NEW c \in Calls \cup {NoCall},
         (Garbage(w) /\ c = NoCall) \/ (c \in Calls /\ Answer(w, c))
  PROVE  Orderly'
<1>1. /\ call' = call /\ w \in Workers /\ OnlyWorker(w) /\ worker'[w].reader = worker[w].reader
      /\ worker'[w].work \subseteq worker[w].work /\ worker'[w].pending = worker[w].pending
      /\ c \in Calls => c \in worker[w].work /\ c \notin worker'[w].work
  <2>1. CASE Garbage(w) /\ c = NoCall
    <3>1. NoCall \notin Calls
      BY Typed
    <3> QED BY <2>1, <3>1, GarbageDoes DEF SameProcess
  <2>2. CASE c \in Calls /\ Answer(w, c)
    BY <2>2, AnswerDoes DEF SameProcess
  <2> QED BY <2>1, <2>2
<1>2. PICK line \in Line : line = [id |-> c, is |-> IF c = NoCall THEN "garbage" ELSE "answer"]
  BY DEF Line
<1>3. /\ line \in Line /\ line.id = c /\ line.is # "event" /\ "event" # "answer"
      /\ (line.is = "answer" => c \in Calls)
      /\ NoCall \notin Calls
  BY <1>2, Typed
<1>4. worker'[w].out = IF worker[w].reader = "reading" THEN Append(worker[w].out, line)
                                                       ELSE worker[w].out
  BY <1>2, <1>3, GarbageDoes, AnswerDoes
<1>5. PICK out \in Seq(Line) : out = worker[w].out
  BY <1>1, Typed DEF WorkerType
<1>6. ASSUME NEW d \in Calls
      PROVE  Told(d)' /\ Placed(w, d)' /\ (call'[d].at = w => InOrder(w, d)')
  <2>1. Told(d) /\ Placed(w, d) /\ (call[d].at = w => InOrder(w, d))
    BY <1>1 DEF Orderly
  <2>2. /\ HasLine(worker'[w].out, d, "event") <=> HasLine(worker[w].out, d, "event")
        /\ HasLine(worker'[w].out, d, "answer") => HasLine(worker[w].out, d, "answer") \/ d = c
        /\ Ordered(worker[w].out, d) => Ordered(worker'[w].out, d)
    <3>1. CASE worker[w].reader = "reading"
      <4>1. worker'[w].out = Append(out, line)
        BY <1>4, <1>5, <3>1
      <4>2. PICK new : new = Append(out, line)
        OBVIOUS
      <4>3. /\ HasLine(new, d, "event") <=>
                 (HasLine(out, d, "event") \/ (line.id = d /\ line.is = "event"))
            /\ HasLine(new, d, "answer") <=>
                 (HasLine(out, d, "answer") \/ (line.id = d /\ line.is = "answer"))
        BY <1>3, <1>5, <4>2, OutAppend
      <4>4. Ordered(out, d) => Ordered(new, d)
        BY <1>3, <1>5, <4>2, AppendOther
      <4> QED BY <1>3, <1>5, <4>1, <4>2, <4>3, <4>4
    <3>2. CASE worker[w].reader # "reading"
      BY <1>4, <3>2
    <3> QED BY <3>1, <3>2
  <2> QED BY <1>1, <2>1, <2>2 DEF Told, Placed, InOrder, Answered, Early
<1>7. \A v \in Workers : v # w => worker'[v] = worker[v]
  BY <1>1 DEF OnlyWorker
<1>8. \A v \in Workers, d \in Calls : v # w =>
        Placed(v, d)' /\ (call'[d].at = v => InOrder(v, d)')
  BY <1>1, <1>7 DEF Orderly, Placed, InOrder, Answered, Early
<1> QED BY <1>6, <1>8, Typed DEF Orderly

LEMMA OrderlyRead ==
  ASSUME TInv, Orderly, NEW w \in 1..spawned, Read(w)
  PROVE  Orderly'
<1>0. PICK line : line = Head(worker[w].out)
  OBVIOUS
<1>1. /\ line \in Line /\ line.is \in {"event", "answer"} /\ w \in Workers /\ OnlyWorker(w)
      /\ worker'[w].reader = worker[w].reader /\ worker[w].reader = "reading"
      /\ worker'[w].work = worker[w].work
      /\ worker'[w].pending = IF line.is = "event" THEN worker[w].pending
                                                   ELSE worker[w].pending \ {line.id}
      /\ line.id \notin worker[w].pending => call' = call
  BY <1>0, ReadDoes DEF SameProcess
<1>2. PICK out \in Seq(Line) : out = worker[w].out /\ out # <<>>
  BY <1>0, <1>1, ReadDoes, Typed DEF WorkerType
<1>3. PICK new : new = worker'[w].out /\ new = Tail(out)
  BY <1>2, ReadDoes
<1>4. "event" # "answer" /\ line = Head(out)
  BY <1>0, <1>2
<1>5. ASSUME NEW d \in Calls, d # line.id \/ line.id \notin worker[w].pending
      PROVE  Told(d)' /\ \A v \in Workers : Placed(v, d)' /\ (call'[d].at = v => InOrder(v, d)')
  <2>1. call'[d] = call[d]
    <3>1. CASE line.id \in worker[w].pending
      BY <1>0, <1>5, <3>1, ReadRoutes, Typed DEF OnlyCall
    <3> QED BY <1>1, <3>1
  <2>2. Told(d)'
    BY <2>1 DEF Orderly, Told, Answered, Early
  <2>3. ASSUME NEW v \in Workers, v # w PROVE Placed(v, d)' /\ (call'[d].at = v => InOrder(v, d)')
    BY <1>1, <2>1, <2>3 DEF Orderly, Placed, InOrder, Answered, Early, OnlyWorker
  <2>4. Placed(w, d) /\ (call[d].at = w => InOrder(w, d))
    BY <1>1 DEF Orderly
  <2>5. Placed(w, d)' /\ (call'[d].at = w => InOrder(w, d)')
    <3>1. /\ Ordered(out, d) => Ordered(new, d)
          /\ Ordered(out, d) /\ HasLine(out, d, "event") =>
               HasLine(new, d, "event") \/ (line.id = d /\ line.is = "event")
      <4>1. ASSUME Ordered(out, d)
            PROVE  /\ Ordered(new, d)
                   /\ HasLine(out, d, "event") =>
                        HasLine(new, d, "event") \/ (line.id = d /\ line.is = "event")
        BY <1>2, <1>3, <1>4, <4>1, OutTail
      <4> QED BY <4>1
    <3>2. \A is : HasLine(new, d, is) => HasLine(out, d, is)
      BY <1>2, <1>3, TailLine
    <3>3. /\ d \in worker'[w].pending => d \in worker[w].pending
          /\ d = line.id => d \notin worker[w].pending
      BY <1>1, <1>5
    <3> QED BY <1>1, <1>2, <1>3, <2>1, <2>4, <3>1, <3>2, <3>3 DEF Placed, InOrder, Answered, Early
  <2> QED BY <2>2, <2>3, <2>5
<1>6. ASSUME line.id \in worker[w].pending
      PROVE  /\ line.id \in Calls /\ Told(line.id)'
             /\ \A v \in Workers : Placed(v, line.id)' /\ (call'[line.id].at = v => InOrder(v, line.id)')
  <2>1. PICK c \in Calls : c = line.id
    BY <1>0, <1>6, ReadRoutes
  <2>2. /\ call'[c].rx = Append(call[c].rx, line.is)
        /\ call'[c].stage = call[c].stage /\ call'[c].at = call[c].at
        /\ call'[c].sent = call[c].sent /\ call'[c].seen = call[c].seen
        /\ call'[c].result = call[c].result
    BY <1>0, <1>6, <2>1, ReadRoutes
  <2>3. Told(c) /\ Placed(w, c) /\ (call[c].at = w => InOrder(w, c))
    BY <1>1 DEF Orderly
  <2>4. HasLine(out, c, line.is)
    BY <1>2, <1>4, <2>1, HeadLine
  <2>5. call[c].at = w /\ ~Early(c) /\ ~Early(c)' /\ InOrder(w, c)
    BY <1>1, <1>2, <2>2, <2>3, <2>4 DEF Placed, Early
  <2>6. /\ Ordered(out, c) /\ Ordered(new, c)
        /\ HasLine(new, c, "answer") => HasLine(out, c, "answer")
        /\ HasLine(out, c, "event") => line.is = "event"
        /\ ~HasLine(new, c, "event")
    <3>1. Ordered(out, c)
      BY <1>2, <2>5 DEF InOrder
    <3>2. line.id = c /\ line.is \in {"event", "answer"}
      BY <1>1, <2>1
    <3>3. /\ Ordered(new, c)
          /\ HasLine(new, c, "answer") => HasLine(out, c, "answer")
          /\ HasLine(out, c, "event") =>
               HasLine(new, c, "event") \/ (line.id = c /\ line.is = "event")
      BY <1>2, <1>3, <1>4, <3>1, <3>2, OutTail
    <3>4. ~HasLine(new, c, "event")
      BY <1>2, <1>3, <1>4, <3>1, <3>2, NoEventAfter
    <3> QED BY <3>1, <3>3, <3>4
  <2>7. ~Answered(c) /\ Form(call[c].rx) /\ ~HasAnswer(call[c].rx) /\ call[c].result # "answer"
    BY <1>6, <2>1, <2>3, <2>5 DEF InOrder, Answered, Told
  <2>8. ASSUME line.is = "event" PROVE Told(c)' /\ Placed(w, c)' /\ InOrder(w, c)'
    <3>1. call[c].sent = 1 /\ call[c].seen = 0 /\ ~HasEvent(call[c].rx)
      BY <1>2, <2>4, <2>5, <2>8 DEF InOrder
    <3>2. Form(call'[c].rx) /\ HasEvent(call'[c].rx) /\ ~HasAnswer(call'[c].rx)
      BY <2>2, <2>7, <2>8, <3>1, FormAppend
    <3>3. Told(c)' /\ ~Answered(c)'
      BY <2>2, <2>3, <2>5, <2>7, <3>1, <3>2 DEF Told, Answered
    <3>4. Placed(w, c)' /\ InOrder(w, c)'
      BY <1>1, <1>2, <1>3, <2>2, <2>5, <2>6, <3>2, <3>3 DEF InOrder, Placed
    <3> QED BY <3>3, <3>4
  <2>9. ASSUME line.is = "answer" PROVE Told(c)' /\ Placed(w, c)' /\ InOrder(w, c)'
    <3>1. c \notin worker[w].work /\ c \notin worker'[w].pending
      BY <1>1, <1>2, <2>1, <2>4, <2>5, <2>9 DEF InOrder
    <3>2. call[c].sent = 1 => call[c].seen = 1 \/ HasEvent(call[c].rx)
      BY <1>1, <1>2, <1>4, <1>6, <2>1, <2>5, <2>6, <2>9 DEF InOrder
    <3>3. /\ Form(call'[c].rx) /\ HasAnswer(call'[c].rx)
          /\ HasEvent(call'[c].rx) = HasEvent(call[c].rx)
      BY <2>2, <2>7, <2>9, FormAppend
    <3>4. Told(c)'
      BY <2>2, <2>3, <2>5, <2>7, <3>2, <3>3 DEF Told, Answered
    <3>5. Placed(w, c)' /\ InOrder(w, c)'
      BY <1>1, <1>2, <1>3, <2>2, <2>5, <2>6, <3>1 DEF InOrder, Placed
    <3> QED BY <3>4, <3>5
  <2>10. ASSUME NEW v \in Workers, v # w PROVE Placed(v, c)' /\ call'[c].at # v
    <3>1. Placed(v, c) /\ worker'[v] = worker[v]
      BY <1>1, <2>10 DEF Orderly, OnlyWorker
    <3> QED BY <2>2, <2>5, <2>10, <3>1 DEF Placed
  <2>11. Told(c)' /\ Placed(w, c)' /\ InOrder(w, c)'
    BY <1>1, <2>8, <2>9
  <2> QED BY <2>1, <2>10, <2>11
<1> QED BY <1>5, <1>6, Typed DEF Orderly

LEMMA OrderlyNext == TInv /\ Orderly /\ [Next]_vars => Orderly'
<1> SUFFICES ASSUME TInv, Orderly, [Next]_vars PROVE Orderly'
  OBVIOUS
<1>1. CASE UNCHANGED vars
  BY <1>1, Typed
     DEF vars, Orderly, Told, Placed, InOrder, Answered, Early
<1>2. ASSUME NEW c \in Calls, CallStep(c) \/ Drop(c) PROVE Orderly'
  BY <1>2, OrderlyCalls, OrderlySpawn, OrderlyReceive DEF CallStep
<1>3. ASSUME (\E t \in Tasks : RetireStep(t)) \/ Shutdown PROVE Orderly'
  BY <1>3, OrderlyCalls
<1>4. ASSUME NEW w \in 1..spawned, Exit(w) \/ Reap(w) \/ Stop(w) \/ Clear(w) PROVE Orderly'
  <2>1. /\ UNCHANGED call /\ w \in Workers /\ OnlyWorker(w)
        /\ worker'[w].out = worker[w].out
           \/ (worker'[w].out = <<>> /\ worker'[w].reader # "reading")
        /\ worker'[w].pending \subseteq worker[w].pending
        /\ worker'[w].work \subseteq worker[w].work
        /\ worker'[w].reader = "reading" => worker[w].reader = "reading"
    <3>1. CASE Exit(w) \/ Reap(w)
      BY <3>1, DiesDoes
    <3>2. CASE Stop(w)
      BY <3>2, StopDoes
    <3>3. CASE Clear(w)
      BY <3>3, ClearDoes
    <3> QED BY <1>4, <3>1, <3>2, <3>3
  <2>2. \A c \in Calls :
          /\ call'[c].rx = call[c].rx /\ call'[c].sent = call[c].sent /\ call'[c].seen = call[c].seen
          /\ call'[c].result = "answer" => call[c].result = "answer" /\ call'[c].stage = call[c].stage
          /\ Early(c)' => Early(c)
          /\ Early(c) \/ call'[c].at = call[c].at
    BY <2>1 DEF Early
  <2>3. ASSUME NEW v \in Workers
        PROVE  /\ worker'[v].out = worker[v].out
                  \/ (worker'[v].out = <<>> /\ worker'[v].reader # "reading")
               /\ worker'[v].pending \subseteq worker[v].pending
               /\ worker'[v].work \subseteq worker[v].work
               /\ worker'[v].reader = "reading" => worker[v].reader = "reading"
    BY <2>1 DEF OnlyWorker
  <2> QED BY <2>2, <2>3, OrderlyStep
<1>5. ASSUME NEW w \in 1..spawned, Read(w) \/ Garbage(w) PROVE Orderly'
  <2>1. CASE Read(w)
    BY <2>1, OrderlyRead
  <2>2. CASE Garbage(w)
    <3>1. PICK c \in Calls \cup {NoCall} : c = NoCall
      OBVIOUS
    <3>2. c \in Calls \cup {NoCall}
      BY <3>1
    <3>3. (Garbage(w) /\ c = NoCall) \/ (c \in Calls /\ Answer(w, c))
      BY <2>2, <3>1
    <3> QED BY <3>2, <3>3, OrderlyAnswer
  <2> QED BY <1>5, <2>1, <2>2
<1>6. ASSUME NEW w \in 1..spawned, NEW c \in Calls, Emit(w, c) \/ Answer(w, c) PROVE Orderly'
  BY <1>6, OrderlyEmit, OrderlyAnswer
<1>7. CASE Next
  BY <1>2, <1>3, <1>4, <1>5, <1>6, <1>7 DEF Next, ReaderStep
<1> QED BY <1>1, <1>7

\* All the events of a request are given to on_event before its answer is
\* returned: call reads one channel, which the reader fills in the order of the
\* lines (call, the reader task of spawn).
THEOREM AnswerComesLast == Spec => []EventsBeforeAnswer
<1>1. Init => Orderly
  <2> SUFFICES ASSUME Init PROVE Orderly
    OBVIOUS
  <2>1. \A c \in Calls : call[c] = Idle
    BY DEF Init, Tasks
  <2>2. \A w \in Workers : worker[w] = Unborn
    BY DEF Init
  <2>3. \A c \in Calls : Told(c) /\ ~Answered(c)
    BY <2>1, FormEmpty DEF Idle, Told, Answered
  <2>4. \A w \in Workers, c \in Calls : Placed(w, c) /\ InOrder(w, c)
    BY <2>1, <2>2, <2>3 DEF Unborn, Idle, Placed, InOrder, HasLine, Ordered
  <2> QED BY <2>3, <2>4 DEF Orderly
<1>2. TInv /\ Orderly => EventsBeforeAnswer
  <2> SUFFICES ASSUME TInv, Orderly, NEW c \in Calls, call[c].result = "answer"
               PROVE  call[c].seen = call[c].sent
    BY DEF EventsBeforeAnswer
  <2>1. Told(c) /\ ~HasEvent(call[c].rx) /\ Answered(c)
    BY FormEmpty DEF Orderly, Told, Answered
  <2>2. call[c].sent \in {0, 1}
    BY Typed DEF CallType
  <2> QED BY <2>1, <2>2 DEF Told
<1> QED BY <1>1, <1>2, OrderlyNext, BridgeTyped, PTL DEF Spec
=============================================================================

------------------------------- MODULE Bridge -------------------------------
(***************************************************************************)
(* PythonBridge: calls of the server share one Python process.  A call      *)
(* takes the worker of the slot or spawns one, registers its channel in     *)
(* the pending map, writes its line and waits on the channel.  One reader   *)
(* task per worker routes the lines of the process to the channels, and     *)
(* empties the map when they end.  A call that sees its worker dead retires *)
(* it.  The worker answers every request it could read, in any order.       *)
(***************************************************************************)
EXTENDS Integers, Sequences, FiniteSets

CONSTANTS
  Calls,     \* invocations of PythonBridge::call, retries included
  Main,      \* the task that shuts the bridge down
  NoCall,    \* no holder
  Timed,     \* calls with a deadline
  Streaming, \* calls of an op that sends events (train)
  Droppable, \* calls whose future the caller may drop (cancellation)
  Garbled,   \* bound: the workers whose output may be unreadable
  Faults     \* the other kinds of fault that happen

ASSUME BridgeAssumption ==
  /\ IsFiniteSet(Calls)
  /\ Main \notin Calls /\ NoCall \notin Calls \cup {Main}
  /\ Timed \cup Streaming \cup Droppable \subseteq Calls
  /\ Faults \subseteq {"exit", "spawn", "shutdown"}

VARIABLES
  slot,      \* PythonBridge.worker: 0, or the number of a worker
  holder,    \* who holds the mutex of the slot across an await
  spawned,   \* workers spawned so far: they are 1..spawned
  worker,    \* Worker, its process and its reader task
  call       \* each call (and the shutdown), where it is

vars == <<slot, holder, spawned, worker, call>>

Workers == 1..Cardinality(Calls)
Tasks   == Calls \cup {Main}

Unborn == [child |-> "none", alive |-> FALSE, reader |-> "none", pending |-> {},
           stdin |-> NoCall, torn |-> FALSE, work |-> {}, out |-> <<>>]

\* rx: what is in the channel.  mangled (history): the line of the call followed half a
\* line of another, or no reader was left when it was written.  cleared: its retire() has
\* emptied the map.  sent, seen: events, one at most.
Idle == [stage |-> "idle", at |-> 0, rx |-> <<>>, result |-> "none",
         mangled |-> FALSE, cleared |-> FALSE, sent |-> 0, seen |-> 0]

Init ==
  /\ slot = 0 /\ holder = NoCall /\ spawned = 0
  /\ worker = [w \in Workers |-> Unborn]
  /\ call = [t \in Tasks |-> Idle]

At(t) == worker[call[t].at]
Stage(t, s) == call' = [call EXCEPT ![t] = [@ EXCEPT !.stage = s]]
Return(t, r) == call' = [call EXCEPT ![t] = [@ EXCEPT !.stage = "done", !.result = r]]
Ended(t) == call[t].stage \in {"done", "dropped"}
\* Sender and line of a call at a worker, and a message in its channel.
Registered(w, c)   == [w EXCEPT !.pending = @ \cup {c}]
Unregistered(w, c) == [w EXCEPT !.pending = @ \ {c}]
Finished(w, c)     == [w EXCEPT !.work = @ \ {c}]
Sent(k, m)         == [k EXCEPT !.rx = Append(@, m)]
Taken(k)           == [k EXCEPT !.rx = Tail(@)]

InUse(w) == slot = w \/ \E t \in Tasks : call[t].at = w /\ ~Ended(t)

-----------------------------------------------------------------------------
(***************************************************************************)
(* PythonBridge::call                                                      *)
(***************************************************************************)

\* ensure_worker: everything under the lock of the slot, without an await.
Reuse(c) ==
  /\ call[c].stage = "idle" /\ holder = NoCall
  /\ slot # 0 /\ worker[slot].alive
  /\ call' = [call EXCEPT ![c] = [@ EXCEPT !.stage = "got", !.at = slot]]
  /\ UNCHANGED <<slot, holder, spawned, worker>>

Spawn(c) ==
  /\ call[c].stage = "idle" /\ holder = NoCall
  /\ slot # 0 => ~worker[slot].alive
  /\ \/ /\ spawned' = spawned + 1 /\ slot' = spawned + 1
        /\ worker' = [worker EXCEPT ![spawned + 1] =
             [@ EXCEPT !.child = "running", !.alive = TRUE, !.reader = "reading"]]
        /\ call' = [call EXCEPT ![c] = [@ EXCEPT !.stage = "got", !.at = spawned + 1]]
     \/ /\ "spawn" \in Faults
        /\ Return(c, "spawn")
        /\ UNCHANGED <<slot, spawned, worker>>
  /\ UNCHANGED holder

Insert(c) ==
  /\ call[c].stage = "got"
  /\ worker' = [worker EXCEPT ![call[c].at] = Registered(@, c)]
  /\ Stage(c, "inserted")
  /\ UNCHANGED <<slot, holder, spawned>>

BeginWrite(c) ==
  /\ call[c].stage = "inserted" /\ At(c).stdin = NoCall
  /\ worker' = [worker EXCEPT ![call[c].at] = [@ EXCEPT !.stdin = c]]
  /\ Stage(c, "writing")
  /\ UNCHANGED <<slot, holder, spawned>>

\* What serve() makes of the line: json.loads refuses it when it follows half
\* a line, and no task is made of it.
Delivered(w, c) ==
  [w EXCEPT !.torn = FALSE, !.work = IF w.torn THEN @ ELSE @ \cup {c}]

\* No answer to a line written now can come.
Unheard(w) == w.torn \/ w.reader = "done"

EndWrite(c) ==
  /\ call[c].stage = "writing" /\ At(c).child = "running"
  /\ worker' = [worker EXCEPT ![call[c].at] = [Delivered(@, c) EXCEPT !.stdin = NoCall]]
  /\ call' = [call EXCEPT ![c] = [@ EXCEPT !.stage = "waiting", !.mangled = Unheard(At(c))]]
  /\ UNCHANGED <<slot, holder, spawned>>

\* A faulty variant: Died at once, without retiring the worker.
WriteFailsAtOnce(c) ==
  /\ call[c].stage = "writing" /\ At(c).child = "exited"
  /\ worker' = [worker EXCEPT ![call[c].at] =
       [Unregistered(@, c) EXCEPT !.stdin = NoCall]]
  /\ Return(c, "died")
  /\ UNCHANGED <<slot, holder, spawned>>

\* The guard of stdin is held until the call returns.
WriteFails(c) ==
  /\ call[c].stage = "writing" /\ At(c).child = "exited"
  /\ worker' = [worker EXCEPT ![call[c].at] = Unregistered(@, c)]
  /\ Stage(c, "retire")
  /\ UNCHANGED <<slot, holder, spawned>>

Receive(c) ==
  /\ call[c].stage = "waiting" /\ call[c].rx # <<>>
  /\ IF Head(call[c].rx) = "event"
     THEN call' = [call EXCEPT ![c] = [Taken(@) EXCEPT !.seen = call[c].seen + 1]]
     ELSE call' = [call EXCEPT ![c] =
            [Taken(@) EXCEPT !.stage = "done", !.result = "answer"]]
  /\ UNCHANGED <<slot, holder, spawned, worker>>

\* recv() returns None: the channel is empty and its sender is gone.
Closed(c) ==
  /\ call[c].stage = "waiting" /\ call[c].rx = <<>> /\ c \notin At(c).pending
  /\ Stage(c, "retire")
  /\ UNCHANGED <<slot, holder, spawned, worker>>

\* A faulty variant: the entry stays.
TimeOutLeaves(c) ==
  /\ call[c].stage = "waiting" /\ c \in Timed
  /\ call[c].rx = <<>> /\ c \in At(c).pending
  /\ Return(c, "timeout")
  /\ UNCHANGED <<slot, holder, spawned, worker>>

\* timeout_at polls the channel before the clock.
TimeOut(c) ==
  /\ call[c].stage = "waiting" /\ c \in Timed
  /\ call[c].rx = <<>> /\ c \in At(c).pending
  /\ worker' = [worker EXCEPT ![call[c].at] = Unregistered(@, c)]
  /\ Return(c, "timeout")
  /\ UNCHANGED <<slot, holder, spawned>>

-----------------------------------------------------------------------------
(***************************************************************************)
(* retire, shutdown, and a dropped future                                  *)
(***************************************************************************)

\* A faulty variant: the lock of the slot is released before the kill.
RetireBeginUnlocked(t) ==
  /\ call[t].stage = "retire" /\ holder = NoCall
  /\ slot' = IF slot = call[t].at THEN 0 ELSE slot
  /\ Stage(t, "killing")
  /\ UNCHANGED <<holder, spawned, worker>>

RetireBegin(t) ==
  /\ call[t].stage = "retire" /\ holder = NoCall
  /\ holder' = t
  /\ slot' = IF slot = call[t].at THEN 0 ELSE slot
  /\ Stage(t, "killing")
  /\ UNCHANGED <<spawned, worker>>

RetireClear(t) ==
  /\ call[t].stage = "killing" /\ ~call[t].cleared
  /\ worker' = [worker EXCEPT ![call[t].at] = [@ EXCEPT !.pending = {}]]
  /\ call' = [call EXCEPT ![t] = [@ EXCEPT !.cleared = TRUE]]
  /\ UNCHANGED <<slot, holder, spawned>>

\* A process that has exited makes no more output.
Killed(w) == [w EXCEPT !.child = "exited", !.work = {}]

\* stdin is released by the call that failed to write.
Freed(w, t) == [w EXCEPT !.stdin = IF @ = t THEN NoCall ELSE @]

\* A faulty variant: the process is left to run.
RetireForgetsKill(t) ==
  /\ call[t].stage = "killing" /\ call[t].cleared
  /\ holder' = NoCall
  /\ worker' = [worker EXCEPT ![call[t].at] = [Freed(@, t) EXCEPT !.alive = FALSE]]
  /\ Return(t, "died")
  /\ UNCHANGED <<slot, spawned>>

RetireKill(t) ==
  /\ call[t].stage = "killing" /\ call[t].cleared
  /\ holder' = NoCall
  /\ worker' = [worker EXCEPT ![call[t].at] = [Freed(Killed(@), t) EXCEPT !.alive = FALSE]]
  /\ Return(t, "died")
  /\ UNCHANGED <<slot, spawned>>

Shutdown ==
  /\ "shutdown" \in Faults
  /\ call[Main].stage = "idle" /\ holder = NoCall /\ slot # 0
  /\ call' = [call EXCEPT ![Main] = [@ EXCEPT !.stage = "retire", !.at = slot]]
  /\ slot' = 0
  /\ UNCHANGED <<holder, spawned, worker>>

\* What a dropped call leaves behind: nothing, or, of a write, the whole line
\* or a part of it; of a retirement, the kill already made.  Its entry in the
\* pending map stays.
LeftBehind(w, c) ==
  CASE call[c].stage = "writing" /\ w.child = "running" ->
         {w, Delivered(w, c), [w EXCEPT !.torn = TRUE]}
    [] call[c].stage = "killing" /\ call[c].cleared -> {w, [Killed(w) EXCEPT !.alive = FALSE]}
    [] OTHER -> {w}

Drop(c) ==
  /\ c \in Droppable /\ call[c].stage # "idle" /\ ~Ended(c)
  /\ \E w \in LeftBehind(At(c), c) : worker' = [worker EXCEPT ![call[c].at] = Freed(w, c)]
  /\ holder' = IF holder = c THEN NoCall ELSE holder
  /\ Stage(c, "dropped")
  /\ UNCHANGED <<slot, spawned>>

-----------------------------------------------------------------------------
(***************************************************************************)
(* The process: handle() and emit() of worker.py, and what may happen to it *)
(***************************************************************************)

\* Once the reader is gone nobody holds the other end of stdout.
Printed(w, line) ==
  IF w.reader = "reading" THEN [w EXCEPT !.out = Append(@, line)] ELSE w

Emit(w, c) ==
  /\ worker[w].child = "running" /\ c \in worker[w].work
  /\ c \in Streaming /\ call[c].sent = 0
  /\ worker' = [worker EXCEPT ![w] = Printed(@, [id |-> c, is |-> "event"])]
  /\ call' = [call EXCEPT ![c] = [@ EXCEPT !.sent = 1]]
  /\ UNCHANGED <<slot, holder, spawned>>

Answer(w, c) ==
  /\ worker[w].child = "running" /\ c \in worker[w].work
  /\ worker' = [worker EXCEPT ![w] =
       Finished(Printed(@, [id |-> c, is |-> "answer"]), c)]
  /\ UNCHANGED <<slot, holder, spawned, call>>

Exit(w) ==
  /\ "exit" \in Faults /\ worker[w].child = "running"
  /\ worker' = [worker EXCEPT ![w] = Killed(@)]
  /\ UNCHANGED <<slot, holder, spawned, call>>

\* Something in the process prints bytes that are not UTF-8.
Garbage(w) ==
  /\ w \in Garbled /\ worker[w].child = "running"
  /\ \A i \in DOMAIN worker[w].out : worker[w].out[i].is # "garbage"
  /\ worker' = [worker EXCEPT ![w] = Printed(@, [id |-> NoCall, is |-> "garbage"])]
  /\ UNCHANGED <<slot, holder, spawned, call>>

\* kill_on_drop
Reap(w) ==
  /\ worker[w].child = "running" /\ ~InUse(w)
  /\ worker' = [worker EXCEPT ![w] = Killed(@)]
  /\ UNCHANGED <<slot, holder, spawned, call>>

-----------------------------------------------------------------------------
(***************************************************************************)
(* The reader task of a worker                                             *)
(***************************************************************************)

\* An event uses the sender, an answer takes it out of the map.
Routed(w, line) == IF line.is = "event" THEN w ELSE Unregistered(w, line.id)

\* A faulty variant: the last line of what was buffered comes first.
ReadLatest(w) ==
  /\ worker[w].reader = "reading" /\ worker[w].out # <<>>
  /\ LET n == Len(worker[w].out)
         line == worker[w].out[n]
     IN /\ line.is # "garbage"
        /\ worker' = [worker EXCEPT ![w] =
             [Routed(@, line) EXCEPT !.out = SubSeq(worker[w].out, 1, n - 1)]]
        /\ call' = IF line.id \in worker[w].pending
                   THEN [call EXCEPT ![line.id] = Sent(@, line.is)] ELSE call
  /\ UNCHANGED <<slot, holder, spawned>>

\* A line for a call that is no longer pending is dropped.
Read(w) ==
  /\ worker[w].reader = "reading" /\ worker[w].out # <<>>
  /\ LET line == Head(worker[w].out)
     IN /\ line.is # "garbage"
        /\ worker' = [worker EXCEPT ![w] =
             [Routed(@, line) EXCEPT !.out = Tail(worker[w].out)]]
        /\ call' = IF line.id \in worker[w].pending
                   THEN [call EXCEPT ![line.id] = Sent(@, line.is)] ELSE call
  /\ UNCHANGED <<slot, holder, spawned>>

\* Ok(None), after the end of the process, or Err(_).
Stop(w) ==
  /\ worker[w].reader = "reading"
  /\ IF worker[w].out = <<>> THEN worker[w].child = "exited"
                             ELSE Head(worker[w].out).is = "garbage"
  /\ worker' = [worker EXCEPT ![w] =
       [@ EXCEPT !.alive = FALSE, !.reader = "stopping", !.out = <<>>]]
  /\ UNCHANGED <<slot, holder, spawned, call>>

\* A faulty variant: the map is not emptied.
ClearNothing(w) ==
  /\ worker[w].reader = "stopping"
  /\ worker' = [worker EXCEPT ![w] = [@ EXCEPT !.reader = "done"]]
  /\ UNCHANGED <<slot, holder, spawned, call>>

Clear(w) ==
  /\ worker[w].reader = "stopping"
  /\ worker' = [worker EXCEPT ![w] = [@ EXCEPT !.pending = {}, !.reader = "done"]]
  /\ UNCHANGED <<slot, holder, spawned, call>>

-----------------------------------------------------------------------------
\* What a call does by itself.
CallStep(c) ==
  \/ Reuse(c) \/ Spawn(c) \/ Insert(c) \/ BeginWrite(c) \/ EndWrite(c)
  \/ WriteFails(c) \/ Receive(c) \/ Closed(c) \/ TimeOut(c)

RetireStep(t) == RetireBegin(t) \/ RetireClear(t) \/ RetireKill(t)
ReaderStep(w) == Read(w) \/ Stop(w) \/ Clear(w)

Next ==
  \/ \E c \in Calls : CallStep(c) \/ Drop(c)
  \/ \E t \in Tasks : RetireStep(t)
  \/ Shutdown
  \/ \E w \in 1..spawned :
       \/ ReaderStep(w) \/ Exit(w) \/ Garbage(w) \/ Reap(w)
       \/ \E c \in Calls : Emit(w, c) \/ Answer(w, c)

Spec == Init /\ [][Next]_vars

\* The tasks of the server are scheduled and a mutex is granted in turn; a
\* process that reads takes the line written to it.  No promise on answers.
TasksRun ==
  /\ \A c \in Calls : WF_vars(CallStep(c))
  /\ \A t \in Tasks : WF_vars(RetireStep(t))
  /\ \A w \in Workers : WF_vars(w <= spawned /\ ReaderStep(w))

FairSpec == Spec /\ TasksRun

\* handle() comes to an end, with a result or an exception.
Answering == WF_vars(\E w \in Workers, c \in Calls : Answer(w, c))

-----------------------------------------------------------------------------
(***************************************************************************)
(* Properties                                                              *)
(***************************************************************************)
Line == [id : Calls \cup {NoCall}, is : {"event", "answer", "garbage"}]

WorkerType ==
  [child : {"none", "running", "exited"}, alive : BOOLEAN,
   reader : {"none", "reading", "stopping", "done"}, pending : SUBSET Calls,
   stdin : Calls \cup {NoCall}, torn : BOOLEAN, work : SUBSET Calls, out : Seq(Line)]

CallType ==
  [stage : {"idle", "got", "inserted", "writing", "waiting", "retire", "killing",
            "done", "dropped"},
   at : 0..spawned, rx : Seq({"event", "answer"}),
   result : {"none", "answer", "died", "spawn", "timeout"},
   mangled : BOOLEAN, cleared : BOOLEAN, sent : {0, 1}, seen : Nat]

\* The types, with the bound on workers (a call spawns one at most) and the two
\* locks held by who is inside their critical section.
TypeOK ==
  /\ spawned \in 0..Cardinality(Calls) /\ slot \in 0..spawned
  /\ worker \in [Workers -> WorkerType]
  /\ call \in [Tasks -> CallType]
  /\ holder \in Tasks \cup {NoCall}
  /\ \A t \in Tasks : (call[t].stage = "killing") = (holder = t)

Pending(c) == call[c].stage = "waiting" /\ c \in At(c).pending

\* A call that waits on an open channel has a reader that will use or close it:
\* an insert that lost the race against the last clear() of the map cannot get
\* its line through (call, spawn), unless the process outlives its reader.
NobodyStranded ==
  \A c \in Calls : Pending(c) /\ ~call[c].mangled => At(c).reader # "done"

\* As long as the process and the reader live, the request of a waiting call is
\* being worked on or its answer is on the way, except after half a line.
NobodyForgotten ==
  \A c \in Calls :
    Pending(c) /\ At(c).child = "running" /\ At(c).reader = "reading" /\ ~call[c].mangled
      => \/ c \in At(c).work
         \/ \E i \in DOMAIN At(c).out :
              At(c).out[i].id = c /\ At(c).out[i].is # "event"

\* A call that returned, however it did, leaves no entry in any pending map.
NoLeak ==
  \A w \in Workers : \A c \in worker[w].pending :
    /\ call[c].at = w
    /\ call[c].stage \in {"inserted", "writing", "waiting", "dropped"}

\* Every request is accounted for at the map, the process and the reader: no waiting
\* call is stranded or forgotten, and no call that is over left an entry behind.
CallsAccounted == NobodyStranded /\ NobodyForgotten /\ NoLeak

\* Shutdown lets go of a worker before it kills it, a dropped call may do so for ever,
\* and a reader that stopped leaves its process to the calls that still use it.
LetGo(w) ==
  \/ worker[w].reader # "reading"
  \/ call[Main].at = w /\ call[Main].stage \in {"retire", "killing"}
  \/ \E c \in Calls : call[c].at = w /\ call[c].stage = "dropped"

\* Whatever calls retire and respawn at once, there is one process, but for those
\* that were let go.
OneChild ==
  \A v, w \in Workers :
    worker[v].child = "running" /\ worker[w].child = "running" /\ ~LetGo(v) /\ ~LetGo(w)
    => v = w

\* All the events of a request are given to on_event before its answer.
EventsBeforeAnswer ==
  \A c \in Calls : call[c].result = "answer" => call[c].seen = call[c].sent

\* A worker on which a call failed with Died is never given to another call:
\* the next one respawns it (ensure_worker, retire).
DiedMeansReplaced ==
  [][\A b, c \in Calls :
       /\ call[b].result = "died"
       /\ call[c].stage = "idle" /\ call'[c].stage = "got"
       => call'[c].at # call[b].at]_vars

OnDeadWorker(c) == call[c].stage # "idle" /\ ~Ended(c) /\ At(c).child = "exited"

\* When the process dies, every call in flight returns; nobody needs an answer
\* or a deadline for that (lib.rs, "When the process dies, ..."), unless its reader
\* had stopped before.
DeadWorkerReleases == \A c \in Calls : OnDeadWorker(c) ~> Ended(c) \/ call[c].mangled

\* A call with a deadline returns whatever the worker does or does not do.
DeadlineHolds == \A c \in Timed : call[c].stage = "got" ~> Ended(c)

\* Every call returns when the worker answers, even over crashes of the worker: except
\* one whose line nobody read.
CallsReturn == \A c \in Calls : call[c].stage = "got" ~> Ended(c) \/ call[c].mangled

\* No caller waits for ever: by its deadline, by the death of the process, or by the
\* answers, as far as they come.
CallsEnd == DeadlineHolds /\ DeadWorkerReleases /\ (Answering => CallsReturn)
=============================================================================

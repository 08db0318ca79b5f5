---------------------------- MODULE EventStream ----------------------------
(***************************************************************************)
(* The event bus of one server process and its WebSocket clients.  publish  *)
(* appends to the durable log, pushes onto the replay ring and broadcasts,  *)
(* in three separate steps, from any task.  /ws/events subscribes, replays  *)
(* a backlog and forwards what is broadcast; hub.ts in the browser keeps    *)
(* the last sequence number it saw and resumes from it.                     *)
(*                                                                          *)
(* An event is its sequence number, or Unlogged (-1) if the append failed.  *)
(***************************************************************************)
EXTENDS Integers, Sequences, FiniteSets

CONSTANTS
  Publishers,  \* the tasks that publish, one event at a time each
  Clients,     \* browser tabs, one socket at a time each
  RingSize,    \* replay_size of EventBus::new
  Capacity,    \* capacity of the broadcast channel
  Limit,       \* rows that since() reads for a resuming socket
  WireSize,    \* bound: messages between handle_ws and the browser
  MaxEvents,   \* bound: rows of the event log
  Together     \* bound: the sets of faults that one behaviour may meet

Unlogged == -1

Kinds == {"append", "query", "elsewhere", "blip", "crash"}

ASSUME EventStreamAssumption ==
  /\ {RingSize, Capacity, Limit, WireSize} \subseteq Nat \ {0}
  /\ MaxEvents \in Nat /\ Together \subseteq SUBSET Kinds

VARIABLES
  up,          \* the server process runs
  log,         \* rows of `events`: their sequence numbers are 1..log
  publishing,  \* publish calls between their steps
  ring,        \* Inner.replay
  sent,        \* all that was ever broadcast, in order
  conn,        \* the socket task of each client, and what is on its wire
  lastSeq,     \* hub.ts: the last positive number received, 0 for null
  faults,      \* the kinds of fault so far
  \* History, which no step of the program reads:
  base,        \* rows of the log when the client first subscribed
  got,         \* events received by each client
  late,        \* events overtaken by a later one, or published elsewhere
  skipped      \* events a client was made to skip: lag, limit, failed query, trim

vars == <<up, log, publishing, ring, sent, conn, lastSeq, faults,
          base, got, late, skipped>>

Closed == [stage |-> "closed", pos |-> 0, last |-> 0, todo |-> <<>>, wire |-> <<>>]

Init ==
  /\ up = TRUE /\ log = 0 /\ publishing = {} /\ ring = <<>> /\ sent = <<>>
  /\ conn = [c \in Clients |-> Closed]
  /\ lastSeq = [c \in Clients |-> 0]
  /\ faults = {} /\ late = {}
  /\ base = [c \in Clients |-> 0]
  /\ got = [c \in Clients |-> {}]
  /\ skipped = [c \in Clients |-> {}]

Fault(kind) ==
  /\ kind \notin faults /\ \E ks \in Together : faults \cup {kind} \subseteq ks
  /\ faults' = faults \cup {kind}

Elements(s) == {s[i] : i \in DOMAIN s}

\* The last n elements of s.
Newest(s, n) == SubSeq(s, IF Len(s) > n THEN Len(s) - n + 1 ELSE 1, Len(s))

-----------------------------------------------------------------------------
(***************************************************************************)
(* EventBus::publish                                                       *)
(***************************************************************************)

Busy(by) == \E p \in publishing : p.by = by

\* append_event: the row gets the next number; a failed insert is only
\* printed, and the event goes out with -1.
AppendEvent(by) ==
  /\ up /\ ~Busy(by)
  /\ \/ /\ log < MaxEvents
        /\ log' = log + 1
        /\ publishing' = publishing \cup {[by |-> by, seq |-> log + 1, step |-> "ring"]}
        /\ UNCHANGED faults
     \/ /\ Fault("append")
        /\ publishing' = publishing \cup {[by |-> by, seq |-> Unlogged, step |-> "ring"]}
        /\ UNCHANGED log

Publish(p) ==
  /\ AppendEvent(p)
  /\ UNCHANGED <<up, ring, sent, conn, lastSeq, base, got, late, skipped>>

PushRingUntrimmed(e) ==
  /\ e.step = "ring"
  /\ ring' = Append(ring, e.seq)
  /\ publishing' = (publishing \ {e}) \cup {[e EXCEPT !.step = "send"]}
  /\ late' = late \cup {p.seq : p \in {q \in publishing : 0 < q.seq /\ q.seq < e.seq}}
  /\ UNCHANGED <<up, log, sent, conn, lastSeq, faults, base, got, skipped>>

\* Push onto the ring and trim it, under its mutex.
PushRing(e) ==
  /\ e.step = "ring"
  /\ ring' = Newest(Append(ring, e.seq), RingSize)
  /\ publishing' = (publishing \ {e}) \cup {[e EXCEPT !.step = "send"]}
  /\ late' = late \cup {p.seq : p \in {q \in publishing : 0 < q.seq /\ q.seq < e.seq}}
  /\ UNCHANGED <<up, log, sent, conn, lastSeq, faults, base, got, skipped>>

SendNever(e) ==
  /\ e.step = "send"
  /\ publishing' = publishing \ {e}
  /\ UNCHANGED <<up, log, ring, sent, conn, lastSeq, faults, base, got, late, skipped>>

Send(e) ==
  /\ e.step = "send"
  /\ sent' = Append(sent, e.seq)
  /\ publishing' = publishing \ {e}
  /\ UNCHANGED <<up, log, ring, conn, lastSeq, faults, base, got, late, skipped>>

\* `horizon train` and `horizon eval` publish into the same log from a process
\* of their own, whose channel has no subscriber here.
PublishElsewhere ==
  /\ log < MaxEvents /\ Fault("elsewhere")
  /\ log' = log + 1
  /\ late' = late \cup {log + 1}
  /\ UNCHANGED <<up, publishing, ring, sent, conn, lastSeq, base, got, skipped>>
-----------------------------------------------------------------------------
(***************************************************************************)
(* handle_ws                                                               *)
(***************************************************************************)

\* The socket opens with ?since=lastSeq if there is one; subscribe comes first.
Subscribe(c) ==
  /\ up /\ conn[c].stage = "closed"
  /\ conn' = [conn EXCEPT ![c] = [Closed EXCEPT !.stage = "subscribed", !.pos = Len(sent)]]
  /\ base' = IF lastSeq[c] = 0 THEN [base EXCEPT ![c] = log] ELSE base
  /\ UNCHANGED <<up, log, publishing, ring, sent, lastSeq, faults, got, late, skipped>>

\* since(seq, Limit): rows in order of their numbers.
Since(seq) ==
  LET n == IF log - seq > Limit THEN Limit ELSE log - seq
  IN  [i \in 1..n |-> seq + i]

\* The backlog without a number: the ring, from which events may have been
\* trimmed since the client subscribed.
LoadRing(c) ==
  /\ conn[c].stage = "subscribed" /\ lastSeq[c] = 0
  /\ conn' = [conn EXCEPT ![c] = [conn[c] EXCEPT !.stage = "open", !.todo = ring]]
  /\ skipped' = [skipped EXCEPT ![c] = @ \cup
       {s \in base[c] + 1 .. log : /\ s \notin Elements(ring)
                                 /\ \A p \in publishing : ~(p.step = "ring" /\ p.seq = s)}]
  /\ UNCHANGED <<up, log, publishing, ring, sent, lastSeq, faults, base, got, late>>

\* The backlog after a number, cut at Limit rows; empty if the query fails.
LoadRows(c) ==
  /\ conn[c].stage = "subscribed" /\ lastSeq[c] # 0
  /\ LET rows == Since(lastSeq[c])
     IN  \/ /\ conn' = [conn EXCEPT ![c] = [conn[c] EXCEPT !.stage = "open", !.todo = rows]]
            /\ skipped' = [skipped EXCEPT ![c] = @ \cup lastSeq[c] + Len(rows) + 1 .. log]
            /\ UNCHANGED faults
         \/ /\ Fault("query")
            /\ conn' = [conn EXCEPT ![c] = [conn[c] EXCEPT !.stage = "open"]]
            /\ skipped' = [skipped EXCEPT ![c] = @ \cup lastSeq[c] + 1 .. log]
  /\ UNCHANGED <<up, log, publishing, ring, sent, lastSeq, base, got, late>>

ReplayThenSubscribe(c) ==
  /\ conn[c].stage = "open" /\ conn[c].todo # <<>>
  /\ Len(conn[c].wire) < WireSize
  /\ LET env == Head(conn[c].todo)
     IN  conn' = [conn EXCEPT ![c] =
           [conn[c] EXCEPT !.pos = Len(sent), !.todo = Tail(@), !.last = env,
                     !.wire = Append(@, env)]]
  /\ UNCHANGED <<up, log, publishing, ring, sent, lastSeq, faults,
                 base, got, late, skipped>>

\* One message of the backlog; socket.send waits for room on the wire.
Replay(c) ==
  /\ conn[c].stage = "open" /\ conn[c].todo # <<>>
  /\ Len(conn[c].wire) < WireSize
  /\ LET env == Head(conn[c].todo)
     IN  conn' = [conn EXCEPT ![c] =
           [conn[c] EXCEPT !.todo = Tail(@), !.last = env, !.wire = Append(@, env)]]
  /\ UNCHANGED <<up, log, publishing, ring, sent, lastSeq, faults,
                 base, got, late, skipped>>

\* The backlog is out, and the task does not publish its own lag warning.
Live(c) == conn[c].stage = "open" /\ conn[c].todo = <<>> /\ ~Busy(c)

Lags(c) == Len(sent) - conn[c].pos > Capacity

ForwardAll(c) ==
  /\ Live(c) /\ ~Lags(c) /\ conn[c].pos < Len(sent)
  /\ Len(conn[c].wire) < WireSize
  /\ LET env == sent[conn[c].pos + 1]
     IN  conn' = [conn EXCEPT ![c] =
           [conn[c] EXCEPT !.pos = @ + 1, !.last = env, !.wire = Append(@, env)]]
  /\ UNCHANGED <<up, log, publishing, ring, sent, lastSeq, faults,
                 base, got, late, skipped>>

\* The next broadcast, unless its number says that it is out already.
Forward(c) ==
  /\ Live(c) /\ ~Lags(c) /\ conn[c].pos < Len(sent)
  /\ LET env == sent[conn[c].pos + 1]
     IN  \/ /\ 0 < env /\ env <= conn[c].last
            /\ conn' = [conn EXCEPT ![c] = [conn[c] EXCEPT !.pos = @ + 1]]
         \/ /\ env <= 0 \/ conn[c].last < env
            /\ Len(conn[c].wire) < WireSize
            /\ conn' = [conn EXCEPT ![c] =
                 [conn[c] EXCEPT !.pos = @ + 1, !.last = env, !.wire = Append(@, env)]]
  /\ UNCHANGED <<up, log, publishing, ring, sent, lastSeq, faults,
                 base, got, late, skipped>>

\* RecvError::Lagged: the receiver is moved to the oldest event the channel
\* still holds, and the warning is itself an event of this task.  Bound: the
\* warning is left out once there are MaxEvents.
Lag(c) ==
  /\ Live(c) /\ Lags(c)
  /\ conn' = [conn EXCEPT ![c] = [conn[c] EXCEPT !.pos = Len(sent) - Capacity]]
  /\ skipped' = [skipped EXCEPT ![c] = @ \cup
       {sent[i] : i \in conn[c].pos + 1 .. Len(sent) - Capacity}]
  /\ AppendEvent(c) \/ (log = MaxEvents /\ UNCHANGED <<log, publishing, faults>>)
  /\ UNCHANGED <<up, ring, sent, lastSeq, base, got, late>>
-----------------------------------------------------------------------------
(***************************************************************************)
(* hub.ts, and what happens to sockets and to the process                  *)
(***************************************************************************)

Receive(c) ==
  /\ conn[c].wire # <<>>
  /\ LET env == Head(conn[c].wire)
     IN  IF env > 0
         THEN /\ lastSeq' = [lastSeq EXCEPT ![c] = env]
              /\ got' = [got EXCEPT ![c] = @ \cup {env}]
         ELSE UNCHANGED <<lastSeq, got>>
  /\ conn' = [conn EXCEPT ![c] = [conn[c] EXCEPT !.wire = Tail(@)]]
  /\ UNCHANGED <<up, log, publishing, ring, sent, faults, base, late, skipped>>

\* The socket breaks; what was on the wire is gone.  A warning that the task
\* is publishing still goes out.
Blip(c) ==
  /\ conn[c].stage # "closed" /\ Fault("blip")
  /\ conn' = [conn EXCEPT ![c] = Closed]
  /\ UNCHANGED <<up, log, publishing, ring, sent, lastSeq, base, got, late, skipped>>

\* The process dies between any two steps of its publishers.
Crash ==
  /\ up /\ Fault("crash")
  /\ up' = FALSE
  /\ publishing' = {} /\ ring' = <<>>
  /\ conn' = [c \in Clients |-> Closed]
  /\ UNCHANGED <<log, sent, lastSeq, base, got, late, skipped>>

RestartOldestFirst ==
  /\ ~up /\ up' = TRUE
  /\ ring' = [i \in 1..(IF log > RingSize THEN RingSize ELSE log) |-> log + 1 - i]
  /\ UNCHANGED <<log, publishing, sent, conn, lastSeq, faults, base, got, late, skipped>>

\* EventBus::new: the ring is warmed from the newest rows, oldest first.
Restart ==
  /\ ~up /\ up' = TRUE
  /\ ring' = Newest([i \in 1..log |-> i], RingSize)
  /\ UNCHANGED <<log, publishing, sent, conn, lastSeq, faults, base, got, late, skipped>>

SocketStep(c) ==
  Subscribe(c) \/ LoadRing(c) \/ LoadRows(c) \/ Replay(c) \/ Forward(c) \/ Lag(c)

Next ==
  \/ \E p \in Publishers : Publish(p)
  \/ \E e \in publishing : PushRing(e) \/ Send(e)
  \/ \E c \in Clients : SocketStep(c) \/ Receive(c) \/ Blip(c)
  \/ PublishElsewhere \/ Crash \/ Restart

Spec == Init /\ [][Next]_vars

\* Everything the server and the browser do by themselves goes on; only faults
\* and the decision to publish are nobody's duty.
Fairness ==
  /\ WF_vars(Restart)
  /\ \A p \in Publishers \cup Clients :
       WF_vars(\E e \in publishing : e.by = p /\ (PushRing(e) \/ Send(e)))
  /\ \A c \in Clients : WF_vars(SocketStep(c)) /\ WF_vars(Receive(c))

FairSpec == Spec /\ Fairness
-----------------------------------------------------------------------------
(***************************************************************************)
(* Properties                                                              *)
(***************************************************************************)

Seqs == {Unlogged} \cup 1..MaxEvents

Connection ==
  [stage : {"closed", "subscribed", "open"}, pos : Nat, last : Seqs \cup {0},
   todo : Seq(Seqs), wire : Seq(Seqs)]

\* The shape of the state.
TypeOK ==
  /\ up \in BOOLEAN
  /\ log \in 0..MaxEvents
  /\ publishing \subseteq
       [by : Publishers \cup Clients, seq : Seqs, step : {"ring", "send"}]
  /\ ring \in Seq(Seqs) /\ Len(ring) <= RingSize
  /\ sent \in Seq(Seqs)
  /\ conn \in [Clients -> Connection]
  /\ \A c \in Clients : conn[c].pos <= Len(sent) /\ Len(conn[c].wire) <= WireSize
  /\ lastSeq \in [Clients -> 0..log]
  /\ base \in [Clients -> 0..log]
  /\ got \in [Clients -> SUBSET (1..log)]
  /\ late \subseteq 1..log
  /\ skipped \in [Clients -> SUBSET Seqs]
  /\ faults \subseteq Kinds

\* "resumes from the last sequence number on reconnect so no event is dropped
\* across a blip" (hub.ts:3): between its first subscription and the number it
\* would resume from, a client misses an event only if another publish
\* overtook it, another process published it, or the server made the client
\* skip it (lag, limit, failed query).  Crashes and broken sockets lose nothing.
NothingElseIsLost ==
  \A c \in Clients : \A s \in base[c] + 1 .. lastSeq[c] :
    s \in got[c] \cup late \cup skipped[c]

\* Over one connection numbers go up, so that no event comes twice, across the
\* seam between the backlog and the live events: unless publishes overtook
\* each other.  An event without a number starts the order anew.
DeliversInOrder ==
  [][\A c \in Clients :
       /\ late' = {} /\ conn[c].stage = "open" /\ conn'[c].stage = "open"
       /\ conn'[c].last \notin {conn[c].last, Unlogged}
       => conn'[c].last > conn[c].last]_vars

\* What a fresh client is shown is the end of the durable log, before and after
\* restarts: once no publish is in progress, unless publishes overtook each
\* other or an append failed.
RingIsEndOfLog ==
  /\ up /\ publishing = {} /\ late = {}
  /\ Unlogged \notin Elements(ring)
  => ring = Newest([i \in 1..log |-> i], RingSize)

\* Every event of the log reaches every client that was there before it, for
\* every reason of NothingElseIsLost that may have kept it.
ClientsCatchUp ==
  \A c \in Clients, s \in 1..MaxEvents :
    log >= s ~> s <= base[c] \/ s \in got[c] \cup late \cup skipped[c]

HasAll(c) == base[c] + 1 .. lastSeq[c] \subseteq got[c]

\* "Subscribe before replaying so nothing published in between is lost"
\* (api.rs:628): a client that was not made to skip anything has every event
\* between its first subscription and the last number it received.
NothingInBetweenIsLost == \A c \in Clients : skipped[c] = {} => HasAll(c)
=============================================================================

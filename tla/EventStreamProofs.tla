------------------------- MODULE EventStreamProofs -------------------------
(***************************************************************************)
(* Proofs about EventStream, for any publishers and clients, any sizes of   *)
(* ring, channel, backlog and wire, and any faults.                         *)
(***************************************************************************)
EXTENDS EventStream, SequenceTheorems, TLAPS

\* A socket that is not open carries nothing, a process that is down has no
\* publisher and no socket.
Quiet ==
  /\ \A c \in Clients : conn[c].stage # "open" =>
       conn[c].todo = <<>> /\ conn[c].wire = <<>> /\ conn[c].last = 0
  /\ ~up => publishing = {} /\ \A c \in Clients : conn[c].stage = "closed"

\* Every number in flight is one of a row.
Numbered ==
  /\ \A p \in publishing : p.seq <= log
  /\ \A i \in 1..Len(ring) : ring[i] <= log
  /\ \A i \in 1..Len(sent) : sent[i] <= log
  /\ \A c \in Clients :
       /\ conn[c].last <= log
       /\ \A i \in 1..Len(conn[c].todo) : conn[c].todo[i] <= log
       /\ \A i \in 1..Len(conn[c].wire) : conn[c].wire[i] <= log

Shape == TypeOK /\ Quiet /\ Numbered
-----------------------------------------------------------------------------
\* A number is given to one publish call.
OneNumber == \A p, q \in publishing : p.seq = q.seq /\ p.seq > 0 => p = q

\* A number that is not yet in the ring is above all that are, or overtaken.
RingOvertakes ==
  \A q \in publishing : q.step = "ring" /\ q.seq > 0 /\ q.seq \notin late =>
    /\ \A i \in 1..Len(ring) : ring[i] < q.seq
    /\ \A i \in 1..Len(sent) : sent[i] < q.seq
    /\ \A p \in publishing : p.step = "send" => p.seq < q.seq

\* The same for one that is not yet broadcast.
SendOvertakes ==
  \A q \in publishing : q.step = "send" /\ q.seq > 0 /\ q.seq \notin late =>
    /\ \A i \in 1..Len(sent) : sent[i] <= q.seq
    /\ \A p \in publishing : p.step = "send" => p.seq <= q.seq

\* The numbers in the ring go up, except for those that were overtaken.
RingGoesUp ==
  \A i, j \in 1..Len(ring) :
    i < j /\ ring[j] > 0 => ring[i] < ring[j] \/ ring[j] \in late

PublishOrder == OneNumber /\ RingOvertakes /\ SendOvertakes /\ RingGoesUp
-----------------------------------------------------------------------------
AtRing(s) == \E q \in publishing : q.step = "ring" /\ q.seq = s

\* The ring ends with row k, the last one pushed, and holds the rows before it
\* one by one back to its last event without a number.
EndsWith(k) ==
  /\ \A s \in 1..log : s <= k <=> ~AtRing(s)
  /\ \A i \in 1..Len(ring) :
       (\A j \in i..Len(ring) : ring[j] > 0) => ring[i] = k - (Len(ring) - i)
  /\ (\A i \in 1..Len(ring) : ring[i] > 0) /\ Len(ring) < RingSize => Len(ring) = k

RingIsSuffix == up /\ late = {} => \E k \in 0..log : EndsWith(k)

\* Numbers of a backlog go up, from what the client was sent before.
GoesUp(k) ==
  \A j \in 1..Len(k.todo) : k.todo[j] > 0 =>
    k.todo[j] > k.last /\ \A i \in 1..j - 1 : k.todo[i] < k.todo[j]

BacklogGoesUp == late = {} => \A c \in Clients : GoesUp(conn[c])
-----------------------------------------------------------------------------
\* What a client has, or misses for a reason.
Accounted(c) == got[c] \cup late \cup skipped[c]
OnWire(c)  == Elements(conn[c].wire)
InTodo(c)  == Elements(conn[c].todo)

\* The events that the socket task has not looked at.
Ahead(c)   == {sent[i] : i \in conn[c].pos + 1 .. Len(sent)}
Publishing == {p.seq : p \in publishing}

\* Every event of the log is accounted for, or on its way.
OnItsWay(c) ==
  conn[c].stage = "open" => \A s \in base[c] + 1 .. log :
    s \in Accounted(c) \cup OnWire(c) \cup InTodo(c) \cup Ahead(c) \cup Publishing

\* An event comes after all that have smaller numbers: on the wire, in the
\* backlog, and in what is broadcast.
WireInOrder(c) ==
  \A i \in 1..Len(conn[c].wire) : \A s \in base[c] + 1 .. conn[c].wire[i] - 1 :
    s \in Accounted(c) \/ \E j \in 1..i - 1 : conn[c].wire[j] = s

TodoInOrder(c) ==
  \A i \in 1..Len(conn[c].todo) : \A s \in base[c] + 1 .. conn[c].todo[i] - 1 :
    s \in Accounted(c) \cup OnWire(c) \/ \E j \in 1..i - 1 : conn[c].todo[j] = s

AheadInOrder(c) ==
  conn[c].stage = "open" =>
    \A i \in conn[c].pos + 1 .. Len(sent) : \A s \in base[c] + 1 .. sent[i] - 1 :
      \/ s \in Accounted(c) \cup OnWire(c) \cup InTodo(c)
      \/ \E j \in conn[c].pos + 1 .. i - 1 : sent[j] = s

\* What was written to the wire last.
SentUpTo(c) ==
  \A s \in base[c] + 1 .. conn[c].last : s \in Accounted(c) \cup OnWire(c)

Complete(c) ==
  OnItsWay(c) /\ WireInOrder(c) /\ TodoInOrder(c) /\ AheadInOrder(c) /\ SentUpTo(c)

\* What the browser would resume from.
Reached(c) == \A s \in base[c] + 1 .. lastSeq[c] : s \in Accounted(c)

ClientOrder == \A c \in Clients : Complete(c) /\ Reached(c)

IInv ==
  Shape /\ PublishOrder /\ RingIsSuffix /\ BacklogGoesUp /\ ClientOrder
-----------------------------------------------------------------------------
(***************************************************************************)
(* Sequences                                                               *)
(***************************************************************************)

LEMMA ElementsOf ==
  ASSUME NEW S, NEW s \in Seq(S), NEW x
  PROVE  x \in Elements(s) <=> \E i \in 1..Len(s) : s[i] = x
BY LenProperties DEF Elements

LEMMA ElementsOfAppend ==
  ASSUME NEW S, NEW s \in Seq(S), NEW e \in S
  PROVE  Elements(Append(s, e)) = Elements(s) \cup {e}
<1>1. /\ Append(s, e) \in Seq(S) /\ Len(s) \in Nat
      /\ Len(Append(s, e)) = Len(s) + 1
      /\ \A i \in 1..Len(s) : Append(s, e)[i] = s[i]
      /\ Append(s, e)[Len(s) + 1] = e
  BY AppendProperties, LenProperties
<1>2. DOMAIN s = 1..Len(s) /\ DOMAIN Append(s, e) = 1..Len(s) + 1
  BY <1>1, LenProperties
<1> QED BY <1>1, <1>2 DEF Elements

LEMMA ElementsOfTail ==
  ASSUME NEW S, NEW s \in Seq(S), s # <<>>
  PROVE  /\ Elements(s) = {Head(s)} \cup Elements(Tail(s))
         /\ Tail(s) \in Seq(S) /\ Len(Tail(s)) = Len(s) - 1
         /\ Len(s) \in Nat \ {0} /\ Head(s) = s[1] /\ Head(s) \in S
         /\ \A i \in 1..Len(Tail(s)) : Tail(s)[i] = s[i + 1]
<1>1. /\ Tail(s) \in Seq(S) /\ Len(Tail(s)) = Len(s) - 1
      /\ Len(s) \in Nat \ {0} /\ Head(s) = s[1] /\ Head(s) \in S
      /\ \A i \in 1..Len(Tail(s)) : Tail(s)[i] = s[i + 1]
  BY HeadTailProperties, EmptySeq, LenProperties
<1>2. DOMAIN s = 1..Len(s) /\ DOMAIN Tail(s) = 1..Len(s) - 1
  BY <1>1, LenProperties
<1>3. \A i \in 1..Len(s) : i = 1 \/ (i - 1 \in 1..Len(s) - 1 /\ Tail(s)[i - 1] = s[i])
  BY <1>1
<1>4. ASSUME NEW x PROVE x \in Elements(s) <=> x = Head(s) \/ x \in Elements(Tail(s))
  <2>1. x \in Elements(s) <=> \E i \in 1..Len(s) : s[i] = x
    BY ElementsOf
  <2>2. x \in Elements(Tail(s)) <=> \E i \in 1..Len(Tail(s)) : Tail(s)[i] = x
    BY <1>1, ElementsOf
  <2> QED BY <1>1, <1>3, <2>1, <2>2
<1> QED BY <1>1, <1>4

LEMMA ElementsOfNone == Elements(<<>>) = {}
BY DEF Elements

\* The last n elements.
LEMMA NewestIs ==
  ASSUME NEW S, NEW s \in Seq(S), NEW n \in Nat \ {0}
  PROVE  /\ Newest(s, n) \in Seq(S)
         /\ Len(Newest(s, n)) = IF Len(s) > n THEN n ELSE Len(s)
         /\ \A i \in 1..Len(Newest(s, n)) :
              Newest(s, n)[i] = s[Len(s) - Len(Newest(s, n)) + i]
<1> DEFINE m == IF Len(s) > n THEN Len(s) - n + 1 ELSE 1
<1>1. Len(s) \in Nat /\ m \in Nat \ {0}
  BY LenProperties
<1>2. \A i \in m..Len(s) : s[i] \in S
  BY <1>1, ElementOfSeq
<1>3. /\ SubSeq(s, m, Len(s)) \in Seq(S)
      /\ Len(SubSeq(s, m, Len(s))) = IF m <= Len(s) THEN Len(s) - m + 1 ELSE 0
      /\ \A i \in 1..Len(s) - m + 1 : SubSeq(s, m, Len(s))[i] = s[m + i - 1]
  BY <1>1, <1>2, SubSeqProperties
<1>4. Newest(s, n) = SubSeq(s, m, Len(s))
  BY <1>1 DEF Newest
<1>5. Len(Newest(s, n)) = IF Len(s) > n THEN n ELSE Len(s)
  <2>1. \A l \in Nat : \A k \in Nat \ {0} :
          /\ l > k => l - k + 1 <= l /\ l - (l - k + 1) + 1 = k
          /\ ~(l > k) => IF 1 <= l THEN l - 1 + 1 = l ELSE l = 0
    OBVIOUS
  <2>2. (IF m <= Len(s) THEN Len(s) - m + 1 ELSE 0) = IF Len(s) > n THEN n ELSE Len(s)
    BY <1>1, <2>1
  <2> HIDE DEF m
  <2> QED BY <1>3, <1>4, <2>2
<1>6. ASSUME NEW i \in 1..Len(Newest(s, n))
      PROVE  Newest(s, n)[i] = s[Len(s) - Len(Newest(s, n)) + i]
  <2>1. i \in 1..Len(s) - m + 1 /\ m + i - 1 = Len(s) - Len(Newest(s, n)) + i
    BY <1>1, <1>5
  <2> QED BY <1>3, <1>4, <2>1
<1> QED BY <1>3, <1>4, <1>5, <1>6

\* Rows in order: the log, and a part of it.
LEMMA RowsAre ==
  ASSUME NEW n \in Nat, NEW k \in Nat, k + n <= MaxEvents
  PROVE  /\ [i \in 1..n |-> k + i] \in Seq(Seqs)
         /\ Len([i \in 1..n |-> k + i]) = n
<1>1. MaxEvents \in Nat
  BY EventStreamAssumption
<1>2. \A i \in 1..n : k + i \in Seqs
  BY <1>1 DEF Seqs
<1>3. [i \in 1..n |-> k + i] \in [1..n -> Seqs]
  BY <1>2
<1> QED BY <1>3, SeqDef
-----------------------------------------------------------------------------
(***************************************************************************)
(* What a step does to the socket of a client                              *)
(***************************************************************************)

LEMMA EmptyInSeqs == <<>> \in Seq(Seqs) /\ Len(<<>>) = 0
BY EmptySeq

LEMMA Reconnected ==
  ASSUME TypeOK, NEW c \in Clients, NEW r \in Connection, conn' = [conn EXCEPT ![c] = r]
  PROVE  /\ conn' \in [Clients -> Connection] /\ conn'[c] = r
         /\ \A d \in Clients \ {c} : conn'[d] = conn[d]
BY DEF TypeOK

LEMMA ClosedIs ==
  /\ Closed \in Connection /\ Closed.stage = "closed" /\ Closed.pos = 0 /\ Closed.last = 0
  /\ Closed.todo = <<>> /\ Closed.wire = <<>>
BY EmptyInSeqs DEF Closed, Connection

LEMMA SubscribeDoes ==
  ASSUME TypeOK, NEW c \in Clients, Subscribe(c)
  PROVE  /\ conn' \in [Clients -> Connection] /\ \A d \in Clients \ {c} : conn'[d] = conn[d]
         /\ conn'[c].stage = "subscribed" /\ conn'[c].pos = Len(sent) /\ conn'[c].last = 0
         /\ conn'[c].todo = <<>> /\ conn'[c].wire = <<>>
<1> DEFINE r == [Closed EXCEPT !.stage = "subscribed", !.pos = Len(sent)]
<1>1. Len(sent) \in Nat
  BY LenProperties DEF TypeOK
<1>2. /\ r \in Connection /\ r.stage = "subscribed" /\ r.pos = Len(sent) /\ r.last = 0
      /\ r.todo = <<>> /\ r.wire = <<>>
  BY <1>1, ClosedIs DEF Connection
<1>3. conn' = [conn EXCEPT ![c] = r]
  BY DEF Subscribe
<1> HIDE DEF r
<1> QED BY <1>2, <1>3, Reconnected

LEMMA LoadRingDoes ==
  ASSUME TypeOK, NEW c \in Clients, LoadRing(c)
  PROVE  /\ conn' \in [Clients -> Connection] /\ \A d \in Clients \ {c} : conn'[d] = conn[d]
         /\ conn'[c].stage = "open" /\ conn'[c].pos = conn[c].pos
         /\ conn'[c].last = conn[c].last
         /\ conn'[c].todo = ring /\ conn'[c].wire = conn[c].wire
<1> DEFINE r == [conn[c] EXCEPT !.stage = "open", !.todo = ring]
<1>1. conn[c] \in Connection /\ ring \in Seq(Seqs)
  BY DEF TypeOK
<1>2. /\ r \in Connection /\ r.stage = "open" /\ r.pos = conn[c].pos
      /\ r.last = conn[c].last /\ r.todo = ring /\ r.wire = conn[c].wire
  BY <1>1 DEF Connection
<1>3. conn' = [conn EXCEPT ![c] = r]
  BY DEF LoadRing
<1> HIDE DEF r
<1> QED BY <1>2, <1>3, Reconnected

\* The rows that follow a client's last number.
LEMMA SinceIs ==
  ASSUME TypeOK, NEW c \in Clients
  PROVE  LET rows == Since(lastSeq[c])
         IN  /\ rows \in Seq(Seqs) /\ Len(rows) \in Nat /\ lastSeq[c] + Len(rows) <= log
             /\ \A i \in 1..Len(rows) : rows[i] = lastSeq[c] + i
<1> DEFINE n == IF log - lastSeq[c] > Limit THEN Limit ELSE log - lastSeq[c]
<1>1. lastSeq[c] \in Nat /\ log \in Nat /\ lastSeq[c] <= log /\ log <= MaxEvents
      /\ Limit \in Nat /\ MaxEvents \in Nat
  BY EventStreamAssumption DEF TypeOK
<1>2. n \in Nat /\ lastSeq[c] + n <= log
  BY <1>1
<1>3. Since(lastSeq[c]) = [i \in 1..n |-> lastSeq[c] + i]
  BY DEF Since
<1> HIDE DEF n
<1>4. lastSeq[c] + n <= MaxEvents
  BY <1>1, <1>2
<1>5. Since(lastSeq[c]) \in Seq(Seqs) /\ Len(Since(lastSeq[c])) = n
  BY <1>1, <1>2, <1>3, <1>4, RowsAre
<1>6. \A i \in 1..n : Since(lastSeq[c])[i] = lastSeq[c] + i
  BY <1>3
<1> QED BY <1>2, <1>5, <1>6

LEMMA LoadRowsDoes ==
  ASSUME TypeOK, NEW c \in Clients, LoadRows(c)
  PROVE  /\ conn' \in [Clients -> Connection] /\ \A d \in Clients \ {c} : conn'[d] = conn[d]
         /\ conn'[c].stage = "open" /\ conn'[c].pos = conn[c].pos
         /\ conn'[c].last = conn[c].last /\ conn'[c].wire = conn[c].wire
         /\ \/ /\ conn'[c].todo = Since(lastSeq[c])
               /\ skipped' = [skipped EXCEPT ![c] =
                    @ \cup lastSeq[c] + Len(Since(lastSeq[c])) + 1 .. log]
               /\ UNCHANGED faults
            \/ /\ conn'[c].todo = conn[c].todo
               /\ skipped' = [skipped EXCEPT ![c] = @ \cup lastSeq[c] + 1 .. log]
               /\ Fault("query")
<1>1. conn[c] \in Connection
  BY DEF TypeOK
<1>2. CASE /\ conn' = [conn EXCEPT ![c] = [conn[c] EXCEPT !.stage = "open", !.todo = Since(lastSeq[c])]]
           /\ skipped' = [skipped EXCEPT ![c] =
                @ \cup lastSeq[c] + Len(Since(lastSeq[c])) + 1 .. log]
           /\ UNCHANGED faults
  <2> DEFINE r == [conn[c] EXCEPT !.stage = "open", !.todo = Since(lastSeq[c])]
  <2>1. Since(lastSeq[c]) \in Seq(Seqs)
    BY SinceIs
  <2>2. /\ r \in Connection /\ r.stage = "open" /\ r.pos = conn[c].pos
        /\ r.last = conn[c].last /\ r.todo = Since(lastSeq[c]) /\ r.wire = conn[c].wire
    BY <1>1, <2>1 DEF Connection
  <2>3. conn' = [conn EXCEPT ![c] = r]
    BY <1>2
  <2> HIDE DEF r
  <2> QED BY <1>2, <2>2, <2>3, Reconnected
<1>3. CASE /\ Fault("query")
           /\ conn' = [conn EXCEPT ![c] = [conn[c] EXCEPT !.stage = "open"]]
           /\ skipped' = [skipped EXCEPT ![c] = @ \cup lastSeq[c] + 1 .. log]
  <2> DEFINE r == [conn[c] EXCEPT !.stage = "open"]
  <2>1. /\ r \in Connection /\ r.stage = "open" /\ r.pos = conn[c].pos
        /\ r.last = conn[c].last /\ r.todo = conn[c].todo /\ r.wire = conn[c].wire
    BY <1>1 DEF Connection
  <2>2. conn' = [conn EXCEPT ![c] = r]
    BY <1>3
  <2> HIDE DEF r
  <2> QED BY <1>3, <2>1, <2>2, Reconnected
<1> QED BY <1>2, <1>3 DEF LoadRows

LEMMA ReplayDoes ==
  ASSUME TypeOK, NEW c \in Clients, Replay(c)
  PROVE  /\ conn' \in [Clients -> Connection] /\ \A d \in Clients \ {c} : conn'[d] = conn[d]
         /\ conn'[c].stage = "open" /\ conn'[c].pos = conn[c].pos
         /\ conn[c].todo # <<>> /\ conn'[c].todo = Tail(conn[c].todo)
         /\ conn'[c].last = Head(conn[c].todo)
         /\ conn'[c].wire = Append(conn[c].wire, Head(conn[c].todo))
         /\ Len(conn[c].wire) < WireSize
<1> DEFINE env == Head(conn[c].todo)
           r == [conn[c] EXCEPT !.todo = Tail(@), !.last = env, !.wire = Append(@, env)]
<1>1. conn[c] \in Connection /\ conn[c].stage = "open" /\ conn[c].todo # <<>>
  BY DEF TypeOK, Replay
<1>2. Tail(conn[c].todo) \in Seq(Seqs) /\ env \in Seqs
  BY <1>1, ElementsOfTail DEF Connection
<1>3. Append(conn[c].wire, env) \in Seq(Seqs)
  BY <1>1, <1>2, AppendProperties DEF Connection
<1>4. /\ r \in Connection /\ r.stage = "open" /\ r.pos = conn[c].pos
      /\ r.last = env /\ r.todo = Tail(conn[c].todo) /\ r.wire = Append(conn[c].wire, env)
  BY <1>1, <1>2, <1>3 DEF Connection
<1>5. conn' = [conn EXCEPT ![c] = r] /\ Len(conn[c].wire) < WireSize
  BY DEF Replay
<1> HIDE DEF r
<1> QED BY <1>1, <1>4, <1>5, Reconnected

Written(k, p, l, w) == [k EXCEPT !.pos = p, !.last = l, !.wire = w]

LEMMA WrittenSocket ==
  ASSUME NEW k \in Connection, NEW p \in Nat, NEW l \in Seqs \cup {0}, NEW w \in Seq(Seqs)
  PROVE  LET r == Written(k, p, l, w)
         IN  /\ r \in Connection /\ r.stage = k.stage /\ r.pos = p
             /\ r.last = l /\ r.todo = k.todo /\ r.wire = w
BY DEF Connection, Written

LEMMA ForwardDoes ==
  ASSUME TypeOK, NEW c \in Clients, Forward(c)
  PROVE  LET env == sent[conn[c].pos + 1]
         IN  /\ conn' \in [Clients -> Connection] /\ \A d \in Clients \ {c} : conn'[d] = conn[d]
             /\ conn[c].stage = "open" /\ conn[c].todo = <<>>
             /\ conn'[c].stage = "open" /\ conn'[c].todo = <<>>
             /\ conn[c].pos + 1 \in 1..Len(sent) /\ conn'[c].pos = conn[c].pos + 1
             /\ env \in Seqs
             /\ \/ /\ 0 < env /\ env <= conn[c].last
                   /\ conn'[c].last = conn[c].last /\ conn'[c].wire = conn[c].wire
                \/ /\ env <= 0 \/ conn[c].last < env
                   /\ Len(conn[c].wire) < WireSize
                   /\ conn'[c].last = env /\ conn'[c].wire = Append(conn[c].wire, env)
<1> DEFINE env == sent[conn[c].pos + 1]
<1>1. /\ conn[c] \in Connection /\ conn[c].stage = "open" /\ conn[c].todo = <<>>
      /\ conn[c].pos < Len(sent) /\ conn[c].pos \in Nat /\ Len(sent) \in Nat
  BY LenProperties DEF TypeOK, Forward, Live, Connection
<1>2. conn[c].pos + 1 \in 1..Len(sent)
  BY <1>1
<1>3. env \in Seqs
  BY <1>2, ElementOfSeq DEF TypeOK
<1>4. CASE /\ 0 < env /\ env <= conn[c].last
           /\ conn' = [conn EXCEPT ![c] = [conn[c] EXCEPT !.pos = @ + 1]]
  <2> DEFINE r == [conn[c] EXCEPT !.pos = conn[c].pos + 1]
  <2>1. /\ r \in Connection /\ r.stage = "open" /\ r.pos = conn[c].pos + 1
        /\ r.last = conn[c].last /\ r.todo = <<>> /\ r.wire = conn[c].wire
    BY <1>1 DEF Connection
  <2>2. conn' = [conn EXCEPT ![c] = r]
    BY <1>4
  <2> HIDE DEF r
  <2> QED BY <1>1, <1>2, <1>3, <1>4, <2>1, <2>2, Reconnected
<1>5. CASE /\ env <= 0 \/ conn[c].last < env
           /\ Len(conn[c].wire) < WireSize
           /\ conn' = [conn EXCEPT ![c] =
                [conn[c] EXCEPT !.pos = @ + 1, !.last = env, !.wire = Append(@, env)]]
  <2>1. Append(conn[c].wire, env) \in Seq(Seqs)
    BY <1>1, <1>3, AppendProperties DEF Connection
  <2>2. PICK p \in Nat : p = conn[c].pos + 1
    BY <1>1
  <2>3. PICK w \in Seq(Seqs) : w = Append(conn[c].wire, env)
    BY <2>1
  <2>4. PICK r : r = Written(conn[c], p, env, w)
    OBVIOUS
  <2>5. conn' = [conn EXCEPT ![c] = r]
    BY <1>5, <2>2, <2>3, <2>4 DEF Written
  <2>6. /\ r \in Connection /\ r.stage = conn[c].stage /\ r.pos = p
        /\ r.last = env /\ r.todo = conn[c].todo /\ r.wire = w
    BY <1>1, <1>3, <2>4, WrittenSocket
  <2> QED BY <1>1, <1>2, <1>3, <1>5, <2>2, <2>3, <2>5, <2>6, Reconnected
<1> QED BY <1>4, <1>5 DEF Forward

LEMMA LagDoes ==
  ASSUME TypeOK, NEW c \in Clients, Lag(c)
  PROVE  /\ conn' \in [Clients -> Connection] /\ \A d \in Clients \ {c} : conn'[d] = conn[d]
         /\ conn[c].stage = "open" /\ conn[c].todo = <<>>
         /\ conn'[c].stage = "open" /\ conn'[c].todo = <<>>
         /\ conn'[c].last = conn[c].last /\ conn'[c].wire = conn[c].wire
         /\ conn'[c].pos = Len(sent) - Capacity
         /\ conn[c].pos <= conn'[c].pos /\ conn'[c].pos <= Len(sent)
<1> DEFINE r == [conn[c] EXCEPT !.pos = Len(sent) - Capacity]
<1>1. /\ conn[c] \in Connection /\ conn[c].stage = "open" /\ conn[c].todo = <<>>
      /\ Len(sent) - conn[c].pos > Capacity /\ conn[c].pos \in Nat /\ Len(sent) \in Nat
      /\ Capacity \in Nat
  BY EventStreamAssumption, LenProperties DEF TypeOK, Lag, Live, Lags, Connection
<1>2. /\ Len(sent) - Capacity \in Nat /\ conn[c].pos <= Len(sent) - Capacity
      /\ Len(sent) - Capacity <= Len(sent)
  BY <1>1
<1>3. /\ r \in Connection /\ r.stage = "open" /\ r.pos = Len(sent) - Capacity
      /\ r.last = conn[c].last /\ r.todo = <<>> /\ r.wire = conn[c].wire
  BY <1>1, <1>2 DEF Connection
<1>4. conn' = [conn EXCEPT ![c] = r]
  BY DEF Lag
<1> HIDE DEF r
<1> QED BY <1>1, <1>2, <1>3, <1>4, Reconnected

LEMMA ReceiveDoes ==
  ASSUME TypeOK, NEW c \in Clients, Receive(c)
  PROVE  LET env == Head(conn[c].wire)
         IN  /\ conn' \in [Clients -> Connection] /\ \A d \in Clients \ {c} : conn'[d] = conn[d]
             /\ conn[c].wire # <<>> /\ conn'[c].wire = Tail(conn[c].wire)
             /\ conn'[c].stage = conn[c].stage /\ conn'[c].pos = conn[c].pos
             /\ conn'[c].last = conn[c].last /\ conn'[c].todo = conn[c].todo
             /\ env \in Seqs
             /\ \/ /\ env > 0
                   /\ lastSeq' = [lastSeq EXCEPT ![c] = env]
                   /\ got' = [got EXCEPT ![c] = @ \cup {env}]
                \/ env <= 0 /\ UNCHANGED <<lastSeq, got>>
<1> DEFINE env == Head(conn[c].wire)
           r == [conn[c] EXCEPT !.wire = Tail(conn[c].wire)]
<1>1. conn[c] \in Connection /\ conn[c].wire # <<>>
  BY DEF TypeOK, Receive
<1>2. Tail(conn[c].wire) \in Seq(Seqs) /\ env \in Seqs
  BY <1>1, ElementsOfTail DEF Connection
<1>3. /\ r \in Connection /\ r.stage = conn[c].stage /\ r.pos = conn[c].pos
      /\ r.last = conn[c].last /\ r.todo = conn[c].todo /\ r.wire = Tail(conn[c].wire)
  BY <1>1, <1>2 DEF Connection
<1>4. conn' = [conn EXCEPT ![c] = r]
  BY DEF Receive
<1>5. env \in Int
  BY <1>2, EventStreamAssumption DEF Seqs, Unlogged
<1>6. \/ /\ env > 0
         /\ lastSeq' = [lastSeq EXCEPT ![c] = env]
         /\ got' = [got EXCEPT ![c] = @ \cup {env}]
      \/ env <= 0 /\ UNCHANGED <<lastSeq, got>>
  BY <1>5 DEF Receive
<1> HIDE DEF r
<1> QED BY <1>1, <1>2, <1>3, <1>4, <1>6, Reconnected

LEMMA BlipDoes ==
  ASSUME TypeOK, NEW c \in Clients, Blip(c)
  PROVE  /\ conn' \in [Clients -> Connection] /\ \A d \in Clients \ {c} : conn'[d] = conn[d]
         /\ conn'[c] = Closed
<1>1. conn' = [conn EXCEPT ![c] = Closed]
  BY DEF Blip
<1> QED BY <1>1, ClosedIs, Reconnected

LEMMA CrashDoes ==
  ASSUME TypeOK, Crash
  PROVE  conn' \in [Clients -> Connection] /\ \A c \in Clients : conn'[c] = Closed
<1>1. conn' = [c \in Clients |-> Closed]
  BY DEF Crash
<1> QED BY <1>1, ClosedIs
-----------------------------------------------------------------------------
(***************************************************************************)
(* What a step does to the log, the ring and the channel                   *)
(***************************************************************************)

LEMMA FaultKind ==
  ASSUME NEW kind \in Kinds, Fault(kind), faults \subseteq Kinds
  PROVE  faults' \subseteq Kinds
BY DEF Fault

LEMMA LogIsNat == TypeOK => log \in Nat /\ MaxEvents \in Nat /\ log <= MaxEvents
BY EventStreamAssumption DEF TypeOK

LEMMA SeqsAreInts == /\ Seqs \subseteq Int /\ Unlogged \in Seqs /\ Unlogged = -1
                     /\ \A s \in Seqs : s > 0 \/ s = Unlogged
BY EventStreamAssumption DEF Seqs, Unlogged

LEMMA AppendDoes ==
  ASSUME TypeOK, NEW by \in Publishers \cup Clients, AppendEvent(by)
  PROVE  \E e \in [by : Publishers \cup Clients, seq : Seqs, step : {"ring"}] :
           /\ publishing' = publishing \cup {e} /\ up
           /\ faults' \subseteq Kinds
           /\ \/ e.seq = log + 1 /\ log' = log + 1 /\ log + 1 <= MaxEvents
              \/ e.seq = Unlogged /\ log' = log
<1>1. CASE log < MaxEvents /\ log' = log + 1 /\ UNCHANGED faults
           /\ publishing' = publishing \cup {[by |-> by, seq |-> log + 1, step |-> "ring"]}
  <2> DEFINE e == [by |-> by, seq |-> log + 1, step |-> "ring"]
  <2>1. log + 1 \in Seqs /\ log + 1 <= MaxEvents
    BY <1>1, LogIsNat DEF Seqs
  <2>2. e \in [by : Publishers \cup Clients, seq : Seqs, step : {"ring"}] /\ e.seq = log + 1
    BY <2>1
  <2> QED BY <1>1, <2>1, <2>2 DEF AppendEvent, TypeOK
<1>2. CASE Fault("append") /\ UNCHANGED log
           /\ publishing' = publishing \cup {[by |-> by, seq |-> Unlogged, step |-> "ring"]}
  <2> DEFINE e == [by |-> by, seq |-> Unlogged, step |-> "ring"]
  <2>1. e \in [by : Publishers \cup Clients, seq : Seqs, step : {"ring"}] /\ e.seq = Unlogged
    BY SeqsAreInts
  <2>2. faults' \subseteq Kinds
    BY <1>2, FaultKind DEF TypeOK, Kinds
  <2> QED BY <1>2, <2>1, <2>2 DEF AppendEvent
<1> QED BY <1>1, <1>2 DEF AppendEvent

LEMMA PushDoes ==
  ASSUME TypeOK, NEW e \in publishing, PushRing(e)
  PROVE  LET sending == [e EXCEPT !.step = "send"]
         IN  /\ e.step = "ring" /\ e.seq \in Seqs
             /\ sending \in [by : Publishers \cup Clients, seq : Seqs, step : {"send"}]
             /\ sending.seq = e.seq /\ sending.step = "send" /\ sending.by = e.by
             /\ publishing' = (publishing \ {e}) \cup {sending}
             /\ ring' = Newest(Append(ring, e.seq), RingSize)
             /\ late' = late \cup {p.seq : p \in {q \in publishing : 0 < q.seq /\ q.seq < e.seq}}
<1>1. e \in [by : Publishers \cup Clients, seq : Seqs, step : {"ring", "send"}]
  BY DEF TypeOK
<1> QED BY <1>1 DEF PushRing

\* The new ring: one event more at the end, and the oldest one gone if it was full.
LEMMA PushedRing ==
  ASSUME TypeOK, NEW e \in Seqs
  PROVE  LET new == Newest(Append(ring, e), RingSize)
             off == IF Len(ring) = RingSize THEN 1 ELSE 0
         IN  /\ new \in Seq(Seqs) /\ Len(ring) \in Nat /\ Len(ring) <= RingSize
             /\ RingSize \in Nat \ {0}
             /\ Len(new) = Len(ring) + 1 - off /\ Len(new) <= RingSize
             /\ new[Len(new)] = e
             /\ \A i \in 1..Len(new) - 1 : new[i] = ring[i + off] /\ i + off \in 1..Len(ring)
<1> DEFINE longer == Append(ring, e)
           new == Newest(longer, RingSize)
           off == IF Len(ring) = RingSize THEN 1 ELSE 0
<1>1. /\ longer \in Seq(Seqs) /\ Len(longer) = Len(ring) + 1 /\ Len(ring) \in Nat
      /\ \A i \in 1..Len(ring) : longer[i] = ring[i]
      /\ longer[Len(ring) + 1] = e
  BY AppendProperties, LenProperties DEF TypeOK
<1>2. RingSize \in Nat \ {0} /\ Len(ring) <= RingSize
  BY EventStreamAssumption DEF TypeOK
<1> HIDE DEF longer
<1>3. /\ new \in Seq(Seqs)
      /\ Len(new) = IF Len(longer) > RingSize THEN RingSize ELSE Len(longer)
      /\ \A i \in 1..Len(new) : new[i] = longer[Len(longer) - Len(new) + i]
  BY <1>1, <1>2, NewestIs
<1> HIDE DEF new
<1>4. off \in 0..1 /\ Len(new) = Len(ring) + 1 - off /\ Len(new) <= RingSize
      /\ Len(longer) - Len(new) = off /\ Len(new) \in Nat \ {0}
  <2>1. CASE Len(ring) = RingSize
    BY <1>1, <1>2, <1>3, <2>1
  <2>2. CASE Len(ring) < RingSize
    <3>1. Len(ring) # RingSize /\ ~(Len(longer) > RingSize)
      BY <1>1, <1>2, <2>2
    <3>2. off = 0 /\ Len(new) = Len(ring) + 1
      BY <1>1, <1>3, <3>1
    <3> HIDE DEF off
    <3> QED BY <1>1, <1>2, <2>2, <3>2
  <2> QED BY <1>1, <1>2, <2>1, <2>2
<1>5. new[Len(new)] = e
  BY <1>1, <1>3, <1>4
<1>6. \A i \in 1..Len(new) - 1 : new[i] = ring[i + off] /\ i + off \in 1..Len(ring)
  <2> TAKE i \in 1..Len(new) - 1
  <2>1. i + off \in 1..Len(ring) /\ i \in 1..Len(new)
    BY <1>1, <1>4
  <2>2. new[i] = longer[off + i]
    BY <1>3, <1>4, <2>1
  <2> QED BY <1>1, <1>4, <2>1, <2>2
<1> QED BY <1>1, <1>2, <1>3, <1>4, <1>5, <1>6 DEF new, longer

LEMMA SendDoes ==
  ASSUME TypeOK, NEW e \in publishing, Send(e)
  PROVE  /\ e.step = "send" /\ e.seq \in Seqs
         /\ publishing' = publishing \ {e}
         /\ sent' = Append(sent, e.seq) /\ sent' \in Seq(Seqs)
         /\ Len(sent) \in Nat /\ Len(sent') = Len(sent) + 1
         /\ \A i \in 1..Len(sent) : sent'[i] = sent[i]
         /\ sent'[Len(sent) + 1] = e.seq
<1>1. e.step = "send" /\ sent' = Append(sent, e.seq) /\ publishing' = publishing \ {e}
      /\ e.seq \in Seqs
  BY DEF TypeOK, Send
<1> QED BY <1>1, AppendProperties, LenProperties DEF TypeOK

\* The ring of a new process: the newest rows.
LEMMA RestartDoes ==
  ASSUME TypeOK, Restart
  PROVE  /\ ring' \in Seq(Seqs) /\ up' = TRUE
         /\ Len(ring') = IF log > RingSize THEN RingSize ELSE log
         /\ \A i \in 1..Len(ring') : ring'[i] = log - Len(ring') + i
<1> DEFINE rows == [i \in 1..log |-> i]
           same == [i \in 1..log |-> 0 + i]
<1>1. log \in Nat /\ 0 + log <= MaxEvents /\ RingSize \in Nat \ {0}
  BY LogIsNat, EventStreamAssumption
<1>2. same \in Seq(Seqs) /\ Len(same) = log
  BY <1>1, RowsAre
<1>3. rows = same
  BY <1>1
<1>4. rows \in Seq(Seqs) /\ Len(rows) = log /\ \A i \in 1..log : rows[i] = i
  BY <1>2, <1>3
<1>5. ring' = Newest(rows, RingSize) /\ up' = TRUE
  BY DEF Restart
<1> HIDE DEF rows
<1>6. /\ ring' \in Seq(Seqs) /\ Len(ring') = IF log > RingSize THEN RingSize ELSE log
      /\ \A i \in 1..Len(ring') : ring'[i] = rows[log - Len(ring') + i]
  BY <1>1, <1>4, <1>5, NewestIs
<1>7. \A i \in 1..Len(ring') : log - Len(ring') + i \in 1..log
  BY <1>1, <1>6
<1> QED BY <1>4, <1>5, <1>6, <1>7
-----------------------------------------------------------------------------
(***************************************************************************)
(* The shape of the state                                                  *)
(***************************************************************************)

LEMMA InitShape == Init => Shape
<1> SUFFICES ASSUME Init PROVE Shape
  OBVIOUS
<1>1. TypeOK
  <2>1. Len(sent) = 0 /\ Len(ring) = 0 /\ RingSize \in Nat /\ WireSize \in Nat /\ log = 0
        /\ MaxEvents \in Nat
    BY EmptySeq, EventStreamAssumption DEF Init
  <2>2. conn \in [Clients -> Connection]
    BY ClosedIs DEF Init
  <2>3. \A c \in Clients : conn[c] = Closed /\ Len(conn[c].wire) = 0
    BY ClosedIs, EmptySeq DEF Init
  <2>4. ring \in Seq(Seqs) /\ sent \in Seq(Seqs)
    BY EmptyInSeqs DEF Init
  <2>5. \A c \in Clients : conn[c].pos <= Len(sent) /\ Len(conn[c].wire) <= WireSize
    BY <2>1, <2>3, ClosedIs
  <2>6. 1..log = {} /\ 0..log = {0}
    BY <2>1
  <2> QED BY <2>1, <2>2, <2>4, <2>5, <2>6 DEF Init, TypeOK
<1>2. Quiet
  BY ClosedIs DEF Init, Quiet
<1>3. Numbered
  <2>1. Len(sent) = 0 /\ Len(ring) = 0 /\ log = 0 /\ publishing = {}
    BY EmptySeq DEF Init
  <2>2. \A c \in Clients : conn[c] = Closed
    BY DEF Init
  <2>3. \A c \in Clients : /\ conn[c].last = 0 /\ Len(conn[c].todo) = 0
                           /\ Len(conn[c].wire) = 0
    BY <2>2, ClosedIs, EmptySeq
  <2> QED BY <2>1, <2>3 DEF Numbered
<1> QED BY <1>1, <1>2, <1>3 DEF Shape

\* A socket in good shape.
SocketFits(k) ==
  /\ k.pos <= Len(sent) /\ Len(k.wire) <= WireSize /\ k.last <= log
  /\ k.stage # "open" => k.todo = <<>> /\ k.wire = <<>> /\ k.last = 0
  /\ ~up => k.stage = "closed"
  /\ \A i \in 1..Len(k.todo) : k.todo[i] <= log
  /\ \A i \in 1..Len(k.wire) : k.wire[i] <= log

\* A step that changes one socket and nothing of the server.
LEMMA SocketShape ==
  ASSUME Shape, NEW c \in Clients,
         UNCHANGED <<up, log, publishing, ring, sent, late>>,
         conn' \in [Clients -> Connection], \A d \in Clients \ {c} : conn'[d] = conn[d],
         SocketFits(conn'[c]),
         lastSeq' \in [Clients -> 0..log], base' \in [Clients -> 0..log],
         got' \in [Clients -> SUBSET (1..log)], skipped' \in [Clients -> SUBSET Seqs],
         faults' \subseteq Kinds
  PROVE  Shape'
<1>1. TypeOK'
  BY DEF Shape, TypeOK, SocketFits
<1>2. Quiet'
  BY DEF Shape, Quiet, SocketFits
<1>3. Numbered'
  BY DEF Shape, Numbered, SocketFits
<1> QED BY <1>1, <1>2, <1>3 DEF Shape

LEMMA Fits ==
  ASSUME Shape, NEW c \in Clients
  PROVE  SocketFits(conn[c]) /\ conn[c] \in Connection
BY DEF Shape, TypeOK, Quiet, Numbered, SocketFits

\* The sets that the history of a client is in.
LEMMA Histories ==
  ASSUME Shape
  PROVE  /\ lastSeq \in [Clients -> 0..log] /\ base \in [Clients -> 0..log]
         /\ got \in [Clients -> SUBSET (1..log)] /\ skipped \in [Clients -> SUBSET Seqs]
         /\ faults \subseteq Kinds /\ log \in Nat /\ 1..log \subseteq Seqs
<1>1. log \in Nat /\ MaxEvents \in Nat /\ log <= MaxEvents
  BY LogIsNat DEF Shape
<1>2. 1..log \subseteq Seqs
  BY <1>1 DEF Seqs
<1> QED BY <1>1, <1>2 DEF Shape, TypeOK

LEMMA SubscribeShape ==
  ASSUME Shape, NEW c \in Clients, Subscribe(c)
  PROVE  Shape'
<1>1. base' \in [Clients -> 0..log]
  BY Histories DEF Subscribe
<1>2. SocketFits(conn'[c])
  <2>1. /\ conn'[c].stage = "subscribed" /\ conn'[c].pos = Len(sent) /\ conn'[c].last = 0
        /\ conn'[c].todo = <<>> /\ conn'[c].wire = <<>> /\ Len(<<>>) = 0
    BY SubscribeDoes, EmptyInSeqs DEF Shape
  <2>2. Len(sent) \in Nat /\ log \in Nat /\ WireSize \in Nat /\ up
    BY LenProperties, EventStreamAssumption, LogIsNat DEF Shape, TypeOK, Subscribe
  <2> QED BY <2>1, <2>2 DEF SocketFits
<1> QED BY <1>1, <1>2, SubscribeDoes, Histories, SocketShape DEF Shape, Subscribe

LEMMA LoadRingShape ==
  ASSUME Shape, NEW c \in Clients, LoadRing(c)
  PROVE  Shape'
<1>1. skipped' \in [Clients -> SUBSET Seqs]
  <2>1. base[c] \in Nat /\ log \in Nat /\ skipped[c] \subseteq Seqs
    BY Histories
  <2>2. base[c] + 1 .. log \subseteq Seqs
    BY <2>1, Histories
  <2> QED BY <2>1, <2>2, Histories DEF LoadRing
<1>2. SocketFits(conn'[c])
  <2>1. /\ conn'[c].stage = "open" /\ conn'[c].pos = conn[c].pos /\ conn'[c].last = conn[c].last
        /\ conn'[c].todo = ring /\ conn'[c].wire = conn[c].wire
    BY LoadRingDoes DEF Shape
  <2>2. up
    BY DEF Shape, Quiet, LoadRing
  <2> QED BY <2>1, <2>2, Fits DEF SocketFits, Shape, Numbered
<1> QED BY <1>1, <1>2, LoadRingDoes, Histories, SocketShape DEF Shape, LoadRing

LEMMA LoadRowsShape ==
  ASSUME Shape, NEW c \in Clients, LoadRows(c)
  PROVE  Shape'
<1> DEFINE rows == Since(lastSeq[c])
<1>1. /\ rows \in Seq(Seqs) /\ Len(rows) \in Nat /\ lastSeq[c] + Len(rows) <= log
      /\ \A i \in 1..Len(rows) : rows[i] = lastSeq[c] + i
  BY SinceIs DEF Shape
<1>2. lastSeq[c] \in Nat /\ log \in Nat /\ skipped[c] \subseteq Seqs
  BY Histories
<1> HIDE DEF rows
<1>3. /\ lastSeq[c] + 1 .. log \subseteq Seqs
      /\ lastSeq[c] + Len(rows) + 1 .. log \subseteq Seqs
  BY <1>1, <1>2, Histories
<1>4. skipped' \in [Clients -> SUBSET Seqs]
  <2>1. \E x \in SUBSET Seqs : skipped' = [skipped EXCEPT ![c] = @ \cup x]
    BY <1>3, LoadRowsDoes DEF Shape, rows
  <2> QED BY <1>2, <2>1, Histories
<1>5. faults' \subseteq Kinds
  BY FaultKind, LoadRowsDoes DEF Shape, TypeOK, Kinds
<1>6. SocketFits(conn'[c])
  <2>1. /\ conn'[c].stage = "open" /\ conn'[c].pos = conn[c].pos /\ conn'[c].last = conn[c].last
        /\ conn'[c].wire = conn[c].wire
        /\ conn'[c].todo = rows \/ conn'[c].todo = conn[c].todo
    BY LoadRowsDoes DEF Shape, rows
  <2>2. up
    BY DEF Shape, Quiet, LoadRows
  <2>3. \A i \in 1..Len(rows) : rows[i] <= log
    BY <1>1, <1>2
  <2> QED BY <2>1, <2>2, <2>3, Fits DEF SocketFits
<1> QED BY <1>4, <1>5, <1>6, LoadRowsDoes, Histories, SocketShape DEF Shape, LoadRows

\* A wire with one message more.
LEMMA LongerWire ==
  ASSUME TypeOK, NEW c \in Clients, NEW e \in Seqs, e <= log, Len(conn[c].wire) < WireSize,
         \A i \in 1..Len(conn[c].wire) : conn[c].wire[i] <= log
  PROVE  LET wire == Append(conn[c].wire, e)
         IN  Len(wire) <= WireSize /\ \A i \in 1..Len(wire) : wire[i] <= log
<1> DEFINE wire == Append(conn[c].wire, e)
<1>1. conn[c].wire \in Seq(Seqs) /\ WireSize \in Nat
  BY EventStreamAssumption DEF TypeOK, Connection
<1>2. /\ Len(wire) = Len(conn[c].wire) + 1 /\ Len(conn[c].wire) \in Nat
      /\ \A i \in 1..Len(conn[c].wire) : wire[i] = conn[c].wire[i]
      /\ wire[Len(conn[c].wire) + 1] = e
  BY <1>1, AppendProperties, LenProperties
<1> HIDE DEF wire
<1> QED BY <1>1, <1>2

LEMMA ReplayShape ==
  ASSUME Shape, NEW c \in Clients, Replay(c)
  PROVE  Shape'
<1> DEFINE env == Head(conn[c].todo)
<1>1. /\ conn'[c].stage = "open" /\ conn'[c].pos = conn[c].pos
      /\ conn[c].todo # <<>> /\ conn'[c].todo = Tail(conn[c].todo)
      /\ conn'[c].last = env /\ conn'[c].wire = Append(conn[c].wire, env)
      /\ Len(conn[c].wire) < WireSize
  BY ReplayDoes DEF Shape
<1>2. conn[c].todo \in Seq(Seqs)
  BY Fits DEF Connection
<1>3. /\ Len(Tail(conn[c].todo)) = Len(conn[c].todo) - 1
      /\ Len(conn[c].todo) \in Nat \ {0} /\ env = conn[c].todo[1] /\ env \in Seqs
      /\ \A i \in 1..Len(Tail(conn[c].todo)) : Tail(conn[c].todo)[i] = conn[c].todo[i + 1]
  BY <1>1, <1>2, ElementsOfTail
<1> HIDE DEF env
<1>4. env <= log /\ \A i \in 1..Len(conn'[c].todo) : conn'[c].todo[i] <= log
  BY <1>1, <1>3, Fits DEF SocketFits
<1>5. Len(conn'[c].wire) <= WireSize /\ \A i \in 1..Len(conn'[c].wire) : conn'[c].wire[i] <= log
  BY <1>1, <1>3, <1>4, Fits, LongerWire DEF Shape, SocketFits
<1>6. up
  BY DEF Shape, Quiet, Replay
<1>7. SocketFits(conn'[c])
  BY <1>1, <1>4, <1>5, <1>6, Fits DEF SocketFits
<1> QED BY <1>7, ReplayDoes, Histories, SocketShape DEF Shape, Replay

LEMMA ForwardShape ==
  ASSUME Shape, NEW c \in Clients, Forward(c)
  PROVE  Shape'
<1> DEFINE env == sent[conn[c].pos + 1]
<1>1. /\ conn[c].stage = "open" /\ conn[c].todo = <<>>
      /\ conn'[c].stage = "open" /\ conn'[c].todo = <<>>
      /\ conn[c].pos + 1 \in 1..Len(sent) /\ conn'[c].pos = conn[c].pos + 1
      /\ env \in Seqs
      /\ \/ conn'[c].last = conn[c].last /\ conn'[c].wire = conn[c].wire
         \/ /\ Len(conn[c].wire) < WireSize
            /\ conn'[c].last = env /\ conn'[c].wire = Append(conn[c].wire, env)
  BY ForwardDoes DEF Shape
<1>2. env <= log /\ conn'[c].pos <= Len(sent)
  <2>1. Len(sent) \in Nat
    BY LenProperties DEF Shape, TypeOK
  <2> QED BY <1>1, <2>1 DEF Shape, Numbered
<1> HIDE DEF env
<1>3. Len(conn'[c].wire) <= WireSize /\ \A i \in 1..Len(conn'[c].wire) : conn'[c].wire[i] <= log
  BY <1>1, <1>2, Fits, LongerWire DEF Shape, SocketFits
<1>4. up
  BY <1>1 DEF Shape, Quiet
<1>5. conn'[c].last <= log /\ \A i \in 1..Len(conn'[c].todo) : conn'[c].todo[i] <= log
  BY <1>1, <1>2, Fits DEF SocketFits
<1>6. SocketFits(conn'[c])
  BY <1>1, <1>2, <1>3, <1>4, <1>5 DEF SocketFits
<1> QED BY <1>6, ForwardDoes, Histories, SocketShape DEF Shape, Forward

LEMMA ReceiveShape ==
  ASSUME Shape, NEW c \in Clients, Receive(c)
  PROVE  Shape'
<1> DEFINE env == Head(conn[c].wire)
<1>1. /\ conn[c].wire # <<>> /\ conn'[c].wire = Tail(conn[c].wire)
      /\ conn'[c].stage = conn[c].stage /\ conn'[c].pos = conn[c].pos
      /\ conn'[c].last = conn[c].last /\ conn'[c].todo = conn[c].todo
      /\ env \in Seqs
      /\ \/ /\ env > 0
            /\ lastSeq' = [lastSeq EXCEPT ![c] = env]
            /\ got' = [got EXCEPT ![c] = @ \cup {env}]
         \/ env <= 0 /\ UNCHANGED <<lastSeq, got>>
  BY ReceiveDoes DEF Shape
<1>2. conn[c].wire \in Seq(Seqs) /\ SocketFits(conn[c])
  BY Fits DEF Connection
<1>3. /\ Len(Tail(conn[c].wire)) = Len(conn[c].wire) - 1
      /\ Len(conn[c].wire) \in Nat \ {0} /\ env = conn[c].wire[1]
      /\ \A i \in 1..Len(Tail(conn[c].wire)) : Tail(conn[c].wire)[i] = conn[c].wire[i + 1]
  BY <1>1, <1>2, ElementsOfTail
<1> HIDE DEF env
<1>4. env <= log /\ \A i \in 1..Len(conn'[c].wire) : conn'[c].wire[i] <= log
  BY <1>1, <1>2, <1>3 DEF SocketFits
<1>5. lastSeq' \in [Clients -> 0..log] /\ got' \in [Clients -> SUBSET (1..log)]
  <2>1. env \in Int /\ log \in Nat
    BY <1>1, SeqsAreInts, Histories
  <2>2. CASE env > 0
    <3>1. env \in 1..log /\ env \in 0..log
      BY <1>4, <2>1, <2>2
    <3>2. /\ lastSeq' = [lastSeq EXCEPT ![c] = env]
          /\ got' = [got EXCEPT ![c] = got[c] \cup {env}]
      BY <1>1, <2>1, <2>2
    <3>3. lastSeq' \in [Clients -> 0..log]
      BY <3>1, <3>2, Histories
    <3>4. got[c] \cup {env} \in SUBSET (1..log)
      BY <3>1, Histories
    <3>5. got' \in [Clients -> SUBSET (1..log)]
      BY <3>2, <3>4, Histories
    <3> QED BY <3>3, <3>5
  <2>3. CASE env <= 0
    BY <1>1, <2>1, <2>3, Histories
  <2> QED BY <2>1, <2>2, <2>3
<1>6. Len(conn'[c].wire) <= WireSize
  <2>1. WireSize \in Nat /\ Len(conn[c].wire) <= WireSize
    BY <1>2, EventStreamAssumption DEF SocketFits
  <2> QED BY <1>1, <1>3, <2>1
<1>7. conn[c].stage = "open"
  BY <1>1, <1>2 DEF SocketFits
<1>8. SocketFits(conn'[c])
  BY <1>1, <1>2, <1>4, <1>6, <1>7 DEF SocketFits
<1> QED BY <1>5, <1>8, ReceiveDoes, Histories, SocketShape DEF Shape, Receive

LEMMA BlipShape ==
  ASSUME Shape, NEW c \in Clients, Blip(c)
  PROVE  Shape'
<1>1. conn'[c] = Closed
  BY BlipDoes DEF Shape
<1>2. faults' \subseteq Kinds
  BY FaultKind, Histories DEF Blip, Kinds
<1>3. Len(sent) \in Nat /\ WireSize \in Nat /\ log \in Nat
  BY LenProperties, EventStreamAssumption, Histories DEF Shape, TypeOK
<1>4. Len(Closed.wire) = 0 /\ Len(Closed.todo) = 0
  BY ClosedIs, EmptyInSeqs
<1>5. SocketFits(conn'[c])
  BY <1>1, <1>3, <1>4, ClosedIs DEF SocketFits
<1> QED BY <1>2, <1>5, BlipDoes, Histories, SocketShape DEF Shape, Blip

\* A step of the publishers leaves the sockets and what the clients have.
LEMMA ServerShape ==
  ASSUME Shape, UNCHANGED <<up, conn, lastSeq, base, got, skipped>>,
         log' \in 0..MaxEvents, log <= log',
         publishing' \subseteq
           [by : Publishers \cup Clients, seq : Seqs, step : {"ring", "send"}],
         \A p \in publishing' : p.seq <= log', ~up => publishing' = {},
         ring' \in Seq(Seqs), Len(ring') <= RingSize,
         \A i \in 1..Len(ring') : ring'[i] <= log',
         sent' \in Seq(Seqs), Len(sent) <= Len(sent'),
         \A i \in 1..Len(sent') : sent'[i] <= log',
         late' \subseteq 1..log', faults' \subseteq Kinds
  PROVE  Shape'
<1>1. log \in Nat /\ log' \in Nat /\ MaxEvents \in Nat
  BY Histories, LogIsNat DEF Shape
<1>2. 0..log \subseteq 0..log' /\ 1..log \subseteq 1..log'
  BY <1>1
<1>3. \A s \in Seqs \cup {0} : s \in Int /\ (s <= log => s <= log')
  BY <1>1, SeqsAreInts
<1>4. Len(sent) \in Nat /\ Len(sent') \in Nat /\ \A c \in Clients : conn[c].pos \in Nat
  BY LenProperties DEF Shape, TypeOK, Connection
<1>5. \A c \in Clients : conn[c].pos <= Len(sent')
  BY <1>4 DEF Shape, TypeOK
<1>6. TypeOK'
  <2>1. /\ lastSeq \in [Clients -> 0..log'] /\ base \in [Clients -> 0..log']
        /\ got \in [Clients -> SUBSET (1..log')]
    BY <1>2, Histories
  <2> QED BY <1>5, <2>1 DEF Shape, TypeOK
<1>7. Quiet'
  BY DEF Shape, Quiet
<1>8. Numbered'
  <2> SUFFICES ASSUME NEW c \in Clients
               PROVE  /\ conn[c].last <= log'
                      /\ \A i \in 1..Len(conn[c].todo) : conn[c].todo[i] <= log'
                      /\ \A i \in 1..Len(conn[c].wire) : conn[c].wire[i] <= log'
    BY DEF Numbered
  <2>1. conn[c] \in Connection /\ SocketFits(conn[c])
    BY Fits
  <2>2. /\ conn[c].last \in Seqs \cup {0}
        /\ \A i \in 1..Len(conn[c].todo) : conn[c].todo[i] \in Seqs
        /\ \A i \in 1..Len(conn[c].wire) : conn[c].wire[i] \in Seqs
    BY <2>1, ElementOfSeq DEF Connection
  <2> QED BY <1>3, <2>1, <2>2 DEF SocketFits
<1> QED BY <1>6, <1>7, <1>8 DEF Shape

\* What ServerShape asks for, of the state before the step.
LEMMA ServerFits ==
  ASSUME Shape
  PROVE  /\ log \in Nat /\ MaxEvents \in Nat /\ log <= MaxEvents /\ late \subseteq 1..log
         /\ \A p \in publishing : p.seq \in Seqs /\ p.seq <= log
         /\ publishing \subseteq
              [by : Publishers \cup Clients, seq : Seqs, step : {"ring", "send"}]
         /\ ~up => publishing = {}
         /\ ring \in Seq(Seqs) /\ Len(ring) \in Nat /\ Len(ring) <= RingSize
         /\ RingSize \in Nat \ {0}
         /\ \A i \in 1..Len(ring) : ring[i] \in Seqs /\ ring[i] <= log
         /\ sent \in Seq(Seqs) /\ Len(sent) \in Nat
         /\ \A i \in 1..Len(sent) : sent[i] \in Seqs /\ sent[i] <= log
         /\ faults \subseteq Kinds
<1>1. ring \in Seq(Seqs) /\ sent \in Seq(Seqs)
  BY DEF Shape, TypeOK
<1>2. /\ \A i \in 1..Len(ring) : ring[i] \in Seqs
      /\ \A i \in 1..Len(sent) : sent[i] \in Seqs
      /\ Len(ring) \in Nat /\ Len(sent) \in Nat
  BY <1>1, ElementOfSeq, LenProperties
<1> QED BY <1>1, <1>2, LogIsNat, EventStreamAssumption DEF Shape, TypeOK, Quiet, Numbered

\* One row more, or none, leaves all numbers below the end of the log.
LEMMA GrownLog ==
  ASSUME Shape, log' = log \/ log' = log + 1, log' <= MaxEvents
  PROVE  /\ log' \in 0..MaxEvents /\ log <= log' /\ 1..log \subseteq 1..log'
         /\ \A s \in Seqs : s <= log => s <= log'
BY ServerFits, SeqsAreInts

LEMMA AppendShape ==
  ASSUME Shape, NEW by \in Publishers \cup Clients, AppendEvent(by),
         UNCHANGED <<up, ring, sent, conn, lastSeq, base, got, late, skipped>>
  PROVE  Shape'
<1>1. PICK e \in [by : Publishers \cup Clients, seq : Seqs, step : {"ring"}] :
        /\ publishing' = publishing \cup {e} /\ up
        /\ faults' \subseteq Kinds
        /\ \/ e.seq = log + 1 /\ log' = log + 1 /\ log + 1 <= MaxEvents
           \/ e.seq = Unlogged /\ log' = log
  BY AppendDoes DEF Shape
<1>2. (log' = log \/ log' = log + 1) /\ log' <= MaxEvents
  BY <1>1, ServerFits
<1>3. \A p \in publishing' : p.seq <= log'
  <2>1. e.seq <= log'
    BY <1>1, ServerFits, SeqsAreInts
  <2> QED BY <1>1, <1>2, <2>1, ServerFits, GrownLog
<1>4. e \in [by : Publishers \cup Clients, seq : Seqs, step : {"ring", "send"}]
  BY <1>1
<1> QED BY <1>1, <1>2, <1>3, <1>4, ServerFits, GrownLog, ServerShape

LEMMA PublishShape ==
  ASSUME Shape, NEW p \in Publishers, Publish(p)
  PROVE  Shape'
BY AppendShape DEF Publish

\* A lag is a move of the socket and, as long as there is room, a publish.
LEMMA LagShape ==
  ASSUME Shape, NEW c \in Clients, Lag(c)
  PROVE  Shape'
<1>1. /\ conn' \in [Clients -> Connection] /\ \A d \in Clients \ {c} : conn'[d] = conn[d]
      /\ conn[c].stage = "open" /\ conn[c].todo = <<>>
      /\ conn'[c].stage = "open" /\ conn'[c].todo = <<>>
      /\ conn'[c].last = conn[c].last /\ conn'[c].wire = conn[c].wire
      /\ conn'[c].pos = Len(sent) - Capacity
      /\ conn[c].pos <= conn'[c].pos /\ conn'[c].pos <= Len(sent)
  BY LagDoes DEF Shape
<1>2. up
  BY <1>1 DEF Shape, Quiet
<1>3. skipped' \in [Clients -> SUBSET Seqs]
  <2> DEFINE lost == {sent[i] : i \in conn[c].pos + 1 .. Len(sent) - Capacity}
  <2>1. Len(sent) - Capacity <= Len(sent) /\ Len(sent) \in Nat /\ conn[c].pos \in Nat
        /\ Capacity \in Nat
    BY ServerFits, EventStreamAssumption, Fits DEF Connection
  <2>2. \A i \in conn[c].pos + 1 .. Len(sent) - Capacity : i \in 1..Len(sent)
    BY <2>1
  <2>3. lost \subseteq Seqs
    BY <2>2, ServerFits
  <2>4. skipped' = [skipped EXCEPT ![c] = @ \cup lost]
    BY DEF Lag
  <2> HIDE DEF lost
  <2> QED BY <2>3, <2>4, Histories
<1>4. /\ log' \in 0..MaxEvents /\ log <= log' /\ faults' \subseteq Kinds
      /\ publishing' \subseteq
           [by : Publishers \cup Clients, seq : Seqs, step : {"ring", "send"}]
      /\ \A p \in publishing' : p.seq <= log'
  <2>1. CASE AppendEvent(c)
    <3>1. PICK e \in [by : Publishers \cup Clients, seq : Seqs, step : {"ring"}] :
            /\ publishing' = publishing \cup {e} /\ up
            /\ faults' \subseteq Kinds
            /\ \/ e.seq = log + 1 /\ log' = log + 1 /\ log + 1 <= MaxEvents
               \/ e.seq = Unlogged /\ log' = log
      BY <2>1, AppendDoes DEF Shape
    <3>2. (log' = log \/ log' = log + 1) /\ log' <= MaxEvents
      BY <3>1, ServerFits
    <3>3. e.seq <= log'
      BY <3>1, ServerFits, SeqsAreInts
    <3>4. e \in [by : Publishers \cup Clients, seq : Seqs, step : {"ring", "send"}]
      BY <3>1
    <3> QED BY <3>1, <3>2, <3>3, <3>4, ServerFits, GrownLog
  <2>2. CASE UNCHANGED <<log, publishing, faults>>
    BY <2>2, ServerFits
  <2> QED BY <2>1, <2>2 DEF Lag
<1>5. UNCHANGED <<up, ring, sent, lastSeq, base, got, late>>
  BY DEF Lag
<1>6. log \in Nat /\ log' \in Nat /\ 0..log \subseteq 0..log' /\ 1..log \subseteq 1..log'
      /\ \A s \in Seqs \cup {0} : s \in Int /\ (s <= log => s <= log')
  BY <1>4, ServerFits, SeqsAreInts
<1>7. TypeOK'
  <2>1. /\ lastSeq \in [Clients -> 0..log'] /\ base \in [Clients -> 0..log']
        /\ got \in [Clients -> SUBSET (1..log')] /\ late \subseteq 1..log'
    BY <1>6, Histories, ServerFits
  <2>2. \A d \in Clients : conn'[d].pos <= Len(sent) /\ Len(conn'[d].wire) <= WireSize
    BY <1>1, Fits DEF SocketFits
  <2> QED BY <1>1, <1>3, <1>4, <1>5, <2>1, <2>2 DEF Shape, TypeOK
<1>8. Quiet'
  BY <1>1, <1>2, <1>5 DEF Shape, Quiet
<1>9. Numbered'
  <2>1. ASSUME NEW d \in Clients
        PROVE  /\ conn'[d].last <= log'
               /\ \A i \in 1..Len(conn'[d].todo) : conn'[d].todo[i] <= log'
               /\ \A i \in 1..Len(conn'[d].wire) : conn'[d].wire[i] <= log'
    <3>1. /\ conn'[d].last = conn[d].last /\ conn'[d].todo = conn[d].todo
          /\ conn'[d].wire = conn[d].wire
      BY <1>1
    <3>2. conn[d] \in Connection /\ SocketFits(conn[d])
      BY Fits
    <3>3. /\ conn[d].last \in Seqs \cup {0}
          /\ \A i \in 1..Len(conn[d].todo) : conn[d].todo[i] \in Seqs
          /\ \A i \in 1..Len(conn[d].wire) : conn[d].wire[i] \in Seqs
      BY <3>2, ElementOfSeq DEF Connection
    <3> QED BY <1>6, <3>1, <3>2, <3>3 DEF SocketFits
  <2>2. /\ \A i \in 1..Len(ring) : ring[i] <= log'
        /\ \A i \in 1..Len(sent) : sent[i] <= log'
    BY <1>6, ServerFits
  <2> QED BY <1>4, <1>5, <2>1, <2>2 DEF Numbered
<1> QED BY <1>7, <1>8, <1>9 DEF Shape

LEMMA PushShape ==
  ASSUME Shape, NEW e \in publishing, PushRing(e)
  PROVE  Shape'
<1> DEFINE sending == [e EXCEPT !.step = "send"]
<1>1. /\ e.step = "ring" /\ e.seq \in Seqs
      /\ sending \in [by : Publishers \cup Clients, seq : Seqs, step : {"send"}]
      /\ sending.seq = e.seq
      /\ publishing' = (publishing \ {e}) \cup {sending}
      /\ ring' = Newest(Append(ring, e.seq), RingSize)
      /\ late' = late \cup {p.seq : p \in {q \in publishing : 0 < q.seq /\ q.seq < e.seq}}
  BY PushDoes DEF Shape
<1>2. sending \in [by : Publishers \cup Clients, seq : Seqs, step : {"ring", "send"}]
  BY <1>1
<1> HIDE DEF sending
<1>3. \A p \in publishing' : p.seq <= log
  BY <1>1, ServerFits
<1>4. late' \subseteq 1..log
  <2>1. ASSUME NEW q \in publishing, 0 < q.seq PROVE q.seq \in 1..log
    <3>1. q.seq \in Seqs /\ q.seq <= log /\ log \in Nat
      BY ServerFits
    <3>2. q.seq \in Int
      BY <3>1, SeqsAreInts
    <3> QED BY <2>1, <3>1, <3>2
  <2>2. {p.seq : p \in {q \in publishing : 0 < q.seq /\ q.seq < e.seq}} \subseteq 1..log
    BY <2>1
  <2> QED BY <1>1, <2>2, ServerFits
<1>5. Len(ring') <= RingSize /\ ring' \in Seq(Seqs) /\ \A i \in 1..Len(ring') : ring'[i] <= log
  <2> DEFINE off == IF Len(ring) = RingSize THEN 1 ELSE 0
  <2>1. /\ ring' \in Seq(Seqs) /\ Len(ring') = Len(ring) + 1 - off /\ Len(ring') <= RingSize
        /\ ring'[Len(ring')] = e.seq
        /\ \A i \in 1..Len(ring') - 1 : ring'[i] = ring[i + off] /\ i + off \in 1..Len(ring)
    BY <1>1, PushedRing DEF Shape
  <2>2. Len(ring') \in Nat
    BY <2>1, LenProperties
  <2>3. \A i \in 1..Len(ring') : i = Len(ring') \/ i \in 1..Len(ring') - 1
    BY <2>2
  <2> HIDE DEF off
  <2> QED BY <1>1, <2>1, <2>3, ServerFits
<1>6. UNCHANGED <<up, log, sent, conn, lastSeq, faults, base, got, skipped>>
  BY DEF PushRing
<1>7. up
  BY ServerFits
<1> QED BY <1>1, <1>2, <1>3, <1>4, <1>5, <1>6, <1>7, ServerFits, ServerShape

LEMMA SendShape ==
  ASSUME Shape, NEW e \in publishing, Send(e)
  PROVE  Shape'
<1>1. /\ e.seq \in Seqs /\ e.seq <= log
      /\ publishing' = publishing \ {e} /\ sent' \in Seq(Seqs)
      /\ Len(sent) \in Nat /\ Len(sent') = Len(sent) + 1
      /\ \A i \in 1..Len(sent) : sent'[i] = sent[i]
      /\ sent'[Len(sent) + 1] = e.seq
  BY SendDoes, ServerFits DEF Shape
<1>2. \A i \in 1..Len(sent') : sent'[i] <= log
  <2>1. \A i \in 1..Len(sent') : i \in 1..Len(sent) \/ i = Len(sent) + 1
    BY <1>1
  <2> QED BY <1>1, <2>1, ServerFits
<1>3. UNCHANGED <<up, log, ring, conn, lastSeq, faults, base, got, late, skipped>>
  BY DEF Send
<1>4. Len(sent) <= Len(sent')
  BY <1>1
<1> QED BY <1>1, <1>2, <1>3, <1>4, ServerFits, ServerShape

LEMMA ElsewhereShape ==
  ASSUME Shape, PublishElsewhere
  PROVE  Shape'
<1>1. log < MaxEvents /\ log' = log + 1 /\ late' = late \cup {log + 1}
      /\ UNCHANGED <<up, publishing, ring, sent, conn, lastSeq, base, got, skipped>>
  BY DEF PublishElsewhere
<1>2. log' <= MaxEvents
  BY <1>1, ServerFits
<1>3. faults' \subseteq Kinds
  BY FaultKind, ServerFits DEF PublishElsewhere, Kinds
<1>4. late' \subseteq 1..log'
  BY <1>1, ServerFits
<1> QED BY <1>1, <1>2, <1>3, <1>4, ServerFits, GrownLog, ServerShape

LEMMA CrashShape ==
  ASSUME Shape, Crash
  PROVE  Shape'
<1>1. conn' \in [Clients -> Connection] /\ \A c \in Clients : conn'[c] = Closed
  BY CrashDoes DEF Shape
<1>2. /\ publishing' = {} /\ ring' = <<>> /\ ~up'
      /\ UNCHANGED <<log, sent, lastSeq, base, got, late, skipped>>
  BY DEF Crash
<1>3. faults' \subseteq Kinds
  BY FaultKind, Histories DEF Crash, Kinds
<1>4. /\ ring' \in Seq(Seqs) /\ Len(ring') = 0 /\ Len(Closed.todo) = 0 /\ Len(Closed.wire) = 0
  BY <1>2, EmptyInSeqs, ClosedIs
<1>5. TypeOK'
  <2>1. Len(sent) \in Nat /\ WireSize \in Nat /\ RingSize \in Nat
    BY ServerFits, EventStreamAssumption
  <2>2. \A c \in Clients : conn'[c].pos <= Len(sent) /\ Len(conn'[c].wire) <= WireSize
    BY <1>1, <1>4, <2>1, ClosedIs
  <2>3. up' \in BOOLEAN
    BY DEF Crash
  <2> QED BY <1>1, <1>2, <1>3, <1>4, <2>1, <2>2, <2>3 DEF Shape, TypeOK
<1>6. Quiet'
  BY <1>1, <1>2, ClosedIs DEF Quiet
<1>7. Numbered'
  BY <1>1, <1>2, <1>4, ServerFits, ClosedIs DEF Numbered
<1> QED BY <1>5, <1>6, <1>7 DEF Shape

LEMMA RestartShape ==
  ASSUME Shape, Restart
  PROVE  Shape'
<1>1. /\ ring' \in Seq(Seqs) /\ up' = TRUE
      /\ Len(ring') = IF log > RingSize THEN RingSize ELSE log
      /\ \A i \in 1..Len(ring') : ring'[i] = log - Len(ring') + i
  BY RestartDoes DEF Shape
<1>2. UNCHANGED <<log, publishing, sent, conn, lastSeq, faults, base, got, late, skipped>>
  BY DEF Restart
<1>3. Len(ring') <= RingSize /\ Len(ring') \in Nat
  BY <1>1, ServerFits, LenProperties
<1>4. \A i \in 1..Len(ring') : ring'[i] <= log
  BY <1>1, <1>3, ServerFits
<1>5. TypeOK'
  BY <1>1, <1>2, <1>3 DEF Shape, TypeOK
<1>6. Quiet'
  BY <1>1, <1>2 DEF Shape, Quiet
<1>7. Numbered'
  BY <1>2, <1>4 DEF Shape, Numbered
<1> QED BY <1>5, <1>6, <1>7 DEF Shape

LEMMA ShapeStep == Shape /\ [Next]_vars => Shape'
<1> SUFFICES ASSUME Shape, [Next]_vars PROVE Shape'
  OBVIOUS
<1>1. CASE \E p \in Publishers : Publish(p)
  BY <1>1, PublishShape
<1>2. CASE \E e \in publishing : PushRing(e) \/ Send(e)
  BY <1>2, PushShape, SendShape
<1>3. CASE \E c \in Clients : SocketStep(c) \/ Receive(c) \/ Blip(c)
  BY <1>3, SubscribeShape, LoadRingShape, LoadRowsShape, ReplayShape, ForwardShape, LagShape,
     ReceiveShape, BlipShape DEF SocketStep
<1>4. CASE PublishElsewhere \/ Crash \/ Restart
  BY <1>4, ElsewhereShape, CrashShape, RestartShape
<1>5. CASE UNCHANGED vars
  BY <1>5 DEF Shape, TypeOK, Quiet, Numbered, vars
<1> QED BY <1>1, <1>2, <1>3, <1>4, <1>5 DEF Next

\* Every variable keeps its type; a wire and the ring keep their size; a socket that is
\* not open carries nothing, and no number is in flight that no row has.
THEOREM EventTypeCorrect == Spec => []TypeOK
<1>1. Spec => []Shape
  BY InitShape, ShapeStep, PTL DEF Spec
<1>2. Shape => TypeOK
  BY DEF Shape
<1> QED BY <1>1, <1>2, PTL
-----------------------------------------------------------------------------
(***************************************************************************)
(* Who overtakes whom                                                      *)
(***************************************************************************)

\* The steps of the bus; all others leave it alone.
ServerMove ==
  \/ \E e \in [by : Publishers \cup Clients, seq : Seqs, step : {"ring"}] :
       /\ publishing' = publishing \cup {e} /\ up
       /\ \/ e.seq = log + 1 /\ log' = log + 1
          \/ e.seq = Unlogged /\ log' = log
       /\ UNCHANGED <<up, ring, sent, late>>
  \/ \E e \in publishing : PushRing(e) \/ Send(e)
  \/ PublishElsewhere \/ Crash \/ Restart
  \/ UNCHANGED <<up, log, publishing, ring, sent, late>>

LEMMA ServerMoves == Shape /\ [Next]_vars => ServerMove
<1> SUFFICES ASSUME Shape, [Next]_vars PROVE ServerMove
  OBVIOUS
<1>1. ASSUME NEW by \in Publishers \cup Clients, AppendEvent(by), UNCHANGED <<up, ring, sent, late>>
      PROVE  ServerMove
  BY <1>1, AppendDoes DEF Shape, ServerMove
<1>2. CASE \E p \in Publishers : Publish(p)
  BY <1>1, <1>2 DEF Publish
<1>3. CASE \E e \in publishing : PushRing(e) \/ Send(e)
  BY <1>3 DEF ServerMove
<1>4. CASE \E c \in Clients : SocketStep(c) \/ Receive(c) \/ Blip(c)
  <2>1. PICK c \in Clients : SocketStep(c) \/ Receive(c) \/ Blip(c)
    BY <1>4
  <2>2. CASE Lag(c)
    BY <1>1, <2>2 DEF Lag, ServerMove
  <2>3. CASE ~Lag(c)
    BY <2>1, <2>3 DEF SocketStep, Subscribe, LoadRing, LoadRows, Replay, Forward, Receive, Blip,
                      ServerMove
  <2> QED BY <2>2, <2>3
<1>5. CASE PublishElsewhere \/ Crash \/ Restart
  BY <1>5 DEF ServerMove
<1>6. CASE UNCHANGED vars
  BY <1>6 DEF vars, ServerMove
<1> QED BY <1>2, <1>3, <1>4, <1>5, <1>6 DEF Next

\* All numbers that are compared are integers.
LEMMA Numbers ==
  ASSUME Shape
  PROVE  /\ \A p \in publishing : p.seq \in Int /\ p.seq <= log /\ p.step \in {"ring", "send"}
         /\ \A i \in 1..Len(ring) : ring[i] \in Int /\ ring[i] <= log
         /\ \A i \in 1..Len(sent) : sent[i] \in Int /\ sent[i] <= log
         /\ log \in Nat /\ Len(ring) \in Nat /\ Len(sent) \in Nat
<1>1. \A p \in publishing : p.step \in {"ring", "send"}
  BY ServerFits
<1> QED BY <1>1, ServerFits, SeqsAreInts

LEMMA InitOrder == Init => PublishOrder
<1> SUFFICES ASSUME Init PROVE PublishOrder
  OBVIOUS
<1>1. publishing = {} /\ Len(ring) = 0
  BY EmptySeq DEF Init
<1> QED BY <1>1 DEF PublishOrder, OneNumber, RingOvertakes, SendOvertakes, RingGoesUp

LEMMA AppendOrder ==
  ASSUME Shape, PublishOrder,
         NEW e \in [by : Publishers \cup Clients, seq : Seqs, step : {"ring"}],
         publishing' = publishing \cup {e}, e.seq = log + 1 \/ e.seq = Unlogged,
         UNCHANGED <<ring, sent, late>>
  PROVE  PublishOrder'
<1>1. e.step = "ring" /\ e.seq \in Int /\ (e.seq > 0 => e.seq > log)
  BY Numbers, SeqsAreInts
<1>2. OneNumber'
  BY <1>1, Numbers DEF PublishOrder, OneNumber
<1>3. RingOvertakes'
  <2> SUFFICES ASSUME NEW q \in publishing', q.step = "ring", q.seq > 0, q.seq \notin late
               PROVE  /\ \A i \in 1..Len(ring) : ring[i] < q.seq
                      /\ \A i \in 1..Len(sent) : sent[i] < q.seq
                      /\ \A p \in publishing' : p.step = "send" => p.seq < q.seq
    BY DEF RingOvertakes
  <2>1. CASE q = e
    BY <1>1, <2>1, Numbers
  <2>2. CASE q \in publishing
    BY <1>1, <2>2 DEF PublishOrder, RingOvertakes
  <2> QED BY <2>1, <2>2
<1>4. SendOvertakes'
  BY <1>1 DEF PublishOrder, SendOvertakes
<1>5. RingGoesUp'
  BY DEF PublishOrder, RingGoesUp
<1> QED BY <1>2, <1>3, <1>4, <1>5 DEF PublishOrder

LEMMA PushOrder ==
  ASSUME Shape, PublishOrder, NEW e \in publishing, PushRing(e)
  PROVE  PublishOrder'
<1> DEFINE off == IF Len(ring) = RingSize THEN 1 ELSE 0
<1>1. PICK s \in [by : Publishers \cup Clients, seq : Seqs, step : {"send"}] :
        /\ s.seq = e.seq /\ s.step = "send"
        /\ publishing' = (publishing \ {e}) \cup {s}
        /\ e.step = "ring" /\ e.seq \in Seqs
        /\ late' = late \cup {p.seq : p \in {q \in publishing : 0 < q.seq /\ q.seq < e.seq}}
        /\ sent' = sent
  BY PushDoes DEF Shape, PushRing
<1>2. late \subseteq late' /\ \A q \in publishing : 0 < q.seq /\ q.seq < e.seq => q.seq \in late'
  BY <1>1
<1>3. /\ Len(ring') = Len(ring) + 1 - off /\ Len(ring') \in Nat
      /\ ring'[Len(ring')] = e.seq
      /\ \A i \in 1..Len(ring') - 1 : ring'[i] = ring[i + off] /\ i + off \in 1..Len(ring)
  <2>1. ring' = Newest(Append(ring, e.seq), RingSize) /\ e.seq \in Seqs
    BY PushDoes DEF Shape
  <2>2. /\ ring' \in Seq(Seqs) /\ Len(ring') = Len(ring) + 1 - off
        /\ ring'[Len(ring')] = e.seq
        /\ \A i \in 1..Len(ring') - 1 : ring'[i] = ring[i + off] /\ i + off \in 1..Len(ring)
    BY <2>1, PushedRing DEF Shape
  <2> QED BY <2>2, LenProperties
<1>4. off \in Nat
  OBVIOUS
<1> HIDE DEF off
<1>5. \A i \in 1..Len(ring') : i = Len(ring') \/ i \in 1..Len(ring') - 1
  BY <1>3
<1>6. e.seq \in Int /\ e.seq <= log
  BY Numbers
<1>7. \A q \in publishing : q.step = "ring" /\ q # e /\ q.seq > 0 /\ q.seq \notin late' => e.seq < q.seq
  BY <1>2, <1>6, Numbers DEF PublishOrder, OneNumber
<1>8. OneNumber'
  <2> SUFFICES ASSUME NEW p \in publishing', NEW q \in publishing', p.seq = q.seq, p.seq > 0
               PROVE  p = q
    BY DEF OneNumber
  <2>1. CASE p = s \/ q = s
    BY <1>1, <2>1 DEF PublishOrder, OneNumber
  <2>2. CASE p # s /\ q # s
    BY <1>1, <2>2 DEF PublishOrder, OneNumber
  <2> QED BY <2>1, <2>2
<1>9. RingOvertakes'
  <2> SUFFICES ASSUME NEW q \in publishing', q.step = "ring", q.seq > 0, q.seq \notin late'
               PROVE  /\ \A i \in 1..Len(ring') : ring'[i] < q.seq
                      /\ \A i \in 1..Len(sent) : sent[i] < q.seq
                      /\ \A p \in publishing' : p.step = "send" => p.seq < q.seq
    BY <1>1 DEF RingOvertakes
  <2>1. q \in publishing /\ q # e /\ e.seq < q.seq
    BY <1>1, <1>7
  <2>2. /\ \A i \in 1..Len(ring) : ring[i] < q.seq
        /\ \A i \in 1..Len(sent) : sent[i] < q.seq
        /\ \A p \in publishing : p.step = "send" => p.seq < q.seq
    BY <1>2, <2>1 DEF PublishOrder, RingOvertakes
  <2>3. \A i \in 1..Len(ring') : ring'[i] < q.seq
    BY <1>3, <1>5, <2>1, <2>2
  <2> QED BY <1>1, <2>1, <2>2, <2>3
<1>10. SendOvertakes'
  <2> SUFFICES ASSUME NEW q \in publishing', q.step = "send", q.seq > 0, q.seq \notin late'
               PROVE  /\ \A i \in 1..Len(sent) : sent[i] <= q.seq
                      /\ \A p \in publishing' : p.step = "send" => p.seq <= q.seq
    BY <1>1 DEF SendOvertakes
  <2>1. CASE q = s
    <3>1. /\ \A i \in 1..Len(sent) : sent[i] < e.seq
          /\ \A p \in publishing : p.step = "send" => p.seq < e.seq
      BY <1>1, <1>2, <2>1 DEF PublishOrder, RingOvertakes
    <3> QED BY <1>1, <1>6, <2>1, <3>1, Numbers
  <2>2. CASE q \in publishing
    <3>1. e.seq <= q.seq
      BY <1>2, <1>6, <2>2, Numbers
    <3>2. /\ \A i \in 1..Len(sent) : sent[i] <= q.seq
          /\ \A p \in publishing : p.step = "send" => p.seq <= q.seq
      BY <1>2, <2>2 DEF PublishOrder, SendOvertakes
    <3> QED BY <1>1, <3>1, <3>2
  <2> QED BY <1>1, <2>1, <2>2
<1>11. RingGoesUp'
  <2> SUFFICES ASSUME NEW i \in 1..Len(ring'), NEW j \in 1..Len(ring'), i < j,
                      ring'[j] > 0, ring'[j] \notin late'
               PROVE  ring'[i] < ring'[j]
    BY DEF RingGoesUp
  <2>1. i \in 1..Len(ring') - 1 /\ ring'[i] = ring[i + off] /\ i + off \in 1..Len(ring)
    BY <1>3
  <2>2. CASE j = Len(ring')
    BY <1>1, <1>2, <1>3, <2>1, <2>2 DEF PublishOrder, RingOvertakes
  <2>3. CASE j # Len(ring')
    <3>1. ring'[j] = ring[j + off] /\ j + off \in 1..Len(ring) /\ i + off < j + off
      BY <1>3, <1>4, <1>5, <2>3
    <3> QED BY <1>2, <2>1, <3>1 DEF PublishOrder, RingGoesUp
  <2> QED BY <2>2, <2>3
<1> QED BY <1>8, <1>9, <1>10, <1>11 DEF PublishOrder

LEMMA SendOrder ==
  ASSUME Shape, PublishOrder, NEW e \in publishing, Send(e)
  PROVE  PublishOrder'
<1>1. /\ e.step = "send" /\ publishing' = publishing \ {e}
      /\ Len(sent) \in Nat /\ Len(sent') = Len(sent) + 1
      /\ \A i \in 1..Len(sent) : sent'[i] = sent[i]
      /\ sent'[Len(sent) + 1] = e.seq
      /\ ring' = ring /\ late' = late
  BY SendDoes DEF Shape, Send
<1>2. \A i \in 1..Len(sent') : i \in 1..Len(sent) \/ i = Len(sent) + 1
  BY <1>1
<1>3. OneNumber' /\ RingGoesUp'
  BY <1>1 DEF PublishOrder, OneNumber, RingGoesUp
<1>4. RingOvertakes'
  BY <1>1, <1>2 DEF PublishOrder, RingOvertakes
<1>5. SendOvertakes'
  BY <1>1, <1>2 DEF PublishOrder, SendOvertakes
<1> QED BY <1>3, <1>4, <1>5 DEF PublishOrder

LEMMA RestartOrder ==
  ASSUME Shape, Restart
  PROVE  PublishOrder'
<1>1. publishing' = {}
  BY DEF Shape, Quiet, Restart
<1>2. \A i \in 1..Len(ring') : ring'[i] = log - Len(ring') + i
  BY RestartDoes DEF Shape
<1>3. Len(ring') \in Nat /\ log \in Nat
  BY RestartDoes, LenProperties, Numbers DEF Shape
<1>4. RingGoesUp'
  BY <1>2, <1>3 DEF RingGoesUp
<1> QED BY <1>1, <1>4 DEF PublishOrder, OneNumber, RingOvertakes, SendOvertakes

LEMMA OrderStep == Shape /\ PublishOrder /\ [Next]_vars => PublishOrder'
<1> SUFFICES ASSUME Shape, PublishOrder, [Next]_vars PROVE PublishOrder'
  OBVIOUS
<1>1. CASE PublishElsewhere
  <2>1. UNCHANGED <<publishing, ring, sent>> /\ late \subseteq late'
    BY <1>1 DEF PublishElsewhere
  <2> QED BY <2>1 DEF PublishOrder, OneNumber, RingOvertakes, SendOvertakes, RingGoesUp
<1>2. CASE Crash
  <2>1. publishing' = {} /\ Len(ring') = 0
    BY <1>2, EmptySeq DEF Crash
  <2> QED BY <2>1 DEF PublishOrder, OneNumber, RingOvertakes, SendOvertakes, RingGoesUp
<1>3. CASE UNCHANGED <<up, log, publishing, ring, sent, late>>
  BY <1>3 DEF PublishOrder, OneNumber, RingOvertakes, SendOvertakes, RingGoesUp
<1> QED BY <1>1, <1>2, <1>3, ServerMoves, AppendOrder, PushOrder, SendOrder, RestartOrder
        DEF ServerMove
-----------------------------------------------------------------------------
(***************************************************************************)
(* The ring is the end of the log                                          *)
(***************************************************************************)

LEMMA LateGrows == Shape /\ [Next]_vars => late \subseteq late'
<1> SUFFICES ASSUME Shape, [Next]_vars PROVE late \subseteq late'
  OBVIOUS
<1> QED BY ServerMoves DEF ServerMove, PushRing, Send, PublishElsewhere, Crash, Restart

LEMMA InitSuffix == Init => RingIsSuffix
<1> SUFFICES ASSUME Init PROVE RingIsSuffix
  OBVIOUS
<1>1. log = 0 /\ Len(ring) = 0
  BY EmptySeq DEF Init
<1>2. EndsWith(0)
  BY <1>1 DEF EndsWith
<1> QED BY <1>1, <1>2 DEF RingIsSuffix

LEMMA AppendSuffix ==
  ASSUME Shape, RingIsSuffix,
         NEW e \in [by : Publishers \cup Clients, seq : Seqs, step : {"ring"}],
         publishing' = publishing \cup {e},
         \/ e.seq = log + 1 /\ log' = log + 1
         \/ e.seq = Unlogged /\ log' = log,
         UNCHANGED <<up, ring, late>>
  PROVE  RingIsSuffix'
<1> SUFFICES ASSUME up, late = {} PROVE \E k \in 0..log' : EndsWith(k)'
  BY DEF RingIsSuffix
<1>1. PICK k \in 0..log : EndsWith(k)
  BY DEF RingIsSuffix
<1>2. log \in Nat /\ log' \in Nat /\ log <= log' /\ Unlogged < 0 /\ e.step = "ring"
  BY Numbers, SeqsAreInts
<1>3. \A s \in 1..log : AtRing(s)' <=> AtRing(s)
  BY <1>2 DEF AtRing
<1>4. \A s \in 1..log' : s <= k <=> ~AtRing(s)'
  <2> TAKE s \in 1..log'
  <2>1. CASE s \in 1..log
    BY <1>1, <1>3, <2>1 DEF EndsWith
  <2>2. CASE s \notin 1..log
    <3>1. s = log + 1 /\ e.seq = s
      BY <1>2, <2>2
    <3>2. AtRing(s)'
      BY <1>2, <3>1 DEF AtRing
    <3> QED BY <1>2, <3>1, <3>2
  <2> QED BY <2>1, <2>2
<1>5. EndsWith(k)'
  BY <1>1, <1>4 DEF EndsWith
<1>6. k \in 0..log'
  BY <1>2
<1> QED BY <1>5, <1>6

LEMMA PushSuffix ==
  ASSUME Shape, PublishOrder, RingIsSuffix, NEW e \in publishing, PushRing(e)
  PROVE  RingIsSuffix'
<1> SUFFICES ASSUME up, late' = {} PROVE \E k \in 0..log : EndsWith(k)'
  BY DEF RingIsSuffix, PushRing
<1> DEFINE off == IF Len(ring) = RingSize THEN 1 ELSE 0
<1>1. /\ e.step = "ring" /\ e.seq \in Seqs /\ log' = log /\ e.seq \in Int /\ e.seq <= log
      /\ late = {} /\ \A q \in publishing : ~(0 < q.seq /\ q.seq < e.seq)
  <2>1. /\ e.step = "ring" /\ e.seq \in Seqs
        /\ late' = late \cup {p.seq : p \in {q \in publishing : 0 < q.seq /\ q.seq < e.seq}}
    BY PushDoes DEF Shape
  <2>2. ASSUME NEW q \in publishing, 0 < q.seq, q.seq < e.seq PROVE FALSE
    <3>1. q.seq \in late'
      BY <2>1, <2>2
    <3> QED BY <3>1
  <2>3. e.seq \in Int /\ e.seq <= log
    BY Numbers
  <2>4. log' = log
    BY DEF PushRing
  <2> QED BY <2>1, <2>2, <2>3, <2>4
<1>2. PICK k \in 0..log : EndsWith(k)
  BY <1>1 DEF RingIsSuffix
<1>3. PICK s \in [by : Publishers \cup Clients, seq : Seqs, step : {"send"}] :
        publishing' = (publishing \ {e}) \cup {s} /\ s.step = "send"
  BY PushDoes DEF Shape
<1>4. ring' = Newest(Append(ring, e.seq), RingSize)
  BY PushDoes DEF Shape
<1>5. /\ ring' \in Seq(Seqs) /\ Len(ring') = Len(ring) + 1 - off
      /\ RingSize \in Nat \ {0} /\ Len(ring) <= RingSize
      /\ ring'[Len(ring')] = e.seq
      /\ \A i \in 1..Len(ring') - 1 : ring'[i] = ring[i + off] /\ i + off \in 1..Len(ring)
  <2>1. e.seq \in Seqs
    BY <1>1
  <2>2. /\ ring' \in Seq(Seqs) /\ Len(ring') = Len(ring) + 1 - off
        /\ ring'[Len(ring')] = e.seq
        /\ \A i \in 1..Len(ring') - 1 : ring'[i] = ring[i + off] /\ i + off \in 1..Len(ring)
    BY <1>4, <2>1, PushedRing DEF Shape
  <2> QED BY <2>2, ServerFits
<1>6. Len(ring) \in Nat /\ Len(ring') \in Nat \ {0} /\ log \in Nat /\ off \in Nat
      /\ (Len(ring') < RingSize => off = 0 /\ Len(ring) < RingSize)
  BY <1>5, LenProperties, Numbers
<1> HIDE DEF off
<1>7. AtRing(e.seq)
  BY <1>1 DEF AtRing
<1>8. CASE e.seq = Unlogged
  <2>1. \A r \in 1..log : AtRing(r)' <=> AtRing(r)
    BY <1>3, <1>8, SeqsAreInts DEF AtRing
  <2>2. e.seq < 0 /\ Len(ring') \in 1..Len(ring')
    BY <1>5, <1>6, <1>8, SeqsAreInts
  <2>3. \A i \in 1..Len(ring') : Len(ring') \in i..Len(ring')
    BY <1>6
  <2>4. EndsWith(k)'
    BY <1>1, <1>2, <1>5, <2>1, <2>2, <2>3 DEF EndsWith
  <2> QED BY <2>4
<1>9. CASE e.seq > 0
  <2>1. e.seq = k + 1
    <3>1. e.seq \in 1..log
      BY <1>1, <1>6, <1>9
    <3>2. k < e.seq
      BY <1>2, <1>7, <3>1 DEF EndsWith
    <3>3. k + 1 \in 1..log /\ ~(k + 1 <= k)
      BY <1>6, <3>1, <3>2
    <3>4. PICK q \in publishing : q.step = "ring" /\ q.seq = k + 1
      BY <1>2, <3>3 DEF EndsWith, AtRing
    <3> QED BY <1>1, <3>2, <3>4
  <2>2. \A r \in 1..log : r <= k + 1 <=> ~AtRing(r)'
    <3> TAKE r \in 1..log
    <3>1. AtRing(r)' <=> \E q \in publishing \ {e} : q.step = "ring" /\ q.seq = r
      BY <1>3 DEF AtRing
    <3>2. CASE r <= k
      BY <1>2, <3>1, <3>2 DEF EndsWith, AtRing
    <3>3. CASE r = k + 1
      <4>1. \A q \in publishing \ {e} : q.seq # r
        BY <1>9, <2>1, <3>3 DEF PublishOrder, OneNumber
      <4> QED BY <3>1, <3>3, <4>1
    <3>4. CASE r > k + 1
      <4>1. AtRing(r) /\ e.seq # r
        BY <1>2, <2>1, <3>4 DEF EndsWith
      <4> QED BY <3>1, <3>4, <4>1 DEF AtRing
    <3> QED BY <3>2, <3>3, <3>4
  <2>3. ASSUME NEW i \in 1..Len(ring'), \A j \in i..Len(ring') : ring'[j] > 0
        PROVE  ring'[i] = k + 1 - (Len(ring') - i)
    <3>1. CASE i = Len(ring')
      BY <1>5, <2>1, <3>1
    <3>2. CASE i # Len(ring')
      <4>1. i \in 1..Len(ring') - 1 /\ ring'[i] = ring[i + off] /\ i + off \in 1..Len(ring)
        BY <1>5, <1>6, <3>2
      <4>2. ASSUME NEW j \in i + off .. Len(ring) PROVE ring[j] > 0
        <5>1. j - off \in 1..Len(ring') - 1 /\ j - off \in i..Len(ring') /\ j - off + off = j
          BY <1>5, <1>6, <4>1
        <5>2. ring'[j - off] = ring[j - off + off]
          BY <1>5, <5>1
        <5> QED BY <2>3, <5>1, <5>2
      <4>3. ring[i + off] = k - (Len(ring) - (i + off))
        BY <1>2, <4>1, <4>2 DEF EndsWith
      <4> QED BY <1>5, <1>6, <4>1, <4>3
    <3> QED BY <3>1, <3>2
  <2>4. ASSUME \A i \in 1..Len(ring') : ring'[i] > 0, Len(ring') < RingSize
        PROVE  Len(ring') = k + 1
    <3>1. off = 0 /\ Len(ring) < RingSize /\ Len(ring') = Len(ring) + 1
      BY <1>5, <1>6, <2>4
    <3>2. ASSUME NEW i \in 1..Len(ring) PROVE ring[i] > 0
      <4>1. i \in 1..Len(ring') - 1 /\ i \in 1..Len(ring') /\ i + off = i
        BY <1>6, <3>1
      <4> QED BY <1>5, <2>4, <4>1
    <3>3. Len(ring) = k
      BY <1>2, <3>1, <3>2 DEF EndsWith
    <3> QED BY <3>1, <3>3
  <2>5. EndsWith(k + 1)'
    BY <1>1, <2>2, <2>3, <2>4 DEF EndsWith
  <2> QED BY <1>1, <1>6, <1>9, <2>1, <2>5
<1> QED BY <1>1, <1>8, <1>9, SeqsAreInts

LEMMA RestartSuffix ==
  ASSUME Shape, Restart
  PROVE  RingIsSuffix'
<1>1. publishing' = {} /\ log' = log /\ log \in Nat /\ RingSize \in Nat \ {0}
  BY ServerFits DEF Shape, Quiet, Restart
<1>2. /\ Len(ring') = IF log > RingSize THEN RingSize ELSE log
      /\ \A i \in 1..Len(ring') : ring'[i] = log - Len(ring') + i
  BY RestartDoes DEF Shape
<1>3. \A s \in 1..log : ~AtRing(s)'
  BY <1>1 DEF AtRing
<1>4. \A i \in 1..Len(ring') : ring'[i] = log - (Len(ring') - i)
  <2>1. Len(ring') \in Nat
    BY <1>1, <1>2
  <2> QED BY <1>1, <1>2, <2>1
<1>5. EndsWith(log)'
  BY <1>1, <1>2, <1>3, <1>4 DEF EndsWith
<1> QED BY <1>1, <1>5 DEF RingIsSuffix

LEMMA SuffixStep == Shape /\ PublishOrder /\ RingIsSuffix /\ [Next]_vars => RingIsSuffix'
<1> SUFFICES ASSUME Shape, PublishOrder, RingIsSuffix, [Next]_vars PROVE RingIsSuffix'
  OBVIOUS
<1>1. CASE PublishElsewhere
  BY <1>1 DEF PublishElsewhere, RingIsSuffix
<1>2. CASE Crash
  BY <1>2 DEF Crash, RingIsSuffix
<1>3. ASSUME NEW e \in publishing, Send(e)
      PROVE  RingIsSuffix'
  <2>1. publishing' = publishing \ {e} /\ e.step = "send" /\ UNCHANGED <<up, log, ring, late>>
    BY <1>3 DEF Send
  <2>2. \A s : AtRing(s)' <=> AtRing(s)
    BY <2>1 DEF AtRing
  <2> QED BY <2>1, <2>2 DEF RingIsSuffix, EndsWith
<1>4. CASE UNCHANGED <<up, log, publishing, ring, sent, late>>
  BY <1>4 DEF RingIsSuffix, EndsWith, AtRing
<1> QED BY <1>1, <1>2, <1>3, <1>4, ServerMoves, AppendSuffix, PushSuffix, RestartSuffix
        DEF ServerMove

\* The ring holds the last rows of the log if nothing is under way that could disturb it.
LEMMA SuffixIsEnd == Shape /\ RingIsSuffix => RingIsEndOfLog
<1> SUFFICES ASSUME Shape, RingIsSuffix, up, publishing = {}, late = {}, Unlogged \notin Elements(ring)
             PROVE  ring = Newest([i \in 1..log |-> i], RingSize)
  BY DEF RingIsEndOfLog
<1> DEFINE rows == [i \in 1..log |-> i]
           same == [i \in 1..log |-> 0 + i]
<1>1. /\ log \in Nat /\ 0 + log <= MaxEvents /\ RingSize \in Nat \ {0}
      /\ ring \in Seq(Seqs) /\ Len(ring) \in Nat /\ Len(ring) <= RingSize
  BY ServerFits
<1>2. PICK k \in 0..log : EndsWith(k)
  BY DEF RingIsSuffix
<1>3. k = log
  <2>1. log \in 1..log => log <= k
    BY <1>2 DEF EndsWith, AtRing
  <2> QED BY <1>1, <2>1
<1>4. \A i \in 1..Len(ring) : ring[i] > 0
  BY <1>1, ElementsOf, ServerFits, SeqsAreInts
<1>5. \A i \in 1..Len(ring) : ring[i] = log - (Len(ring) - i)
  BY <1>1, <1>2, <1>3, <1>4 DEF EndsWith
<1>6. Len(ring) = IF log > RingSize THEN RingSize ELSE log
  <2>1. CASE Len(ring) < RingSize
    BY <1>1, <1>2, <1>3, <1>4, <2>1 DEF EndsWith
  <2>2. CASE Len(ring) = RingSize
    <3>1. 1 \in 1..Len(ring)
      BY <1>1, <2>2
    <3>2. log - (Len(ring) - 1) > 0
      BY <1>4, <1>5, <3>1
    <3> QED BY <1>1, <2>2, <3>2
  <2> QED BY <1>1, <2>1, <2>2
<1>7. same \in Seq(Seqs) /\ Len(same) = log
  BY <1>1, RowsAre
<1>8. rows = same
  BY <1>1
<1>9. rows \in Seq(Seqs) /\ Len(rows) = log /\ \A i \in 1..log : rows[i] = i
  BY <1>7, <1>8
<1> HIDE DEF rows
<1>10. /\ Newest(rows, RingSize) \in Seq(Seqs)
       /\ Len(Newest(rows, RingSize)) = Len(ring)
       /\ \A i \in 1..Len(ring) : Newest(rows, RingSize)[i] = rows[log - Len(ring) + i]
  <2>1. /\ Newest(rows, RingSize) \in Seq(Seqs)
        /\ Len(Newest(rows, RingSize)) = IF Len(rows) > RingSize THEN RingSize ELSE Len(rows)
        /\ \A i \in 1..Len(Newest(rows, RingSize)) :
             Newest(rows, RingSize)[i] = rows[Len(rows) - Len(Newest(rows, RingSize)) + i]
    BY <1>1, <1>9, NewestIs
  <2> QED BY <1>6, <1>9, <2>1
<1>11. \A i \in 1..Len(ring) : log - Len(ring) + i \in 1..log
  BY <1>1, <1>6
<1>12. \A i \in 1..Len(ring) : Newest(rows, RingSize)[i] = ring[i]
  BY <1>1, <1>5, <1>9, <1>10, <1>11
<1>13. ring = Newest(rows, RingSize)
  BY <1>1, <1>10, <1>12, SeqEqual
<1> QED BY <1>13 DEF rows

\* What a fresh client is shown is the end of the durable log, whatever was published,
\* trimmed and restarted before, unless publishes overtook each other or one failed.
THEOREM RingEndsTheLog == Spec => []RingIsEndOfLog
<1>1. Init => Shape /\ PublishOrder /\ RingIsSuffix
  BY InitShape, InitOrder, InitSuffix
<1>2. Shape /\ PublishOrder /\ RingIsSuffix /\ [Next]_vars => (Shape /\ PublishOrder /\ RingIsSuffix)'
  BY ShapeStep, OrderStep, SuffixStep
<1> QED BY <1>1, <1>2, SuffixIsEnd, PTL DEF Spec
-----------------------------------------------------------------------------
(***************************************************************************)
(* What a client is sent goes up                                           *)
(***************************************************************************)

\* Nothing of a client changes but by a step of its own, or by a crash.
LEMMA ClientMoves ==
  ASSUME Shape, [Next]_vars, NEW c \in Clients
  PROVE  \/ SocketStep(c) \/ Receive(c) \/ Blip(c) \/ Crash
         \/ /\ conn'[c] = conn[c] /\ lastSeq'[c] = lastSeq[c] /\ base'[c] = base[c]
            /\ got'[c] = got[c] /\ skipped'[c] = skipped[c]
<1>1. ASSUME NEW d \in Clients, d # c, SocketStep(d) \/ Receive(d) \/ Blip(d)
      PROVE  /\ conn'[c] = conn[c] /\ lastSeq'[c] = lastSeq[c] /\ base'[c] = base[c]
             /\ got'[c] = got[c] /\ skipped'[c] = skipped[c]
  <2>1. conn'[c] = conn[c]
    BY <1>1, SubscribeDoes, LoadRingDoes, LoadRowsDoes, ReplayDoes, ForwardDoes, LagDoes,
       ReceiveDoes, BlipDoes DEF SocketStep, Shape
  <2>2. lastSeq'[c] = lastSeq[c] /\ got'[c] = got[c]
    BY <1>1, Histories
       DEF SocketStep, Subscribe, LoadRing, LoadRows, Replay, Forward, Lag, Receive, Blip
  <2>3. base'[c] = base[c]
    BY <1>1, Histories
       DEF SocketStep, Subscribe, LoadRing, LoadRows, Replay, Forward, Lag, Receive, Blip
  <2>4. skipped'[c] = skipped[c]
    BY <1>1, Histories
       DEF SocketStep, Subscribe, LoadRing, LoadRows, Replay, Forward, Lag, Receive, Blip
  <2> QED BY <2>1, <2>2, <2>3, <2>4
<1>2. CASE \E d \in Clients : SocketStep(d) \/ Receive(d) \/ Blip(d)
  BY <1>1, <1>2
<1>3. CASE ~\E d \in Clients : SocketStep(d) \/ Receive(d) \/ Blip(d)
  BY <1>3 DEF Next, vars, Publish, PushRing, Send, PublishElsewhere, Restart
<1> QED BY <1>2, <1>3

LEMMA NothingGoesUp == \A k : k.todo = <<>> => GoesUp(k)
BY EmptySeq DEF GoesUp

LEMMA ReplayGoesUp ==
  ASSUME Shape, BacklogGoesUp, late = {}, NEW c \in Clients, Replay(c)
  PROVE  /\ GoesUp(conn'[c])
         /\ conn'[c].last = Unlogged \/ conn'[c].last > conn[c].last
<1>1. /\ conn[c].todo # <<>> /\ conn'[c].todo = Tail(conn[c].todo)
      /\ conn'[c].last = Head(conn[c].todo)
  BY ReplayDoes DEF Shape
<1>2. conn[c].todo \in Seq(Seqs) /\ GoesUp(conn[c])
  BY Fits DEF Connection, BacklogGoesUp
<1>3. /\ Len(conn'[c].todo) = Len(conn[c].todo) - 1 /\ Len(conn[c].todo) \in Nat \ {0}
      /\ conn'[c].last = conn[c].todo[1] /\ conn'[c].last \in Seqs
      /\ \A i \in 1..Len(conn'[c].todo) : conn'[c].todo[i] = conn[c].todo[i + 1]
  BY <1>1, <1>2, ElementsOfTail
<1>4. GoesUp(conn'[c])
  <2> SUFFICES ASSUME NEW j \in 1..Len(conn'[c].todo), conn'[c].todo[j] > 0
               PROVE  /\ conn'[c].todo[j] > conn'[c].last
                      /\ \A i \in 1..j - 1 : conn'[c].todo[i] < conn'[c].todo[j]
    BY DEF GoesUp
  <2>1. j + 1 \in 1..Len(conn[c].todo) /\ conn'[c].todo[j] = conn[c].todo[j + 1]
    BY <1>3
  <2>2. \A i \in 1..j : conn[c].todo[i] < conn[c].todo[j + 1]
    BY <1>2, <2>1 DEF GoesUp
  <2>3. 1 \in 1..j
    BY <1>3
  <2>4. conn'[c].todo[j] > conn'[c].last
    <3>1. conn[c].todo[1] < conn[c].todo[j + 1]
      BY <2>2, <2>3
    <3>2. conn[c].todo[j + 1] \in Int /\ conn[c].todo[1] \in Int
      BY <1>2, <1>3, <2>1, ElementOfSeq, SeqsAreInts
    <3> QED BY <1>3, <2>1, <3>1, <3>2
  <2>5. ASSUME NEW i \in 1..j - 1 PROVE conn'[c].todo[i] < conn'[c].todo[j]
    <3>1. i + 1 \in 1..j /\ conn'[c].todo[i] = conn[c].todo[i + 1]
      BY <1>3
    <3> QED BY <2>1, <2>2, <3>1
  <2> QED BY <2>4, <2>5
<1>5. conn'[c].last = Unlogged \/ conn'[c].last > conn[c].last
  <2>1. 1 \in 1..Len(conn[c].todo)
    BY <1>3
  <2> QED BY <1>2, <1>3, <2>1, SeqsAreInts DEF GoesUp
<1> QED BY <1>4, <1>5

LEMMA LoadRingGoesUp ==
  ASSUME Shape, PublishOrder, late = {}, NEW c \in Clients, LoadRing(c)
  PROVE  GoesUp(conn'[c])
<1>1. conn'[c].todo = ring /\ conn'[c].last = 0
  BY LoadRingDoes DEF Shape, Quiet, LoadRing
<1>2. \A j \in 1..Len(ring) : \A i \in 1..j - 1 : ring[j] > 0 => ring[i] < ring[j]
  <2> TAKE j \in 1..Len(ring)
  <2> TAKE i \in 1..j - 1
  <2>1. i \in 1..Len(ring) /\ i < j
    BY Numbers
  <2> QED BY <2>1 DEF PublishOrder, RingGoesUp
<1> QED BY <1>1, <1>2 DEF GoesUp

LEMMA LoadRowsGoesUp ==
  ASSUME Shape, NEW c \in Clients, LoadRows(c)
  PROVE  GoesUp(conn'[c])
<1>1. conn'[c].last = 0 /\ conn[c].todo = <<>>
  BY LoadRowsDoes DEF Shape, Quiet, LoadRows
<1>2. conn'[c].todo = Since(lastSeq[c]) \/ conn'[c].todo = <<>>
  BY <1>1, LoadRowsDoes DEF Shape
<1>3. PICK rows : rows = Since(lastSeq[c])
  OBVIOUS
<1>4. Len(rows) \in Nat /\ lastSeq[c] \in Nat /\ \A i \in 1..Len(rows) : rows[i] = lastSeq[c] + i
  BY <1>3, SinceIs, Histories DEF Shape
<1>5. CASE conn'[c].todo = rows
  <2>1. \A j \in 1..Len(rows) : rows[j] > 0 /\ \A i \in 1..j - 1 : rows[i] < rows[j]
    BY <1>4
  <2> QED BY <1>1, <1>5, <2>1 DEF GoesUp
<1> QED BY <1>2, <1>3, <1>5, NothingGoesUp

LEMMA BacklogStep ==
  Shape /\ PublishOrder /\ BacklogGoesUp /\ [Next]_vars => BacklogGoesUp'
<1> SUFFICES ASSUME Shape, PublishOrder, BacklogGoesUp, [Next]_vars, late' = {}, NEW c \in Clients
             PROVE  GoesUp(conn'[c])
  BY DEF BacklogGoesUp
<1>1. late = {} /\ GoesUp(conn[c])
  BY LateGrows DEF BacklogGoesUp
<1>2. CASE Subscribe(c)
  BY <1>2, SubscribeDoes, NothingGoesUp DEF Shape
<1>3. CASE Forward(c) \/ Lag(c)
  BY <1>3, ForwardDoes, LagDoes, NothingGoesUp DEF Shape
<1>4. CASE Receive(c)
  <2>1. conn'[c].todo = conn[c].todo /\ conn'[c].last = conn[c].last
    BY <1>4, ReceiveDoes DEF Shape
  <2> QED BY <1>1, <2>1 DEF GoesUp
<1>5. CASE Blip(c) \/ Crash
  BY <1>5, BlipDoes, CrashDoes, ClosedIs, NothingGoesUp DEF Shape
<1>6. CASE Replay(c)
  BY <1>1, <1>6, ReplayGoesUp
<1>7. CASE LoadRing(c) \/ LoadRows(c)
  BY <1>1, <1>7, LoadRingGoesUp, LoadRowsGoesUp
<1> QED BY <1>1, <1>2, <1>3, <1>4, <1>5, <1>6, <1>7, ClientMoves DEF SocketStep

LEMMA InitBacklog == Init => BacklogGoesUp
<1> SUFFICES ASSUME Init, NEW c \in Clients PROVE GoesUp(conn[c])
  BY DEF BacklogGoesUp
<1> QED BY ClosedIs, NothingGoesUp DEF Init

InOrder ==
  \A c \in Clients :
    /\ late' = {} /\ conn[c].stage = "open" /\ conn'[c].stage = "open"
    /\ conn'[c].last \notin {conn[c].last, Unlogged}
    => conn'[c].last > conn[c].last

LEMMA OrderKeptStep == Shape /\ BacklogGoesUp /\ [Next]_vars => InOrder
<1> SUFFICES ASSUME Shape, BacklogGoesUp, [Next]_vars, NEW c \in Clients,
                    late' = {}, conn[c].stage = "open", conn'[c].stage = "open",
                    conn'[c].last \notin {conn[c].last, Unlogged}
             PROVE  conn'[c].last > conn[c].last
  BY DEF InOrder
<1>1. late = {}
  BY LateGrows
<1>2. CASE Replay(c)
  BY <1>1, <1>2, ReplayGoesUp
<1>3. CASE Forward(c)
  <2>1. PICK env \in Seqs : conn'[c].last = env /\ (env <= 0 \/ conn[c].last < env)
    BY <1>3, ForwardDoes DEF Shape
  <2>2. conn[c].last \in Seqs \cup {0}
    BY Fits DEF Connection
  <2> QED BY <2>1, <2>2, SeqsAreInts
<1>4. CASE Subscribe(c) \/ LoadRing(c) \/ LoadRows(c)
  BY <1>4 DEF Subscribe, LoadRing, LoadRows
<1>5. CASE Lag(c) \/ Receive(c)
  BY <1>5, LagDoes, ReceiveDoes DEF Shape
<1>6. CASE Blip(c) \/ Crash
  BY <1>6, BlipDoes, CrashDoes, ClosedIs DEF Shape
<1> QED BY <1>2, <1>3, <1>4, <1>5, <1>6, ClientMoves DEF SocketStep

\* While a connection is open the numbers a client receives over it go up, across the seam
\* between backlog and live events, as long as no publish overtook another (the cursor of
\* handle_socket).  Of two connections of one client it says nothing: what the second one
\* brings is the matter of NothingLost.
THEOREM OrderKept == Spec => DeliversInOrder
<1>1. Init => Shape /\ PublishOrder /\ BacklogGoesUp
  BY InitShape, InitOrder, InitBacklog
<1>2. Shape /\ PublishOrder /\ BacklogGoesUp /\ [Next]_vars
        => (Shape /\ PublishOrder /\ BacklogGoesUp)'
  BY ShapeStep, OrderStep, BacklogStep
<1>3. Shape /\ BacklogGoesUp /\ [Next]_vars => [InOrder]_vars
  BY OrderKeptStep
<1>4. Spec => [][InOrder]_vars
  BY <1>1, <1>2, <1>3, PTL DEF Spec
<1> QED BY <1>4 DEF DeliversInOrder, InOrder
-----------------------------------------------------------------------------
(***************************************************************************)
(* Nothing is lost on the way to a client                                  *)
(***************************************************************************)

LEMMA Known ==
  ASSUME Shape, NEW c \in Clients
  PROVE  /\ base[c] \in Nat /\ lastSeq[c] \in Nat /\ lastSeq[c] <= log /\ log \in Nat
         /\ conn[c].pos \in Nat /\ conn[c].pos <= Len(sent) /\ Len(sent) \in Nat
         /\ conn[c].last \in Int /\ conn[c].last <= log
         /\ conn[c].wire \in Seq(Seqs) /\ Len(conn[c].wire) \in Nat
         /\ conn[c].todo \in Seq(Seqs) /\ Len(conn[c].todo) \in Nat
         /\ \A i \in 1..Len(conn[c].wire) : conn[c].wire[i] \in Int /\ conn[c].wire[i] <= log
         /\ \A i \in 1..Len(conn[c].todo) : conn[c].todo[i] \in Int /\ conn[c].todo[i] <= log
<1>1. /\ conn[c].pos \in Nat /\ conn[c].last \in Seqs \cup {0}
      /\ conn[c].wire \in Seq(Seqs) /\ conn[c].todo \in Seq(Seqs) /\ SocketFits(conn[c])
  BY Fits DEF Connection
<1>2. Len(conn[c].wire) \in Nat /\ Len(conn[c].todo) \in Nat /\ conn[c].last \in Int
  <2>1. PICK w \in Seq(Seqs), t \in Seq(Seqs) : w = conn[c].wire /\ t = conn[c].todo
    BY <1>1
  <2>2. Len(w) \in Nat /\ Len(t) \in Nat
    BY LenProperties
  <2>3. PICK l \in Seqs \cup {0} : l = conn[c].last
    BY <1>1
  <2>4. l \in Int
    BY SeqsAreInts
  <2> QED BY <2>1, <2>2, <2>3, <2>4
<1>3. /\ \A i \in 1..Len(conn[c].wire) : conn[c].wire[i] \in Int
      /\ \A i \in 1..Len(conn[c].todo) : conn[c].todo[i] \in Int
  BY <1>1, ElementOfSeq, SeqsAreInts
<1>4. base[c] \in Nat /\ lastSeq[c] \in Nat /\ lastSeq[c] <= log /\ log \in Nat
  BY Histories
<1> QED BY <1>1, <1>2, <1>3, <1>4, Numbers DEF SocketFits

\* Nothing is asked of a socket that is not open.
LEMMA NotOpen ==
  ASSUME Shape, NEW c \in Clients, conn[c].stage # "open"
  PROVE  Complete(c)
<1>1. conn[c].todo = <<>> /\ conn[c].wire = <<>> /\ conn[c].last = 0
  BY DEF Shape, Quiet
<1>2. Len(conn[c].todo) = 0 /\ Len(conn[c].wire) = 0 /\ base[c] \in Nat
  BY <1>1, Known, EmptyInSeqs
<1>3. SentUpTo(c)
  BY <1>1, <1>2 DEF SentUpTo
<1>4. OnItsWay(c) /\ AheadInOrder(c)
  BY DEF OnItsWay, AheadInOrder
<1>5. WireInOrder(c) /\ TodoInOrder(c)
  BY <1>2 DEF WireInOrder, TodoInOrder
<1> QED BY <1>3, <1>4, <1>5 DEF Complete

\* A number smaller than one that is broadcast, or about to be, and that is itself not yet
\* in the channel is overtaken.
LEMMA Overtaken ==
  ASSUME Shape, PublishOrder, NEW q \in publishing, q.seq > 0
  PROVE  /\ q.step = "ring" => \A i \in 1..Len(ring) : q.seq < ring[i] => q.seq \in late
         /\ q.step = "ring" => \A i \in 1..Len(sent) : q.seq < sent[i] => q.seq \in late
         /\ \A p \in publishing : p.step = "send" /\ q.seq < p.seq => q.seq \in late
<1>1. q.seq \in Int /\ q.step \in {"ring", "send"}
  BY Numbers
<1>2. ASSUME q.step = "ring", q.seq \notin late
      PROVE  /\ \A i \in 1..Len(ring) : ~(q.seq < ring[i])
             /\ \A i \in 1..Len(sent) : ~(q.seq < sent[i])
             /\ \A p \in publishing : p.step = "send" => ~(q.seq < p.seq)
  <2>1. /\ \A i \in 1..Len(ring) : ring[i] < q.seq
        /\ \A i \in 1..Len(sent) : sent[i] < q.seq
        /\ \A p \in publishing : p.step = "send" => p.seq < q.seq
    BY <1>2 DEF PublishOrder, RingOvertakes
  <2> QED BY <1>1, <2>1, Numbers
<1>3. ASSUME q.step = "send", q.seq \notin late
      PROVE  \A p \in publishing : p.step = "send" => ~(q.seq < p.seq)
  <2>1. \A p \in publishing : p.step = "send" => p.seq <= q.seq
    BY <1>3 DEF PublishOrder, SendOvertakes
  <2> QED BY <1>1, <2>1, Numbers
<1> QED BY <1>1, <1>2, <1>3

\* What a client has only grows.
LEMMA AccountedGrows ==
  ASSUME Shape, [Next]_vars, NEW c \in Clients
  PROVE  Accounted(c) \subseteq Accounted(c)'
<1>1. late \subseteq late'
  BY LateGrows
<1>2. CASE /\ got'[c] = got[c] /\ skipped'[c] = skipped[c]
  BY <1>1, <1>2 DEF Accounted
<1>3. CASE Subscribe(c) \/ Replay(c) \/ Forward(c) \/ Blip(c) \/ Crash
  BY <1>1, <1>3 DEF Accounted, Subscribe, Replay, Forward, Blip, Crash
<1>4. CASE LoadRing(c) \/ Lag(c)
  BY <1>1, <1>4, Histories DEF Accounted, LoadRing, Lag
<1>5. CASE LoadRows(c)
  <2>1. \E x : skipped' = [skipped EXCEPT ![c] = @ \cup x]
    BY <1>5, LoadRowsDoes DEF Shape
  <2>2. got' = got
    BY <1>5 DEF LoadRows
  <2> QED BY <1>1, <2>1, <2>2, Histories DEF Accounted
<1>6. CASE Receive(c)
  <2>1. got[c] \subseteq got'[c]
    BY <1>6, Histories DEF Receive
  <2>2. skipped' = skipped
    BY <1>6 DEF Receive
  <2> QED BY <1>1, <2>1, <2>2 DEF Accounted
<1> QED BY <1>2, <1>3, <1>4, <1>5, <1>6, ClientMoves DEF SocketStep

\* No event of the log is lost between the steps of its publisher.
LEMMA ServerKeeps ==
  ASSUME Shape, [Next]_vars, ~Crash
  PROVE  /\ log' \in Nat
         /\ \A s \in 1..log' : s \in 1..log \/ s \in late' \/ s \in Publishing'
         /\ \/ UNCHANGED sent /\ Publishing \subseteq Publishing'
            \/ \E e \in publishing : Send(e)
<1>1. CASE \E e \in [by : Publishers \cup Clients, seq : Seqs, step : {"ring"}] :
             /\ publishing' = publishing \cup {e}
             /\ \/ e.seq = log + 1 /\ log' = log + 1
                \/ e.seq = Unlogged /\ log' = log
             /\ UNCHANGED <<up, ring, sent, late>>
  <2>1. Publishing \subseteq Publishing'
    BY <1>1 DEF Publishing
  <2>2. log' \in Nat /\ (log' = log \/ (log' = log + 1 /\ log + 1 \in Publishing'))
    BY <1>1, ServerFits DEF Publishing
  <2>3. \A s \in 1..log' : s \in 1..log \/ s \in Publishing'
    BY <2>2, ServerFits
  <2> QED BY <1>1, <2>1, <2>2, <2>3
<1>2. CASE \E e \in publishing : PushRing(e)
  <2>1. PICK e \in publishing : PushRing(e)
    BY <1>2
  <2>2. PICK s \in [by : Publishers \cup Clients, seq : Seqs, step : {"send"}] :
          s.seq = e.seq /\ publishing' = (publishing \ {e}) \cup {s}
    BY <2>1, PushDoes DEF Shape
  <2>3. \A q \in publishing : q \in publishing' \/ q.seq = s.seq
    BY <2>2
  <2>4. s \in publishing'
    BY <2>2
  <2>5. Publishing \subseteq Publishing'
    BY <2>3, <2>4 DEF Publishing
  <2> QED BY <2>1, <2>5, ServerFits DEF PushRing
<1>3. CASE \E e \in publishing : Send(e)
  BY <1>3, ServerFits DEF Send
<1>4. CASE PublishElsewhere
  <2>1. log' = log + 1 /\ log + 1 \in late' /\ UNCHANGED <<publishing, sent>>
    BY <1>4 DEF PublishElsewhere
  <2> QED BY <2>1, ServerFits DEF Publishing
<1>5. CASE Restart \/ UNCHANGED <<up, log, publishing, ring, sent, late>>
  BY <1>5, ServerFits DEF Restart, Publishing
<1> QED BY <1>1, <1>2, <1>3, <1>4, <1>5, ServerMoves DEF ServerMove

\* A broadcast is behind everything with a smaller number.
LEMMA SendComplete ==
  ASSUME Shape, PublishOrder, NEW c \in Clients, Complete(c), conn[c].stage = "open",
         NEW e \in publishing, Send(e)
  PROVE  OnItsWay(c)' /\ AheadInOrder(c)'
<1>1. /\ e.step = "send" /\ e.seq \in Int /\ e.seq <= log
      /\ publishing' = publishing \ {e}
      /\ Len(sent) \in Nat /\ Len(sent') = Len(sent) + 1
      /\ \A i \in 1..Len(sent) : sent'[i] = sent[i]
      /\ sent'[Len(sent) + 1] = e.seq
  BY SendDoes, Numbers DEF Shape
<1>2. UNCHANGED <<log, conn, base, got, late, skipped>>
  BY DEF Send
<1>3. Accounted(c)' = Accounted(c) /\ OnWire(c)' = OnWire(c) /\ InTodo(c)' = InTodo(c)
  BY <1>2 DEF Accounted, OnWire, InTodo
<1>4. conn[c].pos \in Nat /\ conn[c].pos <= Len(sent) /\ base[c] \in Nat /\ log \in Nat
  BY Known
<1>5. \A i \in conn[c].pos + 1 .. Len(sent') : i \in conn[c].pos + 1 .. Len(sent) \/ i = Len(sent) + 1
  BY <1>1, <1>4
<1>6. \A i \in conn[c].pos + 1 .. Len(sent) : i \in 1..Len(sent) /\ i \in conn[c].pos + 1 .. Len(sent')
  BY <1>1, <1>4
<1>7. Len(sent) + 1 \in conn[c].pos + 1 .. Len(sent')
  BY <1>1, <1>4
<1>8. Ahead(c) \subseteq Ahead(c)' /\ e.seq \in Ahead(c)'
  BY <1>1, <1>2, <1>6, <1>7 DEF Ahead
<1>9. Publishing \subseteq Publishing' \cup {e.seq}
  BY <1>1 DEF Publishing
<1>10. \A s \in base[c] + 1 .. log :
         s \in Accounted(c) \cup OnWire(c) \cup InTodo(c) \cup Ahead(c) \cup Publishing
  BY DEF Complete, OnItsWay
<1>11. OnItsWay(c)'
  <2>1. \A s \in base[c] + 1 .. log :
          s \in Accounted(c)' \cup OnWire(c)' \cup InTodo(c)' \cup Ahead(c)' \cup Publishing'
    BY <1>3, <1>8, <1>9, <1>10
  <2> QED BY <1>2, <2>1 DEF OnItsWay
<1>12. ASSUME NEW s \in base[c] + 1 .. e.seq - 1
       PROVE  \/ s \in Accounted(c) \cup OnWire(c) \cup InTodo(c)
              \/ \E j \in conn[c].pos + 1 .. Len(sent) : sent[j] = s
  <2>1. s \in base[c] + 1 .. log /\ s > 0 /\ s < e.seq
    BY <1>1, <1>4
  <2>2. ASSUME s \in Publishing PROVE s \in late
    <3>1. PICK q \in publishing : q.seq = s
      BY <2>2 DEF Publishing
    <3> QED BY <1>1, <2>1, <3>1, Overtaken
  <2>3. ASSUME s \in Ahead(c) PROVE \E j \in conn[c].pos + 1 .. Len(sent) : sent[j] = s
    BY <2>3 DEF Ahead
  <2> QED BY <1>10, <2>1, <2>2, <2>3 DEF Accounted
<1>13. AheadInOrder(c)'
  <2> SUFFICES ASSUME NEW i \in conn[c].pos + 1 .. Len(sent'), NEW s \in base[c] + 1 .. sent'[i] - 1
               PROVE  \/ s \in Accounted(c) \cup OnWire(c) \cup InTodo(c)
                      \/ \E j \in conn[c].pos + 1 .. i - 1 : sent'[j] = s
    BY <1>2, <1>3 DEF AheadInOrder
  <2>1. CASE i \in conn[c].pos + 1 .. Len(sent)
    <3>1. sent'[i] = sent[i]
      BY <1>1, <1>6, <2>1
    <3>2. \/ s \in Accounted(c) \cup OnWire(c) \cup InTodo(c)
          \/ \E j \in conn[c].pos + 1 .. i - 1 : sent[j] = s
      BY <2>1, <3>1 DEF Complete, AheadInOrder
    <3>3. \A j \in conn[c].pos + 1 .. i - 1 : sent'[j] = sent[j]
      BY <1>1, <1>4, <2>1
    <3> QED BY <3>2, <3>3
  <2>2. CASE i = Len(sent) + 1
    <3>1. i - 1 = Len(sent) /\ \A j \in conn[c].pos + 1 .. Len(sent) : sent'[j] = sent[j]
      BY <1>1, <1>6, <2>2
    <3> QED BY <1>1, <1>12, <2>2, <3>1
  <2> QED BY <1>5, <2>1, <2>2
<1> QED BY <1>11, <1>13

\* Any step that is not the client's own.
LEMMA ServerComplete ==
  ASSUME Shape, PublishOrder, [Next]_vars, NEW c \in Clients, Complete(c),
         conn[c].stage = "open", conn'[c] = conn[c], base'[c] = base[c]
  PROVE  Complete(c)'
<1>1. Accounted(c) \subseteq Accounted(c)'
  BY AccountedGrows
<1>2. OnWire(c)' = OnWire(c) /\ InTodo(c)' = InTodo(c)
  BY DEF OnWire, InTodo
<1>3. WireInOrder(c)' /\ TodoInOrder(c)' /\ SentUpTo(c)'
  BY <1>1, <1>2 DEF Complete, WireInOrder, TodoInOrder, SentUpTo
<1>4. ~Crash
  BY CrashDoes, ClosedIs DEF Shape
<1>5. CASE UNCHANGED sent /\ Publishing \subseteq Publishing'
  <2>1. Ahead(c)' = Ahead(c)
    BY <1>5 DEF Ahead
  <2>2. AheadInOrder(c)'
    BY <1>1, <1>2, <1>5 DEF Complete, AheadInOrder
  <2>3. OnItsWay(c)'
    <3> SUFFICES ASSUME NEW s \in base[c] + 1 .. log'
                 PROVE  s \in Accounted(c)' \cup OnWire(c)' \cup InTodo(c)' \cup Ahead(c)'
                              \cup Publishing'
      BY DEF OnItsWay
    <3>1. s \in 1..log'
      BY <1>4, ServerKeeps, Known
    <3>2. CASE s \in late' \/ s \in Publishing'
      BY <3>2 DEF Accounted
    <3>3. CASE s \in 1..log
      <4>1. s \in base[c] + 1 .. log
        BY <3>3, Known
      <4> QED BY <1>1, <1>2, <1>5, <2>1, <4>1 DEF Complete, OnItsWay
    <3> QED BY <1>4, <3>1, <3>2, <3>3, ServerKeeps
  <2> QED BY <1>3, <2>2, <2>3 DEF Complete
<1>6. CASE \E e \in publishing : Send(e)
  BY <1>3, <1>6, SendComplete DEF Complete
<1> QED BY <1>4, <1>5, <1>6, ServerKeeps

\* The ring as backlog: what it lacks was skipped, is being pushed, or was overtaken.
LEMMA LoadRingComplete ==
  ASSUME Shape, PublishOrder, [Next]_vars, NEW c \in Clients, LoadRing(c)
  PROVE  Complete(c)'
<1>1. /\ conn'[c].stage = "open" /\ conn'[c].pos = conn[c].pos
      /\ conn'[c].last = 0 /\ conn'[c].todo = ring /\ conn'[c].wire = <<>>
  BY LoadRingDoes DEF Shape, Quiet, LoadRing
<1>2. UNCHANGED <<log, publishing, sent, base, got, late>>
  BY DEF LoadRing
<1>3. \A s \in base[c] + 1 .. log : s \in skipped'[c] \/ s \in Elements(ring) \/ AtRing(s)
  BY Histories DEF LoadRing, AtRing
<1>4. /\ ring \in Seq(Seqs) /\ Len(ring) \in Nat /\ base[c] \in Nat /\ log \in Nat
      /\ conn[c].pos \in Nat /\ Len(sent) \in Nat
      /\ \A i \in 1..Len(ring) : ring[i] \in Int /\ ring[i] <= log
      /\ \A i \in 1..Len(sent) : sent[i] \in Int /\ sent[i] <= log
  BY Known, ServerFits, Numbers
<1>5. skipped'[c] \subseteq Accounted(c)' /\ late \subseteq Accounted(c)'
  BY <1>2 DEF Accounted
<1>6. InTodo(c)' = Elements(ring)
  BY <1>1 DEF InTodo
<1>7. OnItsWay(c)'
  <2>1. \A s : AtRing(s) => s \in Publishing'
    BY <1>2 DEF AtRing, Publishing
  <2>2. \A s \in base[c] + 1 .. log :
          s \in Accounted(c)' \cup OnWire(c)' \cup InTodo(c)' \cup Ahead(c)' \cup Publishing'
    BY <1>3, <1>5, <1>6, <2>1
  <2> QED BY <1>2, <2>2 DEF OnItsWay
<1>8. WireInOrder(c)' /\ SentUpTo(c)'
  <2>1. Len(conn'[c].wire) = 0
    BY <1>1, EmptyInSeqs
  <2> QED BY <1>1, <1>2, <1>4, <2>1 DEF WireInOrder, SentUpTo
<1>9. TodoInOrder(c)'
  <2> SUFFICES ASSUME NEW i \in 1..Len(ring), NEW s \in base[c] + 1 .. ring[i] - 1
               PROVE  s \in Accounted(c)' \/ \E j \in 1..i - 1 : ring[j] = s
    BY <1>1, <1>2 DEF TodoInOrder
  <2>1. s \in base[c] + 1 .. log /\ s > 0 /\ s < ring[i]
    BY <1>4
  <2>2. CASE s \in skipped'[c]
    BY <1>5, <2>2
  <2>3. CASE AtRing(s)
    <3>1. PICK q \in publishing : q.step = "ring" /\ q.seq = s
      BY <2>3 DEF AtRing
    <3>2. s \in late
      BY <2>1, <3>1, Overtaken
    <3> QED BY <1>5, <3>2
  <2>4. CASE s \in Elements(ring)
    <3>1. PICK j \in 1..Len(ring) : ring[j] = s
      BY <1>4, <2>4, ElementsOf
    <3>2. j # i
      BY <2>1, <3>1
    <3>3. CASE j < i
      BY <3>1, <3>3
    <3>4. CASE i < j
      <4>1. ring[i] < ring[j] \/ ring[j] \in late
        BY <2>1, <3>1, <3>4 DEF PublishOrder, RingGoesUp
      <4> QED BY <1>4, <1>5, <2>1, <3>1, <4>1
    <3> QED BY <3>2, <3>3, <3>4
  <2> QED BY <1>3, <2>1, <2>2, <2>3, <2>4
<1>10. AheadInOrder(c)'
  <2> SUFFICES ASSUME NEW i \in conn[c].pos + 1 .. Len(sent), NEW s \in base[c] + 1 .. sent[i] - 1
               PROVE  s \in Accounted(c)' \cup InTodo(c)'
    BY <1>1, <1>2 DEF AheadInOrder
  <2>1. i \in 1..Len(sent)
    BY <1>4
  <2>2. s \in base[c] + 1 .. log /\ s > 0 /\ s < sent[i]
    BY <1>4, <2>1
  <2>3. CASE AtRing(s)
    <3>1. PICK q \in publishing : q.step = "ring" /\ q.seq = s
      BY <2>3 DEF AtRing
    <3>2. s \in late
      BY <2>1, <2>2, <3>1, Overtaken
    <3> QED BY <1>5, <3>2
  <2> QED BY <1>3, <1>5, <1>6, <2>2, <2>3
<1> QED BY <1>7, <1>8, <1>9, <1>10 DEF Complete

\* Rows as backlog: everything up to the last number is accounted for, the rows are the
\* next ones, and the rest was skipped.
LEMMA LoadRowsComplete ==
  ASSUME Shape, [Next]_vars, NEW c \in Clients, Reached(c), LoadRows(c)
  PROVE  Complete(c)'
<1>1. /\ conn'[c].stage = "open" /\ conn'[c].pos = conn[c].pos
      /\ conn'[c].last = 0 /\ conn'[c].wire = <<>> /\ conn[c].todo = <<>>
  BY LoadRowsDoes DEF Shape, Quiet, LoadRows
<1>2. UNCHANGED <<log, publishing, sent, base, got, late>>
  BY DEF LoadRows
<1>3. PICK rows \in Seq(Seqs) :
        /\ Len(rows) \in Nat /\ lastSeq[c] + Len(rows) <= log
        /\ \A i \in 1..Len(rows) : rows[i] = lastSeq[c] + i
        /\ conn'[c].todo = rows
        /\ lastSeq[c] + Len(rows) + 1 .. log \subseteq skipped'[c]
  <2>1. CASE /\ conn'[c].todo = Since(lastSeq[c])
             /\ skipped' = [skipped EXCEPT ![c] =
                  @ \cup lastSeq[c] + Len(Since(lastSeq[c])) + 1 .. log]
    <3>1. PICK rows \in Seq(Seqs) : rows = Since(lastSeq[c])
      BY SinceIs DEF Shape
    <3>2. /\ Len(rows) \in Nat /\ lastSeq[c] + Len(rows) <= log
          /\ \A i \in 1..Len(rows) : rows[i] = lastSeq[c] + i
      BY <3>1, SinceIs DEF Shape
    <3>3. lastSeq[c] + Len(rows) + 1 .. log \subseteq skipped'[c]
      BY <2>1, <3>1, Histories
    <3> QED BY <2>1, <3>1, <3>2, <3>3
  <2>2. CASE /\ conn'[c].todo = conn[c].todo
             /\ skipped' = [skipped EXCEPT ![c] = @ \cup lastSeq[c] + 1 .. log]
    <3>1. lastSeq[c] + 1 .. log \subseteq skipped'[c]
      BY <2>2, Histories
    <3>2. PICK rows \in Seq(Seqs) : rows = <<>> /\ Len(rows) = 0
      BY EmptyInSeqs
    <3>3. lastSeq[c] + Len(rows) + 1 = lastSeq[c] + 1 /\ lastSeq[c] + Len(rows) <= log
      BY <3>2, Known
    <3>4. conn'[c].todo = rows /\ Len(rows) \in Nat /\ \A i \in 1..Len(rows) : FALSE
      BY <1>1, <2>2, <3>2
    <3> QED BY <3>1, <3>3, <3>4
  <2> QED BY <2>1, <2>2, LoadRowsDoes DEF Shape
<1>4. /\ base[c] \in Nat /\ log \in Nat /\ lastSeq[c] \in Nat /\ conn[c].pos \in Nat
      /\ Len(sent) \in Nat
      /\ \A i \in 1..Len(sent) : sent[i] \in Int /\ sent[i] <= log
  BY Known, Numbers
<1>5. Accounted(c) \subseteq Accounted(c)' /\ skipped'[c] \subseteq Accounted(c)'
  BY AccountedGrows DEF Accounted
<1>6. \A s \in base[c] + 1 .. lastSeq[c] : s \in Accounted(c)'
  BY <1>5 DEF Reached
<1>7. InTodo(c)' = Elements(rows)
  BY <1>3 DEF InTodo
<1>8. ASSUME NEW s \in base[c] + 1 .. log
      PROVE  s \in Accounted(c)' \/ \E j \in 1..Len(rows) : s = lastSeq[c] + j
  <2>1. CASE s <= lastSeq[c]
    BY <1>4, <1>6, <2>1
  <2>2. CASE s > lastSeq[c] + Len(rows)
    <3>1. s \in lastSeq[c] + Len(rows) + 1 .. log
      BY <1>3, <1>4, <2>2
    <3> QED BY <1>3, <1>5, <3>1
  <2>3. CASE lastSeq[c] < s /\ s <= lastSeq[c] + Len(rows)
    <3>1. s - lastSeq[c] \in 1..Len(rows) /\ s = lastSeq[c] + (s - lastSeq[c])
      BY <1>3, <1>4, <2>3
    <3> QED BY <3>1
  <2> QED BY <1>3, <1>4, <2>1, <2>2, <2>3
<1>9. \A s \in base[c] + 1 .. log : s \in Accounted(c)' \cup InTodo(c)'
  <2>1. \A j \in 1..Len(rows) : lastSeq[c] + j \in Elements(rows)
    BY <1>3, ElementsOf
  <2> QED BY <1>7, <1>8, <2>1
<1>10. OnItsWay(c)'
  BY <1>2, <1>9 DEF OnItsWay
<1>11. WireInOrder(c)' /\ SentUpTo(c)'
  <2>1. Len(conn'[c].wire) = 0
    BY <1>1, EmptyInSeqs
  <2> QED BY <1>1, <1>2, <1>4, <2>1 DEF WireInOrder, SentUpTo
<1>12. TodoInOrder(c)'
  <2> SUFFICES ASSUME NEW i \in 1..Len(rows), NEW s \in base[c] + 1 .. rows[i] - 1
               PROVE  s \in Accounted(c)' \/ \E j \in 1..i - 1 : rows[j] = s
    BY <1>2, <1>3 DEF TodoInOrder
  <2>1. rows[i] = lastSeq[c] + i
    BY <1>3
  <2>2. s \in base[c] + 1 .. log /\ s < lastSeq[c] + i
    BY <1>3, <1>4, <2>1
  <2>3. ASSUME NEW j \in 1..Len(rows), s = lastSeq[c] + j
        PROVE  j \in 1..i - 1 /\ rows[j] = s
    BY <1>3, <1>4, <2>2, <2>3
  <2> QED BY <1>8, <2>2, <2>3
<1>13. AheadInOrder(c)'
  <2> SUFFICES ASSUME NEW i \in conn[c].pos + 1 .. Len(sent), NEW s \in base[c] + 1 .. sent[i] - 1
               PROVE  s \in Accounted(c)' \cup InTodo(c)'
    BY <1>1, <1>2 DEF AheadInOrder
  <2>1. i \in 1..Len(sent)
    BY <1>4
  <2>2. s \in base[c] + 1 .. log
    BY <1>4, <2>1
  <2> QED BY <1>9, <2>2
<1> QED BY <1>10, <1>11, <1>12, <1>13 DEF Complete

\* A wire with one message more, where everything before that message is accounted for.
LEMMA WrittenInOrder ==
  ASSUME Shape, [Next]_vars, NEW c \in Clients, Complete(c), base'[c] = base[c],
         NEW e \in Seqs, conn'[c].wire = Append(conn[c].wire, e), conn'[c].last = e,
         \A s \in base[c] + 1 .. e - 1 : s \in Accounted(c) \cup OnWire(c)
  PROVE  OnWire(c)' = OnWire(c) \cup {e} /\ WireInOrder(c)' /\ SentUpTo(c)'
<1>1. PICK w \in Seq(Seqs) : w = conn[c].wire
  BY Known
<1>2. /\ Append(w, e) \in Seq(Seqs) /\ Len(Append(w, e)) = Len(w) + 1 /\ Len(w) \in Nat
      /\ \A i \in 1..Len(w) : Append(w, e)[i] = w[i]
      /\ Append(w, e)[Len(w) + 1] = e
      /\ Elements(Append(w, e)) = Elements(w) \cup {e}
  BY AppendProperties, LenProperties, ElementsOfAppend
<1>3. PICK v : v = conn'[c].wire
  OBVIOUS
<1>4. /\ Len(v) = Len(w) + 1 /\ \A i \in 1..Len(w) : v[i] = w[i]
      /\ v[Len(w) + 1] = e
  BY <1>1, <1>2, <1>3
<1>5. OnWire(c)' = OnWire(c) \cup {e}
  BY <1>1, <1>2 DEF OnWire
<1>6. Accounted(c) \subseteq Accounted(c)' /\ base[c] \in Nat /\ e \in Int
  BY AccountedGrows, Known, SeqsAreInts
<1>7. WireInOrder(c)'
  <2> SUFFICES ASSUME NEW i \in 1..Len(v), NEW s \in base[c] + 1 .. v[i] - 1
               PROVE  s \in Accounted(c)' \/ \E j \in 1..i - 1 : v[j] = s
    BY <1>3 DEF WireInOrder
  <2>1. CASE i \in 1..Len(w)
    <3>1. v[i] = w[i] /\ \A j \in 1..i - 1 : v[j] = w[j]
      BY <1>2, <1>4, <2>1
    <3>2. s \in Accounted(c) \/ \E j \in 1..i - 1 : w[j] = s
      BY <1>1, <2>1, <3>1 DEF Complete, WireInOrder
    <3> QED BY <1>6, <3>1, <3>2
  <2>2. CASE i = Len(w) + 1
    <3>1. s \in Accounted(c) \cup OnWire(c)
      BY <1>4, <2>2
    <3>2. CASE s \in OnWire(c)
      <4>1. PICK j \in 1..Len(w) : w[j] = s
        BY <1>1, <3>2, ElementsOf DEF OnWire
      <4>2. j \in 1..i - 1 /\ v[j] = s
        BY <1>2, <1>4, <2>2, <4>1
      <4> QED BY <4>2
    <3> QED BY <1>6, <3>1, <3>2
  <2> QED BY <1>2, <1>4, <2>1, <2>2
<1>8. SentUpTo(c)'
  <2> SUFFICES ASSUME NEW s \in base[c] + 1 .. e PROVE s \in Accounted(c)' \cup OnWire(c)'
    BY DEF SentUpTo
  <2>1. s = e \/ s \in base[c] + 1 .. e - 1
    BY <1>6
  <2> QED BY <1>5, <1>6, <2>1
<1> QED BY <1>5, <1>7, <1>8

LEMMA ReplayComplete ==
  ASSUME Shape, [Next]_vars, NEW c \in Clients, Complete(c), Replay(c)
  PROVE  Complete(c)'
<1>1. UNCHANGED <<log, publishing, sent, base, got, late, skipped>> /\ conn[c].stage = "open"
  BY DEF Replay
<1>2. PICK t \in Seq(Seqs) : t = conn[c].todo
  BY Known
<1>3. /\ conn'[c].pos = conn[c].pos /\ t # <<>> /\ conn'[c].todo = Tail(t)
      /\ conn'[c].last = Head(t) /\ conn'[c].wire = Append(conn[c].wire, Head(t))
  BY <1>2, ReplayDoes DEF Shape
<1>4. PICK u : u = Tail(t)
  OBVIOUS
<1>5. PICK e \in Seqs : e = Head(t)
  BY <1>3, ElementsOfTail
<1>6. /\ Elements(t) = {e} \cup Elements(u) /\ Len(u) = Len(t) - 1 /\ Len(t) \in Nat \ {0}
      /\ e = t[1] /\ \A i \in 1..Len(u) : u[i] = t[i + 1]
  BY <1>3, <1>4, <1>5, ElementsOfTail
<1>7. InTodo(c) = {e} \cup InTodo(c)'
  BY <1>2, <1>3, <1>4, <1>6 DEF InTodo
<1>8. \A s \in base[c] + 1 .. e - 1 : s \in Accounted(c) \cup OnWire(c)
  <2>1. 1 \in 1..Len(t) /\ \A j \in 1..1 - 1 : FALSE
    BY <1>6
  <2> QED BY <1>2, <1>6, <2>1 DEF Complete, TodoInOrder
<1>9. OnWire(c)' = OnWire(c) \cup {e} /\ WireInOrder(c)' /\ SentUpTo(c)'
  BY <1>1, <1>3, <1>5, <1>8, WrittenInOrder
<1>10. Accounted(c)' = Accounted(c) /\ Ahead(c)' = Ahead(c) /\ Publishing' = Publishing
  BY <1>1, <1>3 DEF Accounted, Ahead, Publishing
<1>11. base' = base /\ sent' = sent /\ conn'[c].pos = conn[c].pos /\ conn'[c].todo = u
  BY <1>1, <1>3, <1>4
<1>12. OnItsWay(c)'
  <2>1. \A s \in base[c] + 1 .. log :
          s \in Accounted(c)' \cup OnWire(c)' \cup InTodo(c)' \cup Ahead(c)' \cup Publishing'
    BY <1>1, <1>7, <1>9, <1>10 DEF Complete, OnItsWay
  <2> QED BY <1>1, <2>1 DEF OnItsWay
<1>13. AheadInOrder(c)'
  <2> SUFFICES ASSUME NEW i \in conn[c].pos + 1 .. Len(sent), NEW s \in base[c] + 1 .. sent[i] - 1
               PROVE  \/ s \in Accounted(c)' \cup OnWire(c)' \cup InTodo(c)'
                      \/ \E j \in conn[c].pos + 1 .. i - 1 : sent[j] = s
    BY <1>11 DEF AheadInOrder
  <2>1. \/ s \in Accounted(c) \cup OnWire(c) \cup InTodo(c)
        \/ \E j \in conn[c].pos + 1 .. i - 1 : sent[j] = s
    BY <1>1 DEF Complete, AheadInOrder
  <2> QED BY <1>7, <1>9, <1>10, <2>1
<1>14. TodoInOrder(c)'
  <2> SUFFICES ASSUME NEW i \in 1..Len(u), NEW s \in base[c] + 1 .. u[i] - 1
               PROVE  s \in Accounted(c)' \cup OnWire(c)' \/ \E j \in 1..i - 1 : u[j] = s
    BY <1>11 DEF TodoInOrder
  <2>1. i + 1 \in 1..Len(t) /\ u[i] = t[i + 1]
    BY <1>6
  <2>2. s \in Accounted(c) \cup OnWire(c) \/ \E j \in 1..i + 1 - 1 : t[j] = s
    BY <1>2, <2>1 DEF Complete, TodoInOrder
  <2>3. ASSUME NEW j \in 1..i + 1 - 1, t[j] = s
        PROVE  s = e \/ \E k \in 1..i - 1 : u[k] = s
    <3>1. CASE j = 1
      BY <1>6, <2>3, <3>1
    <3>2. CASE j # 1
      <4>1. j - 1 \in 1..i - 1 /\ j - 1 \in 1..Len(u) /\ j - 1 + 1 = j
        BY <1>6, <3>2
      <4>2. u[j - 1] = t[j - 1 + 1]
        BY <1>6, <4>1
      <4> QED BY <2>3, <4>1, <4>2
    <3> QED BY <3>1, <3>2
  <2> QED BY <1>9, <1>10, <2>2, <2>3
<1> QED BY <1>9, <1>12, <1>13, <1>14 DEF Complete

\* The next broadcast: written, or out already.
LEMMA ForwardComplete ==
  ASSUME Shape, [Next]_vars, NEW c \in Clients, Complete(c), Forward(c)
  PROVE  Complete(c)'
<1>1. UNCHANGED <<log, publishing, sent, base, got, late, skipped>>
  BY DEF Forward
<1>2. PICK env \in Seqs : env = sent[conn[c].pos + 1]
  BY ForwardDoes DEF Shape
<1>3. /\ conn[c].stage = "open" /\ conn[c].todo = <<>> /\ conn'[c].todo = <<>>
      /\ conn[c].pos + 1 \in 1..Len(sent) /\ conn'[c].pos = conn[c].pos + 1
  BY ForwardDoes DEF Shape
<1>4. \/ /\ 0 < env /\ env <= conn[c].last
         /\ conn'[c].last = conn[c].last /\ conn'[c].wire = conn[c].wire
      \/ /\ conn'[c].last = env /\ conn'[c].wire = Append(conn[c].wire, env)
  BY <1>2, ForwardDoes DEF Shape
<1>5. /\ base[c] \in Nat /\ conn[c].pos \in Nat /\ Len(sent) \in Nat /\ env \in Int
      /\ conn[c].last \in Int
  BY Known, SeqsAreInts
<1>6. InTodo(c) = {} /\ Len(conn[c].todo) = 0
  BY <1>3, ElementsOfNone, EmptyInSeqs DEF InTodo
<1>7. Ahead(c) = {env} \cup Ahead(c)'
  <2>1. conn[c].pos + 1 .. Len(sent) = {conn[c].pos + 1} \cup conn[c].pos + 2 .. Len(sent)
    BY <1>3, <1>5
  <2>2. Ahead(c)' = {sent[i] : i \in conn[c].pos + 2 .. Len(sent)}
    <3>1. conn[c].pos + 1 + 1 = conn[c].pos + 2
      BY <1>5
    <3> QED BY <1>1, <1>3, <3>1 DEF Ahead
  <2> QED BY <1>2, <2>1, <2>2 DEF Ahead
<1>8. Accounted(c)' = Accounted(c) /\ Publishing' = Publishing
  BY <1>1 DEF Accounted, Publishing
<1>9. /\ \A s \in base[c] + 1 .. log : s = env => s \in Accounted(c) \cup OnWire(c)'
      /\ OnWire(c) \subseteq OnWire(c)'
      /\ WireInOrder(c)' /\ SentUpTo(c)'
  <2>1. CASE /\ 0 < env /\ env <= conn[c].last
             /\ conn'[c].last = conn[c].last /\ conn'[c].wire = conn[c].wire
    <3>1. OnWire(c)' = OnWire(c)
      BY <2>1 DEF OnWire
    <3>2. WireInOrder(c)' /\ SentUpTo(c)'
      BY <1>1, <1>8, <2>1, <3>1 DEF Complete, WireInOrder, SentUpTo
    <3>3. ASSUME env \in base[c] + 1 .. log PROVE env \in Accounted(c) \cup OnWire(c)
      <4>1. env \in base[c] + 1 .. conn[c].last
        BY <1>5, <2>1, <3>3
      <4> QED BY <4>1 DEF Complete, SentUpTo
    <3> QED BY <3>1, <3>2, <3>3
  <2>2. CASE conn'[c].last = env /\ conn'[c].wire = Append(conn[c].wire, env)
    <3>1. conn[c].pos + 1 \in conn[c].pos + 1 .. Len(sent)
          /\ \A j \in conn[c].pos + 1 .. conn[c].pos + 1 - 1 : FALSE
      BY <1>3, <1>5
    <3>2. \A s \in base[c] + 1 .. env - 1 : s \in Accounted(c) \cup OnWire(c)
      BY <1>2, <1>3, <1>6, <3>1 DEF Complete, AheadInOrder
    <3>3. base'[c] = base[c]
      BY <1>1
    <3> QED BY <2>2, <3>2, <3>3, WrittenInOrder
  <2> QED BY <1>4, <2>1, <2>2
<1>10. base' = base /\ sent' = sent /\ log' = log /\ conn'[c].pos = conn[c].pos + 1
       /\ Len(conn'[c].todo) = 0
  BY <1>1, <1>3, <1>6
<1>11. OnItsWay(c)'
  <2>1. \A s \in base[c] + 1 .. log :
          s \in Accounted(c)' \cup OnWire(c)' \cup InTodo(c)' \cup Ahead(c)' \cup Publishing'
    BY <1>3, <1>6, <1>7, <1>8, <1>9 DEF Complete, OnItsWay
  <2> QED BY <1>10, <2>1 DEF OnItsWay
<1>12. AheadInOrder(c)'
  <2> SUFFICES ASSUME NEW i \in conn[c].pos + 1 + 1 .. Len(sent),
                      NEW s \in base[c] + 1 .. sent[i] - 1
               PROVE  \/ s \in Accounted(c)' \cup OnWire(c)' \cup InTodo(c)'
                      \/ \E j \in conn[c].pos + 1 + 1 .. i - 1 : sent[j] = s
    BY <1>10 DEF AheadInOrder
  <2>1. i \in conn[c].pos + 1 .. Len(sent)
    BY <1>5
  <2>2. \/ s \in Accounted(c) \cup OnWire(c)
        \/ \E j \in conn[c].pos + 1 .. i - 1 : sent[j] = s
    BY <1>3, <1>6, <2>1 DEF Complete, AheadInOrder
  <2>3. ASSUME NEW j \in conn[c].pos + 1 .. i - 1, sent[j] = s
        PROVE  s = env \/ j \in conn[c].pos + 1 + 1 .. i - 1
    BY <1>2, <1>5, <2>3
  <2>4. s \in base[c] + 1 .. log
    <3>1. i \in 1..Len(sent)
      BY <1>5, <2>1
    <3> QED BY <1>5, <3>1, Numbers
  <2> QED BY <1>8, <1>9, <2>2, <2>3, <2>4
<1>13. TodoInOrder(c)'
  BY <1>10 DEF TodoInOrder
<1> QED BY <1>9, <1>11, <1>12, <1>13 DEF Complete

\* A lag: what the receiver is moved past is skipped.
LEMMA LagComplete ==
  ASSUME Shape, [Next]_vars, NEW c \in Clients, Complete(c), Lag(c)
  PROVE  Complete(c)'
<1>1. UNCHANGED <<sent, base, got, late>> /\ conn[c].stage = "open"
  BY DEF Lag, Live
<1>2. /\ conn'[c].todo = conn[c].todo /\ conn'[c].last = conn[c].last
      /\ conn'[c].wire = conn[c].wire /\ conn'[c].pos = Len(sent) - Capacity
      /\ conn[c].pos <= conn'[c].pos /\ conn'[c].pos <= Len(sent)
  BY LagDoes DEF Shape
<1>3. /\ base[c] \in Nat /\ conn[c].pos \in Nat /\ Len(sent) \in Nat /\ conn'[c].pos \in Int
      /\ log \in Nat
  BY <1>2, Known, EventStreamAssumption
<1>4. Accounted(c) \subseteq Accounted(c)'
  BY AccountedGrows
<1>5. \A i \in conn[c].pos + 1 .. conn'[c].pos : sent[i] \in Accounted(c)'
  <2> DEFINE lost == {sent[i] : i \in conn[c].pos + 1 .. Len(sent) - Capacity}
  <2>1. skipped' = [skipped EXCEPT ![c] = @ \cup lost]
    BY DEF Lag
  <2>2. \A i \in conn[c].pos + 1 .. conn'[c].pos : sent[i] \in lost
    BY <1>2
  <2> HIDE DEF lost
  <2> QED BY <2>1, <2>2, Histories DEF Accounted
<1>6. OnWire(c)' = OnWire(c) /\ InTodo(c)' = InTodo(c)
  BY <1>2 DEF OnWire, InTodo
<1>7. WireInOrder(c)' /\ TodoInOrder(c)' /\ SentUpTo(c)'
  BY <1>1, <1>2, <1>4, <1>6 DEF Complete, WireInOrder, TodoInOrder, SentUpTo
<1>8. Ahead(c) \subseteq Accounted(c)' \cup Ahead(c)'
  <2>1. \A i \in conn[c].pos + 1 .. Len(sent) :
          i \in conn[c].pos + 1 .. conn'[c].pos \/ i \in conn'[c].pos + 1 .. Len(sent)
    BY <1>2, <1>3
  <2>2. Ahead(c)' = {sent[i] : i \in conn'[c].pos + 1 .. Len(sent)}
    BY <1>1 DEF Ahead
  <2> QED BY <1>5, <2>1, <2>2 DEF Ahead
<1>9. base' = base /\ sent' = sent
  BY <1>1
<1>10. ~Crash /\ ~\E e \in publishing : Send(e)
  <2>1. ~Crash
    BY CrashDoes, ClosedIs, LagDoes DEF Shape
  <2>2. \A e \in publishing : ~Send(e)
    <3> SUFFICES ASSUME NEW e \in publishing, Send(e) PROVE FALSE
      OBVIOUS
    <3>1. Len(sent') = Len(sent) + 1 /\ Len(sent) \in Nat
      BY SendDoes DEF Shape
    <3> QED BY <1>1, <3>1
  <2> QED BY <2>1, <2>2
<1>11. OnItsWay(c)'
  <2> SUFFICES ASSUME NEW s \in base[c] + 1 .. log'
               PROVE  s \in Accounted(c)' \cup OnWire(c)' \cup InTodo(c)' \cup Ahead(c)'
                            \cup Publishing'
    BY <1>9 DEF OnItsWay
  <2>1. s \in 1..log' /\ Publishing \subseteq Publishing'
    BY <1>3, <1>10, ServerKeeps
  <2>2. s \in 1..log \/ s \in late' \/ s \in Publishing'
    BY <1>10, <2>1, ServerKeeps
  <2>3. CASE s \in 1..log
    <3>1. s \in base[c] + 1 .. log
      BY <1>3, <2>3
    <3> QED BY <1>1, <1>4, <1>6, <1>8, <2>1, <3>1 DEF Complete, OnItsWay
  <2> QED BY <2>2, <2>3 DEF Accounted
<1>12. AheadInOrder(c)'
  <2> SUFFICES ASSUME NEW i \in conn'[c].pos + 1 .. Len(sent),
                      NEW s \in base[c] + 1 .. sent[i] - 1
               PROVE  \/ s \in Accounted(c)' \cup OnWire(c)' \cup InTodo(c)'
                      \/ \E j \in conn'[c].pos + 1 .. i - 1 : sent[j] = s
    BY <1>9 DEF AheadInOrder
  <2>1. i \in conn[c].pos + 1 .. Len(sent)
    BY <1>2, <1>3
  <2>2. \/ s \in Accounted(c) \cup OnWire(c) \cup InTodo(c)
        \/ \E j \in conn[c].pos + 1 .. i - 1 : sent[j] = s
    BY <1>1, <2>1 DEF Complete, AheadInOrder
  <2>3. \A j \in conn[c].pos + 1 .. i - 1 :
          j \in conn[c].pos + 1 .. conn'[c].pos \/ j \in conn'[c].pos + 1 .. i - 1
    BY <1>2, <1>3
  <2> QED BY <1>4, <1>5, <1>6, <2>2, <2>3
<1> QED BY <1>7, <1>11, <1>12 DEF Complete

\* The browser takes a message off the wire, and everything before it was taken before.
LEMMA ReceiveComplete ==
  ASSUME Shape, [Next]_vars, NEW c \in Clients, Complete(c), Reached(c), Receive(c)
  PROVE  Complete(c)' /\ Reached(c)'
<1>1. UNCHANGED <<log, publishing, sent, base, late, skipped>>
  BY DEF Receive
<1>2. PICK w \in Seq(Seqs) : w = conn[c].wire
  BY Known
<1>3. w # <<>> /\ conn'[c].wire = Tail(w)
  BY <1>2, ReceiveDoes DEF Shape
<1>4. PICK e \in Seqs : e = Head(w)
  BY <1>3, ElementsOfTail
<1>5. PICK v : v = Tail(w)
  OBVIOUS
<1>6. /\ Elements(w) = {e} \cup Elements(v) /\ Len(v) = Len(w) - 1 /\ Len(w) \in Nat \ {0}
      /\ e = w[1] /\ \A i \in 1..Len(v) : v[i] = w[i + 1]
  BY <1>3, <1>4, <1>5, ElementsOfTail
<1>7. /\ conn'[c].stage = conn[c].stage /\ conn'[c].pos = conn[c].pos
      /\ conn'[c].last = conn[c].last /\ conn'[c].todo = conn[c].todo
      /\ conn'[c].wire = v /\ base' = base /\ sent' = sent /\ log' = log
  BY <1>1, <1>3, <1>5, ReceiveDoes DEF Shape
<1>8. \/ e > 0 /\ lastSeq'[c] = e /\ got'[c] = got[c] \cup {e}
      \/ e <= 0 /\ lastSeq'[c] = lastSeq[c] /\ got'[c] = got[c]
  BY <1>2, <1>4, ReceiveDoes, Histories DEF Shape
<1>9. OnWire(c) = {e} \cup OnWire(c)'
  BY <1>2, <1>6, <1>7 DEF OnWire
<1>10. /\ base[c] \in Nat /\ e \in Int
       /\ Accounted(c) \subseteq Accounted(c)' /\ (e > 0 => e \in Accounted(c)')
  BY <1>8, Known, SeqsAreInts, AccountedGrows DEF Accounted
<1>11. /\ InTodo(c)' = InTodo(c) /\ Ahead(c)' = Ahead(c) /\ Publishing' = Publishing
  BY <1>1, <1>7 DEF InTodo, Ahead, Publishing
<1>12. ASSUME NEW s, s \in Int, s > base[c], s \in Accounted(c) \cup OnWire(c)
       PROVE  s \in Accounted(c)' \cup OnWire(c)'
  <2>1. s > 0
    BY <1>10, <1>12
  <2> QED BY <1>9, <1>10, <1>12, <2>1
<1>13. \A s : \A m : s \in base[c] + 1 .. m => s \in Int /\ s > base[c]
  BY <1>10
<1>14. OnItsWay(c)'
  <2>1. ASSUME conn[c].stage = "open", NEW s \in base[c] + 1 .. log
        PROVE  s \in Accounted(c)' \cup OnWire(c)' \cup InTodo(c)' \cup Ahead(c)' \cup Publishing'
    BY <1>11, <1>12, <1>13, <2>1 DEF Complete, OnItsWay
  <2> QED BY <1>7, <2>1 DEF OnItsWay
<1>15. AheadInOrder(c)'
  <2> SUFFICES ASSUME conn[c].stage = "open", NEW i \in conn[c].pos + 1 .. Len(sent),
                      NEW s \in base[c] + 1 .. sent[i] - 1
               PROVE  \/ s \in Accounted(c)' \cup OnWire(c)' \cup InTodo(c)'
                      \/ \E j \in conn[c].pos + 1 .. i - 1 : sent[j] = s
    BY <1>7 DEF AheadInOrder
  <2>1. \/ s \in Accounted(c) \cup OnWire(c) \cup InTodo(c)
        \/ \E j \in conn[c].pos + 1 .. i - 1 : sent[j] = s
    BY DEF Complete, AheadInOrder
  <2> QED BY <1>11, <1>12, <1>13, <2>1
<1>16. TodoInOrder(c)'
  <2> SUFFICES ASSUME NEW i \in 1..Len(conn[c].todo), NEW s \in base[c] + 1 .. conn[c].todo[i] - 1
               PROVE  s \in Accounted(c)' \cup OnWire(c)' \/ \E j \in 1..i - 1 : conn[c].todo[j] = s
    BY <1>7 DEF TodoInOrder
  <2>1. s \in Accounted(c) \cup OnWire(c) \/ \E j \in 1..i - 1 : conn[c].todo[j] = s
    BY DEF Complete, TodoInOrder
  <2> QED BY <1>12, <1>13, <2>1
<1>17. SentUpTo(c)'
  <2> SUFFICES ASSUME NEW s \in base[c] + 1 .. conn[c].last PROVE s \in Accounted(c)' \cup OnWire(c)'
    BY <1>7 DEF SentUpTo
  <2> QED BY <1>12, <1>13 DEF Complete, SentUpTo
<1>18. WireInOrder(c)'
  <2> SUFFICES ASSUME NEW i \in 1..Len(v), NEW s \in base[c] + 1 .. v[i] - 1
               PROVE  s \in Accounted(c)' \/ \E j \in 1..i - 1 : v[j] = s
    BY <1>7 DEF WireInOrder
  <2>1. i + 1 \in 1..Len(w) /\ v[i] = w[i + 1]
    BY <1>6
  <2>2. s \in Accounted(c) \/ \E j \in 1..i + 1 - 1 : w[j] = s
    BY <1>2, <2>1 DEF Complete, WireInOrder
  <2>3. ASSUME NEW j \in 1..i + 1 - 1, w[j] = s
        PROVE  s = e \/ \E k \in 1..i - 1 : v[k] = s
    <3>1. CASE j = 1
      BY <1>6, <2>3, <3>1
    <3>2. CASE j # 1
      <4>1. j - 1 \in 1..i - 1 /\ j - 1 \in 1..Len(v) /\ j - 1 + 1 = j
        BY <1>6, <3>2
      <4>2. v[j - 1] = w[j - 1 + 1]
        BY <1>6, <4>1
      <4> QED BY <2>3, <4>1, <4>2
    <3> QED BY <3>1, <3>2
  <2>4. s > 0
    BY <1>10, <1>13
  <2> QED BY <1>10, <2>2, <2>3, <2>4
<1>19. Reached(c)'
  <2>1. CASE e <= 0
    BY <1>7, <1>8, <1>10, <2>1 DEF Reached
  <2>2. CASE e > 0
    <3> SUFFICES ASSUME NEW s \in base[c] + 1 .. e PROVE s \in Accounted(c)'
      BY <1>7, <1>8, <1>10, <2>2 DEF Reached
    <3>1. CASE s = e
      BY <1>10, <2>2, <3>1
    <3>2. CASE s # e
      <4>1. s \in base[c] + 1 .. e - 1 /\ 1 \in 1..Len(w) /\ \A j \in 1..1 - 1 : FALSE
        BY <1>6, <1>10, <3>2
      <4>2. s \in Accounted(c)
        BY <1>2, <1>6, <4>1 DEF Complete, WireInOrder
      <4> QED BY <1>10, <4>2
    <3> QED BY <3>1, <3>2
  <2> QED BY <1>10, <2>1, <2>2
<1> QED BY <1>14, <1>15, <1>16, <1>17, <1>18, <1>19 DEF Complete

\* A step of the client, by which its socket is open or not.
LEMMA OwnComplete ==
  ASSUME Shape, PublishOrder, [Next]_vars, NEW c \in Clients, Complete(c), Reached(c), Shape',
         SocketStep(c) \/ Receive(c) \/ Blip(c) \/ Crash
  PROVE  Complete(c)' /\ Reached(c)'
<1>1. ASSUME conn'[c].stage # "open" PROVE Complete(c)'
  <2>1. conn'[c].todo = <<>> /\ conn'[c].wire = <<>> /\ conn'[c].last = 0
    BY <1>1 DEF Shape, Quiet
  <2>2. base'[c] \in Nat
    BY DEF Shape, TypeOK
  <2>3. SentUpTo(c)'
    BY <2>1, <2>2 DEF SentUpTo
  <2>4. WireInOrder(c)' /\ TodoInOrder(c)'
    BY <2>1, EmptyInSeqs DEF WireInOrder, TodoInOrder
  <2>5. OnItsWay(c)' /\ AheadInOrder(c)'
    BY <1>1 DEF OnItsWay, AheadInOrder
  <2> QED BY <2>3, <2>4, <2>5 DEF Complete
<1>2. ASSUME lastSeq'[c] = lastSeq[c], base'[c] = base[c] \/ base'[c] = lastSeq'[c] \/ lastSeq'[c] = 0
      PROVE  Reached(c)'
  <2>1. base'[c] \in Nat /\ base[c] \in Nat /\ lastSeq[c] \in Nat
    BY Known DEF Shape, TypeOK
  <2>2. CASE base'[c] = base[c]
    BY <1>2, <2>2, AccountedGrows DEF Reached
  <2>3. CASE base'[c] = lastSeq'[c] \/ lastSeq'[c] = 0
    BY <1>2, <2>1, <2>3 DEF Reached
  <2> QED BY <1>2, <2>2, <2>3
<1>3. CASE Subscribe(c)
  <2>1. conn'[c].stage # "open"
    BY <1>3, SubscribeDoes DEF Shape
  <2>2. lastSeq' = lastSeq /\ (base' = base \/ lastSeq[c] = 0)
    BY <1>3 DEF Subscribe
  <2> QED BY <1>1, <1>2, <2>1, <2>2
<1>4. CASE Blip(c) \/ Crash
  <2>1. conn'[c].stage # "open"
    BY <1>4, BlipDoes, CrashDoes, ClosedIs DEF Shape
  <2>2. lastSeq' = lastSeq /\ base' = base
    BY <1>4 DEF Blip, Crash
  <2> QED BY <1>1, <1>2, <2>1, <2>2
<1>5. CASE LoadRing(c) \/ LoadRows(c) \/ Replay(c) \/ Forward(c) \/ Lag(c)
  <2>1. lastSeq' = lastSeq /\ base' = base
    BY <1>5 DEF LoadRing, LoadRows, Replay, Forward, Lag
  <2>2. Complete(c)'
    BY <1>5, LoadRingComplete, LoadRowsComplete, ReplayComplete, ForwardComplete, LagComplete
  <2> QED BY <1>2, <2>1, <2>2
<1>6. CASE Receive(c)
  BY <1>6, ReceiveComplete
<1> QED BY <1>3, <1>4, <1>5, <1>6 DEF SocketStep

LEMMA ClientStep ==
  Shape /\ PublishOrder /\ ClientOrder /\ Shape' /\ [Next]_vars => ClientOrder'
<1> SUFFICES ASSUME Shape, PublishOrder, ClientOrder, Shape', [Next]_vars, NEW c \in Clients
             PROVE  Complete(c)' /\ Reached(c)'
  BY DEF ClientOrder
<1>1. Complete(c) /\ Reached(c)
  BY DEF ClientOrder
<1>2. CASE SocketStep(c) \/ Receive(c) \/ Blip(c) \/ Crash
  BY <1>1, <1>2, OwnComplete
<1>3. CASE /\ conn'[c] = conn[c] /\ lastSeq'[c] = lastSeq[c] /\ base'[c] = base[c]
           /\ got'[c] = got[c] /\ skipped'[c] = skipped[c]
  <2>1. Reached(c)'
    BY <1>1, <1>3, AccountedGrows DEF Reached
  <2>2. CASE conn[c].stage = "open"
    BY <1>1, <1>3, <2>1, <2>2, ServerComplete
  <2>3. CASE conn[c].stage # "open"
    <3>1. conn'[c].todo = <<>> /\ conn'[c].wire = <<>> /\ conn'[c].last = 0
      BY <1>3, <2>3 DEF Shape, Quiet
    <3>2. SentUpTo(c)'
      BY <1>3, <3>1, Known DEF SentUpTo
    <3>3. WireInOrder(c)' /\ TodoInOrder(c)'
      BY <3>1, EmptyInSeqs DEF WireInOrder, TodoInOrder
    <3>4. OnItsWay(c)' /\ AheadInOrder(c)'
      BY <1>3, <2>3 DEF OnItsWay, AheadInOrder
    <3> QED BY <2>1, <3>2, <3>3, <3>4 DEF Complete
  <2> QED BY <2>2, <2>3
<1> QED BY <1>2, <1>3, ClientMoves

LEMMA InitClients == Init => ClientOrder
<1> SUFFICES ASSUME Init, NEW c \in Clients PROVE Complete(c) /\ Reached(c)
  BY DEF ClientOrder
<1>1. conn[c].stage # "open" /\ lastSeq[c] = 0 /\ base[c] = 0
  BY ClosedIs DEF Init
<1>2. Complete(c)
  BY <1>1, InitShape, NotOpen
<1> QED BY <1>1, <1>2 DEF Reached

LEMMA InvariantHolds == Spec => []IInv
<1>1. Init => IInv
  BY InitShape, InitOrder, InitSuffix, InitBacklog, InitClients DEF IInv
<1>2. IInv /\ [Next]_vars => IInv'
  BY ShapeStep, OrderStep, SuffixStep, BacklogStep, ClientStep DEF IInv
<1> QED BY <1>1, <1>2, PTL DEF Spec

\* Between its first subscription and the number it would resume from, a client misses an
\* event only if another publish overtook it, another process published it, or the server
\* made the client skip it: broken sockets and crashes, however many, lose nothing.
THEOREM NothingLost == Spec => []NothingElseIsLost
<1>1. IInv => NothingElseIsLost
  BY DEF IInv, ClientOrder, Reached, Accounted, NothingElseIsLost
<1> QED BY <1>1, InvariantHolds, PTL
=============================================================================

---------------------------- MODULE FleetProofs -----------------------------
(***************************************************************************)
(* The fleet registry for any set of processes, any list of policies and    *)
(* any timeouts: the types, and that no process that lives is taken for     *)
(* dead.  The second is an argument about time: Allowance bounds the age    *)
(* that the node of a process can have at each place of its loop, and as    *)
(* long as the timeouts fit into STALE_AFTER_SECS it stays below Stale.     *)
(***************************************************************************)
EXTENDS Fleet, FiniteSetTheorems, SequenceTheorems, TLAPS

Places   == {"beat", "probe", "timeout", "sandbox", "list", "mark", "dead"}
Waits    == 0..ProbeTimeout \cup 0..PingTimeout
EventSet == [id : Nodes, status : Status]

LoopSet == [at : Places, i : 1..Len(Policies) + 1, wait : Waits, since : 0..Probe,
            old : SUBSET Nodes, out : Seq(EventSet)]

Entry == [status : Status \cup {"absent"}, age : 0..Stale]

\* What the place of a loop implies about the rest of its state.
InPlace(r) ==
  /\ r.wait > 0 => r.at \in {"timeout", "beat"}
  /\ r.old # {} => r.at = "mark"
  /\ r.at = "dead" => r.out = <<>>

Shape ==
  /\ node \in [Nodes -> Entry] /\ shown \in [Nodes -> Status \cup {"absent"}]
  /\ proc \in [Procs -> LoopSet] /\ \A p \in Procs : InPlace(proc[p])

\* The age at which the loop saves its node at the latest, seen from where it is:
\* every policy may take ProbeTimeout, the bridge PingTimeout, the sleep a tick.
All == Len(Policies) * ProbeTimeout + PingTimeout

Allowance(r) ==
  CASE r.at = "probe" -> (r.i - 1) * ProbeTimeout
    [] r.at = "timeout" -> IF r.i <= Len(Policies) THEN r.i * ProbeTimeout ELSE All
    [] r.at \in {"sandbox", "list", "mark"} -> All
    [] OTHER -> All + 1

Calm == Fits /\ faults \cap {"restart", "save"} = {}

\* A loop is about to publish that a node is down.
Says(out, n) == \E j \in DOMAIN out : out[j].id = n /\ out[j].status = "down"

InTime ==
  Calm => \A p \in Procs : Alive(p) =>
    node[p].age + proc[p].wait <= Allowance(proc[p]) /\ node[p].status # "down"

NotTakenForDead ==
  Calm => \A p \in Procs : Alive(p) =>
    shown[p] # "down" /\ \A q \in Procs : p \notin proc[q].old /\ ~Says(proc[q].out, p)

FInv == Shape /\ InTime /\ NotTakenForDead
-----------------------------------------------------------------------------
(***************************************************************************)
(* Numbers, nodes and places                                               *)
(***************************************************************************)

LEMMA Numbers ==
  /\ ProbeTimeout \in Nat \ {0} /\ PingTimeout \in Nat \ {0}
  /\ Probe \in Nat \ {0} /\ Stale \in Nat \ {0} /\ Len(Policies) \in Nat
BY FleetAssumption

LEMMA NodesAre ==
  /\ Bridge \in Shared /\ Sandbox \in Shared /\ \A p \in Procs : p \in Nodes /\ p \notin Shared
  /\ \A i \in 1..Len(Policies) : Policies[i] \in Shared
  /\ Shared \subseteq Nodes
BY FleetAssumption DEF Shared, Nodes

LEMMA NodesFinite == IsFiniteSet(Nodes)
<1>1. IsFiniteSet(1..Len(Policies))
  BY Numbers, FS_Interval
<1>2. IsFiniteSet({Policies[i] : i \in 1..Len(Policies)})
  <2> DEFINE S == 1..Len(Policies)
             T == {Policies[i] : i \in S}
  <2>1. [i \in S |-> Policies[i]] \in Surjection(S, T)
    BY DEF Surjection
  <2> HIDE DEF S, T
  <2>2. IsFiniteSet(T)
    BY <1>1, <2>1, FS_Surjection DEF S
  <2> QED BY <2>2 DEF S, T
<1>3. IsFiniteSet({Policies[i] : i \in 1..Len(Policies)} \cup {Bridge})
  BY <1>2, FS_AddElement
<1>4. IsFiniteSet(({Policies[i] : i \in 1..Len(Policies)} \cup {Bridge}) \cup {Sandbox})
  BY <1>3, FS_AddElement
<1>5. Shared = ({Policies[i] : i \in 1..Len(Policies)} \cup {Bridge}) \cup {Sandbox}
  BY DEF Shared
<1> QED BY <1>4, <1>5, FleetAssumption, FS_Union DEF Nodes

LEMMA StartedIs ==
  /\ Started \in LoopSet /\ [Started EXCEPT !.at = "dead"] \in LoopSet
  /\ InPlace(Started) /\ InPlace([Started EXCEPT !.at = "dead"])
  /\ [Started EXCEPT !.at = "dead"].at = "dead" /\ Started.at = "beat" /\ Started.wait = 0
  /\ [Started EXCEPT !.at = "dead"].old = {} /\ [Started EXCEPT !.at = "dead"].out = <<>>
  /\ Started.old = {} /\ Started.out = <<>>
<1>1. <<>> \in Seq(EventSet)
  BY EmptySeq
<1>2. 0 \in Waits /\ Probe \in 0..Probe /\ 1 \in 1..Len(Policies) + 1
  BY Numbers DEF Waits
<1>3. PICK d : d = [Started EXCEPT !.at = "dead"]
  OBVIOUS
<1>4. d = [at |-> "dead", i |-> 1, wait |-> 0, since |-> Probe, old |-> {}, out |-> <<>>]
  BY <1>3 DEF Started
<1>5. d \in LoopSet /\ InPlace(d) /\ d.at = "dead" /\ d.old = {} /\ d.out = <<>>
  BY <1>1, <1>2, <1>4 DEF LoopSet, Places, InPlace
<1>6. Started \in LoopSet /\ InPlace(Started)
  BY <1>1, <1>2 DEF Started, LoopSet, Places, InPlace
<1> QED BY <1>3, <1>5, <1>6 DEF Started

LEMMA TimesAre ==
  ASSUME NEW a \in Nat, NEW b \in Nat, NEW t \in Nat, a <= b
  PROVE  a * t \in Nat /\ a * t <= b * t
OBVIOUS

\* No place allows more than a whole turn of the loop.
LEMMA AllowanceIs ==
  ASSUME NEW r \in LoopSet
  PROVE  Allowance(r) \in Int /\ Allowance(r) <= All + 1 /\ All \in Nat
<1>1. PICK len \in Nat, t \in Nat, ping \in Nat, i \in Nat :
        /\ len = Len(Policies) /\ t = ProbeTimeout /\ ping = PingTimeout
        /\ i = r.i /\ 1 <= i /\ i <= len + 1
  <2>1. /\ r.i \in Nat /\ 1 <= r.i /\ r.i <= Len(Policies) + 1
        /\ Len(Policies) \in Nat /\ ProbeTimeout \in Nat /\ PingTimeout \in Nat
    BY Numbers DEF LoopSet
  <2> QED BY <2>1, Zenon
<1>2. PICK all \in Nat : all = len * t + ping /\ all = All
  BY <1>1 DEF All
<1>3. (i - 1) * t \in Int /\ (i - 1) * t <= len * t
  <2>1. PICK j \in Nat : j = i - 1 /\ j <= len
    BY <1>1
  <2> QED BY <2>1, TimesAre
<1>4. i <= len => i * t \in Int /\ i * t <= len * t
  BY TimesAre
<1>5. CASE r.at = "probe"
  BY <1>1, <1>2, <1>3, <1>5 DEF Allowance
<1>6. CASE r.at = "timeout"
  BY <1>1, <1>2, <1>4, <1>6 DEF Allowance
<1>7. CASE r.at \in {"sandbox", "list", "mark"}
  BY <1>2, <1>7 DEF Allowance
<1>8. CASE r.at \in {"beat", "dead"}
  BY <1>2, <1>8 DEF Allowance
<1> QED BY <1>5, <1>6, <1>7, <1>8 DEF LoopSet, Places

LEMMA LoopIs ==
  ASSUME Shape, NEW p \in Procs
  PROVE  /\ proc[p] \in LoopSet /\ InPlace(proc[p]) /\ p \in Nodes /\ node[p] \in Entry
         /\ node[p].age \in Nat /\ node[p].age <= Stale /\ proc[p].wait \in Nat
BY NodesAre, Numbers DEF Shape, Entry, LoopSet, Waits

\* The node of a process that lives is young.
LEMMA LiveIsYoung ==
  ASSUME Shape, InTime, Calm, NEW p \in Procs, Alive(p)
  PROVE  p \notin OldNodes
<1>1. node[p].age + proc[p].wait <= Allowance(proc[p])
  BY DEF InTime
<1>2. PICK age \in Nat, wait \in Nat, a \in Int, all \in Nat :
        /\ age = node[p].age /\ wait = proc[p].wait /\ a = Allowance(proc[p]) /\ all = All
        /\ age + wait <= a /\ a <= all + 1
  BY <1>1, LoopIs, AllowanceIs
<1>3. all + 1 < Stale
  BY <1>2 DEF Calm, Fits, All
<1>4. age < Stale
  BY <1>2, <1>3, Numbers
<1> QED BY <1>2, <1>4, Numbers DEF OldNodes

LEMMA FaultsGrow ==
  ASSUME NEW kind, Fault(kind)
  PROVE  faults' = faults \cup {kind}
BY DEF Fault

LEMMA CalmBefore ==
  ASSUME faults \subseteq faults', Calm'
  PROVE  Calm
BY DEF Calm, Fits
-----------------------------------------------------------------------------
(***************************************************************************)
(* A step of one loop                                                      *)
(***************************************************************************)

\* What a step of loop p has to show: of its own node, and of those of others.
LEMMA StepKeeps ==
  ASSUME FInv, NEW p \in Procs, NEW r \in LoopSet, InPlace(r),
         proc' = [proc EXCEPT ![p] = r], faults \subseteq faults',
         node' \in [Nodes -> Entry], shown' \in [Nodes -> Status \cup {"absent"}],
         Calm' /\ r.at # "dead" =>
           /\ proc[p].at # "dead" /\ node'[p].age + r.wait <= Allowance(r)
           /\ node'[p].status # "down",
         Calm' => \A q \in Procs \ {p} : Alive(q) =>
           node'[q].age = node[q].age /\ node'[q].status # "down",
         Calm' => \A q \in Procs : Alive(q) =>
           shown'[q] # "down" /\ q \notin r.old /\ ~Says(r.out, q)
  PROVE  FInv'
<1>1. /\ proc' \in [Procs -> LoopSet] /\ proc'[p] = r
      /\ \A q \in Procs \ {p} : proc'[q] = proc[q]
  BY DEF FInv, Shape
<1>2. Shape'
  BY <1>1 DEF FInv, Shape
<1>3. ASSUME Calm', NEW q \in Procs, proc'[q].at # "dead"
      PROVE  Alive(q) /\ Calm
  BY <1>1, <1>3, CalmBefore DEF Alive
<1>4. InTime'
  <2> SUFFICES ASSUME Calm', NEW q \in Procs, proc'[q].at # "dead"
               PROVE  /\ node'[q].age + proc'[q].wait <= Allowance(proc'[q])
                      /\ node'[q].status # "down"
    BY DEF InTime, Alive, Allowance, All
  <2>1. CASE q = p
    BY <1>1, <2>1
  <2>2. CASE q # p
    BY <1>1, <1>3, <2>2 DEF FInv, InTime
  <2> QED BY <2>1, <2>2
<1>5. NotTakenForDead'
  <2> SUFFICES ASSUME Calm', NEW q \in Procs, proc'[q].at # "dead"
               PROVE  /\ shown'[q] # "down"
                      /\ \A s \in Procs : q \notin proc'[s].old /\ ~Says(proc'[s].out, q)
    BY DEF NotTakenForDead, Alive, Says
  <2>1. Alive(q) /\ Calm
    BY <1>3
  <2>2. \A s \in Procs : q \notin proc[s].old /\ ~Says(proc[s].out, q)
    BY <2>1 DEF FInv, NotTakenForDead
  <2> QED BY <1>1, <2>1, <2>2
<1> QED BY <1>2, <1>4, <1>5 DEF FInv

\* publish of a node that is no other process, on the way to a place that allows
\* for what the loop has waited so far.
LEMMA PublishKeeps ==
  ASSUME FInv, NEW p \in Procs, proc[p].at # "dead", NEW n \in Nodes, NEW status \in Status,
         NEW next \in LoopSet, InPlace(next), next.at # "dead", next.old = {}, next.out = <<>>,
         n \in Shared \/ (n = p /\ status = "up"),
         n # p => (Calm => node[p].age + next.wait <= Allowance(next)),
         n = p => next.wait <= Allowance(next),
         Publish(p, n, status, next)
  PROVE  FInv'
<1>1. CASE /\ node' = [node EXCEPT ![n] = [status |-> status, age |-> 0]]
           /\ proc' = [proc EXCEPT ![p] = [next EXCEPT !.out = <<Event(n, status)>>]]
           /\ UNCHANGED <<shown, faults>>
  <2>1. PICK e \in EventSet : e = Event(n, status) /\ e.id = n /\ e.status = status
    <3>1. Event(n, status) \in EventSet
      BY DEF Event, EventSet
    <3>2. Event(n, status).id = n /\ Event(n, status).status = status
      BY DEF Event
    <3> QED BY <3>1, <3>2, Zenon
  <2>2. PICK out \in Seq(EventSet) : out = <<e>> /\ DOMAIN out = {1} /\ out[1] = e
    <3>1. <<e>> \in Seq(EventSet) /\ DOMAIN <<e>> = {1} /\ <<e>>[1] = e
      OBVIOUS
    <3> QED BY <3>1, Zenon
  <2> DEFINE r == [next EXCEPT !.out = out]
  <2>3. proc' = [proc EXCEPT ![p] = r]
    BY <1>1, <2>1, <2>2
  <2>4. /\ r \in LoopSet /\ r.at = next.at /\ r.wait = next.wait /\ r.old = {} /\ r.out = out
        /\ r.i = next.i
    BY DEF LoopSet
  <2> HIDE DEF r
  <2>5. InPlace(r) /\ Allowance(r) = Allowance(next)
    BY <2>4 DEF InPlace, Allowance
  <2>6. PICK fresh \in Entry : fresh = [status |-> status, age |-> 0]
    <3>1. [status |-> status, age |-> 0] \in Entry
      BY Numbers DEF Entry
    <3> QED BY <3>1, Zenon
  <2>7. node' = [node EXCEPT ![n] = fresh] /\ node \in [Nodes -> Entry] /\ p \in Nodes
    BY <1>1, <2>6, NodesAre DEF FInv, Shape
  <2>8. node' \in [Nodes -> Entry]
    BY <2>7
  <2>9. ASSUME Calm
        PROVE  /\ node'[p].age + r.wait <= Allowance(r) /\ node'[p].status # "down"
               /\ \A q \in Procs \ {p} : Alive(q) =>
                    node'[q].age = node[q].age /\ node'[q].status # "down"
               /\ \A q \in Procs : ~Says(out, q)
    <3>1. CASE n = p
      <4>1. node'[p] = fresh /\ fresh.age = 0 /\ fresh.status = "up"
        BY <2>6, <2>7, <3>1, NodesAre
      <4>2. 0 + r.wait <= Allowance(r)
        BY <2>4, <2>5, <3>1 DEF LoopSet, Waits
      <4>3. \A q \in Procs \ {p} : node'[q] = node[q]
        BY <2>7, <3>1, NodesAre
      <4>4. ~(\E q : Says(out, q))
        BY <2>1, <2>2, <3>1, NodesAre DEF Says
      <4> QED BY <2>9, <4>1, <4>2, <4>3, <4>4 DEF FInv, InTime
    <3>2. CASE n # p
      <4>1. \A q \in Procs : n # q
        BY <3>2, NodesAre
      <4>2. \A q \in Procs : node'[q] = node[q]
        BY <2>7, <4>1, NodesAre
      <4>3. \A q \in Procs : ~Says(out, q)
        BY <2>1, <2>2, <4>1 DEF Says
      <4>4. node[p].age + r.wait <= Allowance(r)
        BY <2>4, <2>5, <2>9, <3>2
      <4> QED BY <2>9, <4>2, <4>3, <4>4 DEF FInv, InTime, Alive
    <3> QED BY <3>1, <3>2
  <2>10. Calm' => Calm
    BY <1>1, CalmBefore
  <2>11. shown' \in [Nodes -> Status \cup {"absent"}]
    BY <1>1 DEF FInv, Shape
  <2>12. Calm' => \A q \in Procs : Alive(q) => shown'[q] # "down"
    BY <1>1, <2>10 DEF FInv, NotTakenForDead
  <2> QED BY <1>1, <2>3, <2>4, <2>5, <2>8, <2>9, <2>10, <2>11, <2>12, StepKeeps
<1>2. CASE /\ Fault("save")
           /\ proc' = [proc EXCEPT ![p] = next]
           /\ UNCHANGED <<node, shown>>
  <2>1. ~Calm' /\ faults \subseteq faults'
    BY <1>2, FaultsGrow DEF Calm
  <2>2. node' \in [Nodes -> Entry] /\ shown' \in [Nodes -> Status \cup {"absent"}]
    BY <1>2 DEF FInv, Shape
  <2> QED BY <1>2, <2>1, <2>2, StepKeeps
<1> QED BY <1>1, <1>2 DEF Publish
-----------------------------------------------------------------------------
(***************************************************************************)
(* The steps of a loop                                                     *)
(***************************************************************************)

\* The loop goes on to another place.
Goes(p, at, i, wait, since) ==
  [proc[p] EXCEPT !.at = at, !.i = i, !.wait = wait, !.since = since]

LEMMA GoesOn ==
  ASSUME Shape, NEW p \in Procs, proc[p].at \notin {"dead", "mark"}, proc[p].out = <<>>,
         NEW at \in Places \ {"dead", "mark"}, NEW i \in 1..Len(Policies) + 1,
         NEW wait \in Waits, NEW since \in 0..Probe,
         wait = 0 \/ at \in {"timeout", "beat"}
  PROVE  /\ Goes(p, at, i, wait, since) \in LoopSet /\ InPlace(Goes(p, at, i, wait, since))
         /\ Goes(p, at, i, wait, since).at = at /\ Goes(p, at, i, wait, since).i = i
         /\ Goes(p, at, i, wait, since).wait = wait
         /\ Goes(p, at, i, wait, since).old = {} /\ Goes(p, at, i, wait, since).out = <<>>
<1>1. proc[p] \in LoopSet /\ InPlace(proc[p])
  BY LoopIs
<1>2. proc[p].old = {}
  BY <1>1 DEF InPlace
<1>3. PICK r : r = Goes(p, at, i, wait, since)
  OBVIOUS
<1>4. /\ r \in LoopSet /\ r.at = at /\ r.i = i /\ r.wait = wait
      /\ r.old = {} /\ r.out = <<>>
  BY <1>1, <1>2, <1>3 DEF LoopSet, Goes
<1>5. InPlace(r)
  BY <1>4, Numbers DEF InPlace
<1> QED BY <1>3, <1>4, <1>5

LEMMA BeatKeeps ==
  ASSUME FInv, NEW p \in Procs, Beat(p)
  PROVE  FInv'
<1>1. /\ At(p, "beat") /\ proc[p] \in LoopSet /\ p \in Nodes /\ Shape
      /\ proc[p].wait \in Waits /\ proc[p].since \in 0..Probe /\ proc[p].i \in 1..Len(Policies) + 1
  BY LoopIs DEF FInv, Beat, LoopSet
<1>2. 0 \in Waits /\ 1 \in Waits /\ 0 \in 0..Probe /\ 1 \in 1..Len(Policies) + 1
  BY Numbers DEF Waits
<1>3. proc[p].at = "beat" /\ proc[p].wait = 0
  BY <1>1 DEF At
<1>4. CASE Due(p)
  <2> DEFINE next == Goes(p, "probe", 1, 0, 0)
  <2>1. /\ next \in LoopSet /\ InPlace(next) /\ next.at = "probe" /\ next.i = 1
        /\ next.wait = 0 /\ next.old = {} /\ next.out = <<>>
    <3>1. "probe" \in Places \ {"dead", "mark"} /\ proc[p].at \notin {"dead", "mark"}
      BY <1>3 DEF Places
    <3> QED BY <1>1, <1>2, <3>1, GoesOn DEF At
  <2>2. next = [proc[p] EXCEPT !.at = "probe", !.since = 0, !.i = 1]
    BY <1>1, <1>3 DEF LoopSet, Goes
  <2>3. Publish(p, p, "up", next)
    BY <1>4, <2>2 DEF Beat
  <2> HIDE DEF next
  <2>4. next.wait <= Allowance(next)
    <3>1. Allowance(next) = (next.i - 1) * ProbeTimeout
      BY <2>1 DEF Allowance
    <3> QED BY <2>1, <3>1, Numbers
  <2> QED BY <1>1, <1>3, <2>1, <2>3, <2>4, PublishKeeps DEF Status
<1>5. CASE ~Due(p)
  <2> DEFINE i == proc[p].i
             since == proc[p].since
             next == Goes(p, "beat", i, 1, since)
  <2>1. /\ next \in LoopSet /\ InPlace(next) /\ next.at = "beat"
        /\ next.wait = 1 /\ next.old = {} /\ next.out = <<>>
    <3>1. "beat" \in Places \ {"dead", "mark"} /\ proc[p].at \notin {"dead", "mark"}
      BY <1>3 DEF Places
    <3> QED BY <1>1, <1>2, <3>1, GoesOn DEF At
  <2>2. next = Asleep(p)
    BY <1>1, <1>3 DEF Asleep, LoopSet, Goes
  <2>3. Publish(p, p, "up", next)
    BY <1>5, <2>2 DEF Beat
  <2> HIDE DEF next
  <2>4. next.wait <= Allowance(next)
    <3>1. Allowance(next) = All + 1
      BY <2>1 DEF Allowance
    <3> QED BY <2>1, <3>1, AllowanceIs
  <2> QED BY <1>1, <1>3, <2>1, <2>3, <2>4, PublishKeeps DEF Status
<1> QED BY <1>4, <1>5

\* The place before the probe of an endpoint, or the end of its timeout, leaves the
\* node of the process young enough for the place after it.
LEMMA ProbeAllows ==
  ASSUME FInv, NEW p \in Procs, Calm, At(p, "probe") \/ At(p, "timeout")
  PROVE  /\ At(p, "probe") => node[p].age <= (proc[p].i - 1) * ProbeTimeout
         /\ proc[p].i <= Len(Policies) => node[p].age <= proc[p].i * ProbeTimeout
         /\ node[p].age <= All
<1>1. PICK age \in Nat, i \in Nat, len \in Nat, t \in Nat, ping \in Nat :
        /\ age = node[p].age /\ i = proc[p].i /\ 1 <= i /\ i <= len + 1
        /\ len = Len(Policies) /\ t = ProbeTimeout /\ ping = PingTimeout
  <2>1. /\ node[p].age \in Nat /\ proc[p].i \in Nat /\ Len(Policies) \in Nat
        /\ ProbeTimeout \in Nat /\ PingTimeout \in Nat
        /\ 1 <= proc[p].i /\ proc[p].i <= Len(Policies) + 1
    BY LoopIs, Numbers DEF FInv, LoopSet
  <2> QED BY <2>1, Zenon
<1>2. PICK j \in Nat : j = i - 1 /\ j <= len
  BY <1>1
<1>3. node[p].age + proc[p].wait <= Allowance(proc[p]) /\ proc[p].wait = 0
  BY DEF FInv, InTime, Alive, At
<1>4. All = len * t + ping
  BY <1>1 DEF All
<1>5. j * t \in Nat /\ i * t \in Nat /\ len * t \in Nat /\ j * t <= i * t /\ j * t <= len * t
  BY <1>2, TimesAre
<1>6. CASE At(p, "probe")
  <2>1. Allowance(proc[p]) = j * t
    BY <1>1, <1>2, <1>6 DEF Allowance, At
  <2>2. age <= j * t
    BY <1>1, <1>3, <2>1
  <2>3. age <= i * t /\ age <= len * t + ping
    BY <1>5, <2>2
  <2> QED BY <1>1, <1>2, <1>4, <2>2, <2>3
<1>7. CASE At(p, "timeout")
  <2>1. ~At(p, "probe")
    BY <1>7 DEF At
  <2>2. CASE i <= len
    <3>1. Allowance(proc[p]) = i * t
      BY <1>1, <1>7, <2>2 DEF Allowance, At
    <3>2. age <= i * t /\ i * t <= len * t
      BY <1>1, <1>3, <2>2, <3>1, TimesAre
    <3>3. age <= len * t + ping
      BY <1>5, <3>2
    <3> QED BY <1>1, <1>4, <2>1, <3>2, <3>3
  <2>3. CASE ~(i <= len)
    <3>1. Allowance(proc[p]) = All
      BY <1>1, <1>7, <2>3 DEF Allowance, At
    <3> QED BY <1>1, <1>3, <2>1, <2>3, <3>1
  <2> QED BY <2>2, <2>3
<1> QED BY <1>6, <1>7

\* An endpoint does not answer.
LEMMA WaitKeeps ==
  ASSUME FInv, NEW p \in Procs, At(p, "probe"), NEW ticks \in Waits, Wait(p, ticks),
         \/ proc[p].i <= Len(Policies) /\ ticks = ProbeTimeout
         \/ proc[p].i > Len(Policies) /\ ticks = PingTimeout
  PROVE  FInv'
<1> DEFINE i == proc[p].i
           since == proc[p].since
           r == Goes(p, "timeout", i, ticks, since)
<1>1. /\ proc[p] \in LoopSet /\ p \in Nodes /\ Shape /\ since \in 0..Probe
      /\ i \in 1..Len(Policies) + 1 /\ node[p].age \in Nat
  BY LoopIs DEF FInv, LoopSet
<1>2. /\ r \in LoopSet /\ InPlace(r) /\ r.at = "timeout" /\ r.i = i /\ r.wait = ticks
      /\ r.old = {} /\ r.out = <<>> /\ proc[p].at = "probe"
  <2>1. "timeout" \in Places \ {"dead", "mark"} /\ proc[p].at = "probe" /\ proc[p].out = <<>>
    BY DEF Places, At
  <2> QED BY <1>1, <2>1, GoesOn
<1>3. r = [proc[p] EXCEPT !.at = "timeout", !.wait = ticks]
  BY <1>1 DEF LoopSet, Goes
<1>4. proc' = [proc EXCEPT ![p] = r] /\ UNCHANGED <<node, shown, faults>>
  BY <1>1, <1>3 DEF Wait, FInv, Shape
<1> HIDE DEF r, since
<1>5. ASSUME Calm
      PROVE  node[p].age + ticks <= Allowance(r)
  <2>1. PICK x \in Nat, len \in Nat, t \in Nat, ping \in Nat, age \in Nat :
          /\ x = proc[p].i /\ 1 <= x /\ x <= len + 1 /\ len = Len(Policies)
          /\ t = ProbeTimeout /\ ping = PingTimeout /\ age = node[p].age
    <3>1. /\ i \in Nat /\ 1 <= i /\ i <= Len(Policies) + 1 /\ node[p].age \in Nat
          /\ Len(Policies) \in Nat /\ ProbeTimeout \in Nat /\ PingTimeout \in Nat
      BY <1>1, Numbers
    <3> QED BY <3>1, Zenon DEF i
  <2>2. PICK j \in Nat : j = x - 1 /\ x = j + 1 /\ j <= len
    BY <2>1
  <2>3. age <= j * t /\ j * t \in Nat
    BY <1>5, <2>1, <2>2, ProbeAllows, TimesAre
  <2>4. CASE x <= len /\ ticks = t
    <3>1. Allowance(r) = (j + 1) * t
      BY <1>2, <2>1, <2>2, <2>4 DEF Allowance
    <3>2. (j + 1) * t = j * t + t
      OBVIOUS
    <3>3. age + t <= (j + 1) * t
      BY <2>3, <3>2
    <3> QED BY <2>1, <2>4, <3>1, <3>3
  <2>5. CASE x > len /\ ticks = ping
    <3>1. ~(x <= len) /\ j = len
      BY <2>1, <2>2, <2>5
    <3>2. Allowance(r) = len * t + ping
      BY <1>2, <2>1, <3>1 DEF Allowance, All
    <3>3. age + ping <= len * t + ping
      BY <2>3, <3>1
    <3> QED BY <2>1, <2>5, <3>2, <3>3
  <2>6. (x <= len /\ ticks = t) \/ (x > len /\ ticks = ping)
    BY <2>1
  <2> QED BY <2>4, <2>5, <2>6
<1>6. Calm' = Calm
  BY <1>4 DEF Calm, Fits
<1>7. \A q \in Procs : ~Says(r.out, q)
  BY <1>2, EmptySeq DEF Says
<1>8. Alive(p)
  BY <1>2 DEF Alive
<1>9. node' \in [Nodes -> Entry] /\ shown' \in [Nodes -> Status \cup {"absent"}]
  BY <1>1, <1>4 DEF Shape
<1>10. ASSUME Calm'
       PROVE  /\ node'[p].age + r.wait <= Allowance(r) /\ \A q \in Procs : Alive(q) =>
                   /\ node'[q].age = node[q].age /\ node'[q].status # "down"
                   /\ shown'[q] # "down" /\ q \notin r.old /\ ~Says(r.out, q)
  BY <1>2, <1>4, <1>5, <1>6, <1>7, <1>10 DEF FInv, InTime, NotTakenForDead
<1> QED BY <1>2, <1>4, <1>8, <1>9, <1>10, StepKeeps DEF Alive

\* The loop publishes a node that is no process and goes on at once.
LEMMA MoveKeeps ==
  ASSUME FInv, NEW p \in Procs, proc[p].at \in {"probe", "timeout", "sandbox"},
         proc[p].wait = 0, proc[p].out = <<>>,
         NEW at \in {"probe", "sandbox", "list"}, NEW i \in 1..Len(Policies) + 1,
         NEW n \in Shared, NEW status \in Status,
         Calm => node[p].age <= Allowance(Goes(p, at, i, 0, proc[p].since)),
         Publish(p, n, status, Goes(p, at, i, 0, proc[p].since))
  PROVE  FInv'
<1> DEFINE since == proc[p].since
           next == Goes(p, at, i, 0, since)
<1>1. since \in 0..Probe /\ Shape /\ 0 \in Waits /\ node[p].age \in Nat
  BY LoopIs, Numbers DEF FInv, LoopSet, Waits
<1>2. at \in Places \ {"dead", "mark"} /\ proc[p].at \notin {"dead", "mark"} /\ at # "dead"
  BY DEF Places
<1>3. /\ next \in LoopSet /\ InPlace(next) /\ next.at = at /\ next.wait = 0
      /\ next.old = {} /\ next.out = <<>>
  BY <1>1, <1>2, GoesOn
<1>4. n \in Nodes /\ n # p
  BY NodesAre
<1> HIDE DEF next
<1>5. Calm => node[p].age + next.wait <= Allowance(next)
  BY <1>1, <1>3 DEF next
<1>6. Publish(p, n, status, next)
  BY DEF next
<1> QED BY <1>2, <1>3, <1>4, <1>5, <1>6, PublishKeeps

LEMMA ProbePolicyKeeps ==
  ASSUME FInv, NEW p \in Procs, ProbePolicy(p)
  PROVE  FInv'
<1> DEFINE i == proc[p].i
           since == proc[p].since
           next == Goes(p, "probe", i + 1, 0, since)
<1>1. /\ (At(p, "probe") \/ At(p, "timeout")) /\ proc[p] \in LoopSet /\ Shape
      /\ i \in Nat /\ 1 <= i /\ i <= Len(Policies) /\ Len(Policies) \in Nat
  BY LoopIs, Numbers DEF FInv, LoopSet, ProbePolicy
<1>2. PICK j \in 1..Len(Policies) + 1 : j = i + 1
  BY <1>1
<1>3. next = [proc[p] EXCEPT !.at = "probe", !.i = i + 1]
  BY <1>1, LoopIs DEF LoopSet, Goes, At, FInv
<1>4. i \in 1..Len(Policies)
  BY <1>1
<1>5. Policies[i] \in Shared
  BY <1>4, NodesAre
<1>6. CASE At(p, "probe") /\ Wait(p, ProbeTimeout)
  BY <1>1, <1>6, WaitKeeps, Numbers DEF Waits
<1>7. CASE \E status \in Status : Publish(p, Policies[i], status, next)
  <2>1. PICK status \in Status : Publish(p, Policies[i], status, next)
    BY <1>7
  <2>2. proc[p].at \in {"probe", "timeout", "sandbox"} /\ proc[p].wait = 0 /\ proc[p].out = <<>>
    BY <1>1 DEF At
  <2>3. Goes(p, "probe", j, 0, since).at = "probe" /\ Goes(p, "probe", j, 0, since).i = j
    BY LoopIs DEF Goes, LoopSet, FInv
  <2>4. Allowance(Goes(p, "probe", j, 0, since)) = (j - 1) * ProbeTimeout
    BY <2>3 DEF Allowance
  <2>5. j - 1 = i
    BY <1>1, <1>2
  <2>6. Calm => node[p].age <= Allowance(Goes(p, "probe", j, 0, since))
    BY <1>1, <2>4, <2>5, ProbeAllows
  <2> QED BY <1>2, <1>5, <2>1, <2>2, <2>6, MoveKeeps
<1>8. (At(p, "probe") /\ Wait(p, ProbeTimeout)) \/ \E status \in Status : Publish(p, Policies[i], status, next)
  BY <1>3 DEF ProbePolicy, Answers, Status
<1> QED BY <1>6, <1>7, <1>8

LEMMA ProbeBridgeKeeps ==
  ASSUME FInv, NEW p \in Procs, ProbeBridge(p)
  PROVE  FInv'
<1> DEFINE i == proc[p].i
           since == proc[p].since
           next == Goes(p, "sandbox", i, 0, since)
<1>1. /\ (At(p, "probe") \/ At(p, "timeout")) /\ proc[p] \in LoopSet /\ Shape
      /\ i \in 1..Len(Policies) + 1 /\ i > Len(Policies)
  BY LoopIs, Numbers DEF FInv, LoopSet, ProbeBridge
<1>2. next = [proc[p] EXCEPT !.at = "sandbox"]
  BY <1>1, LoopIs DEF LoopSet, Goes, At, FInv
<1>3. CASE At(p, "probe") /\ Wait(p, PingTimeout)
  BY <1>1, <1>3, WaitKeeps, Numbers DEF Waits
<1>4. CASE \E status \in Status : Publish(p, Bridge, status, next)
  <2>1. PICK status \in Status : Publish(p, Bridge, status, next)
    BY <1>4
  <2>2. proc[p].at \in {"probe", "timeout", "sandbox"} /\ proc[p].wait = 0 /\ proc[p].out = <<>>
    BY <1>1 DEF At
  <2>3. next.at = "sandbox"
    BY LoopIs DEF Goes, LoopSet, FInv
  <2>4. Allowance(next) = All
    BY <2>3 DEF Allowance
  <2>5. Calm => node[p].age <= Allowance(next)
    BY <1>1, <2>4, ProbeAllows
  <2> QED BY <1>1, <2>1, <2>2, <2>5, NodesAre, MoveKeeps
<1>5. (At(p, "probe") /\ Wait(p, PingTimeout)) \/ \E status \in Status : Publish(p, Bridge, status, next)
  BY <1>2 DEF ProbeBridge, Answers, Status
<1> QED BY <1>3, <1>4, <1>5

LEMMA SaveSandboxKeeps ==
  ASSUME FInv, NEW p \in Procs, SaveSandbox(p)
  PROVE  FInv'
<1> DEFINE i == proc[p].i
           since == proc[p].since
           next == Goes(p, "list", i, 0, since)
<1>1. /\ At(p, "sandbox") /\ proc[p] \in LoopSet /\ i \in 1..Len(Policies) + 1
      /\ node[p].age \in Nat /\ proc[p].at = "sandbox" /\ proc[p].wait = 0 /\ proc[p].out = <<>>
  BY LoopIs DEF FInv, LoopSet, SaveSandbox, At
<1>2. next = [proc[p] EXCEPT !.at = "list"]
  BY <1>1 DEF LoopSet, Goes
<1>3. Publish(p, Sandbox, "up", next)
  BY <1>2 DEF SaveSandbox
<1>4. next.at = "list"
  BY <1>1 DEF Goes, LoopSet
<1>5. Calm => node[p].age + proc[p].wait <= Allowance(proc[p])
  BY <1>1 DEF FInv, InTime, Alive
<1>6. Allowance(next) = All /\ Allowance(proc[p]) = All
  BY <1>1, <1>4 DEF Allowance
<1>7. Calm => node[p].age <= Allowance(next)
  BY <1>1, <1>5, <1>6
<1> QED BY <1>1, <1>3, <1>7, NodesAre, MoveKeeps DEF Status
-----------------------------------------------------------------------------
(***************************************************************************)
(* What a loop publishes, and the nodes that it marks                      *)
(***************************************************************************)

LEMMA AnnounceKeeps ==
  ASSUME FInv, NEW p \in Procs, Announce(p)
  PROVE  FInv'
<1>1. /\ proc[p] \in LoopSet /\ InPlace(proc[p]) /\ p \in Nodes /\ proc[p].at # "dead"
      /\ proc[p].out \in Seq(EventSet) /\ proc[p].out # <<>> /\ node[p].age \in Nat
  BY LoopIs DEF FInv, LoopSet, Announce, Alive
<1>2. PICK out \in Seq(EventSet) : out = Tail(proc[p].out) /\ Len(out) = Len(proc[p].out) - 1
        /\ \A j \in 1..Len(out) : out[j] = proc[p].out[j + 1]
  <2>1. /\ Tail(proc[p].out) \in Seq(EventSet) /\ Len(Tail(proc[p].out)) = Len(proc[p].out) - 1
        /\ \A j \in 1..Len(Tail(proc[p].out)) : Tail(proc[p].out)[j] = proc[p].out[j + 1]
    BY <1>1, HeadTailProperties
  <2> QED BY <2>1, Zenon
<1>3. PICK e \in EventSet : e = Head(proc[p].out) /\ e = proc[p].out[1] /\ 1 \in DOMAIN proc[p].out
  <2>1. /\ Head(proc[p].out) \in EventSet /\ Head(proc[p].out) = proc[p].out[1]
        /\ 1 \in DOMAIN proc[p].out
    BY <1>1
  <2> QED BY <2>1, Zenon
<1> DEFINE r == [proc[p] EXCEPT !.out = out]
<1>4. proc' = [proc EXCEPT ![p] = r]
  BY <1>2 DEF Announce
<1>5. /\ r \in LoopSet /\ r.at = proc[p].at /\ r.wait = proc[p].wait /\ r.old = proc[p].old
      /\ r.out = out /\ r.i = proc[p].i
  BY <1>1 DEF LoopSet
<1> HIDE DEF r
<1>6. InPlace(r) /\ Allowance(r) = Allowance(proc[p])
  BY <1>1, <1>5 DEF InPlace, Allowance
<1>7. shown' = [shown EXCEPT ![e.id] = e.status] /\ UNCHANGED <<node, faults>>
  BY <1>3 DEF Announce
<1>8. node' \in [Nodes -> Entry] /\ shown' \in [Nodes -> Status \cup {"absent"}]
  BY <1>7 DEF FInv, Shape, EventSet
<1>9. Calm' = Calm
  BY <1>7 DEF Calm, Fits
<1>10. ASSUME Calm', NEW q \in Procs, Alive(q)
       PROVE  /\ node'[q].age = node[q].age /\ node'[q].status # "down"
              /\ shown'[q] # "down" /\ q \notin r.old /\ ~Says(r.out, q)
  <2>1. ~Says(proc[p].out, q) /\ q \notin proc[p].old /\ shown[q] # "down"
    BY <1>9, <1>10 DEF FInv, NotTakenForDead
  <2>2. ~(e.id = q /\ e.status = "down")
    BY <1>3, <2>1 DEF Says
  <2>3. shown'[q] # "down"
    BY <1>7, <2>1, <2>2, NodesAre DEF FInv, Shape
  <2>4. ASSUME Says(out, q)
        PROVE  FALSE
    <3>1. PICK j \in DOMAIN out : out[j].id = q /\ out[j].status = "down"
      BY <2>4 DEF Says
    <3>2. j + 1 \in DOMAIN proc[p].out /\ out[j] = proc[p].out[j + 1]
      BY <1>1, <1>2
    <3> QED BY <2>1, <3>1, <3>2 DEF Says
  <2>5. node'[q] = node[q] /\ node[q].status # "down"
    BY <1>7, <1>9, <1>10 DEF FInv, InTime
  <2> QED BY <1>5, <2>1, <2>3, <2>4, <2>5
<1>11. Calm' => node'[p].age + r.wait <= Allowance(r) /\ node'[p].status # "down"
  BY <1>1, <1>5, <1>6, <1>7, <1>9 DEF FInv, InTime, Alive
<1> QED BY <1>1, <1>4, <1>5, <1>6, <1>7, <1>8, <1>10, <1>11, StepKeeps

\* A loop lists the nodes with an old heartbeat: no process that lives is among them.
LEMMA ListOldKeeps ==
  ASSUME FInv, NEW p \in Procs, ListOld(p)
  PROVE  FInv'
<1>1. /\ proc[p] \in LoopSet /\ InPlace(proc[p]) /\ p \in Nodes
      /\ proc[p].at = "list" /\ proc[p].wait = 0 /\ proc[p].out = <<>>
      /\ UNCHANGED <<node, shown, faults>>
  BY LoopIs DEF FInv, ListOld, At
<1> DEFINE r == [proc[p] EXCEPT !.at = "mark", !.old = OldNodes]
<1>2. proc' = [proc EXCEPT ![p] = r]
  BY <1>1 DEF ListOld, FInv, Shape
<1>3. OldNodes \in SUBSET Nodes
  BY DEF OldNodes
<1>4. r \in LoopSet /\ r.at = "mark" /\ r.wait = 0 /\ r.old = OldNodes /\ r.out = <<>>
  BY <1>1, <1>3 DEF LoopSet, Places
<1> HIDE DEF r
<1>5. InPlace(r) /\ Allowance(r) = All /\ Allowance(proc[p]) = All
  BY <1>1, <1>4 DEF InPlace, Allowance
<1>6. Calm' = Calm
  BY <1>1 DEF Calm, Fits
<1>7. \A q \in Procs : ~Says(r.out, q)
  BY <1>4, EmptySeq DEF Says
<1>8. node' \in [Nodes -> Entry] /\ shown' \in [Nodes -> Status \cup {"absent"}]
  BY <1>1 DEF FInv, Shape
<1>9. Calm' => node'[p].age + r.wait <= Allowance(r) /\ node'[p].status # "down"
  BY <1>1, <1>4, <1>5, <1>6 DEF FInv, InTime, Alive
<1>10. Calm' => \A q \in Procs : Alive(q) =>
         /\ node'[q].age = node[q].age /\ node'[q].status # "down"
         /\ shown'[q] # "down" /\ q \notin r.old /\ ~Says(r.out, q)
  BY <1>1, <1>4, <1>6, <1>7, LiveIsYoung DEF FInv, InTime, NotTakenForDead
<1> QED BY <1>1, <1>2, <1>4, <1>5, <1>8, <1>9, <1>10, StepKeeps

\* A loop sleeps after it has marked what it listed.
LEMMA RestedIs ==
  ASSUME Shape, NEW p \in Procs, At(p, "mark"), NEW out \in Seq(EventSet)
  PROVE  /\ [Rested(p) EXCEPT !.out = out] \in LoopSet
         /\ InPlace([Rested(p) EXCEPT !.out = out])
         /\ [Rested(p) EXCEPT !.out = out].at = "beat"
         /\ [Rested(p) EXCEPT !.out = out].wait = 1
         /\ [Rested(p) EXCEPT !.out = out].old = {}
         /\ [Rested(p) EXCEPT !.out = out].out = out
<1>1. proc[p] \in LoopSet /\ 1 \in Waits /\ "beat" \in Places /\ {} \in SUBSET Nodes
  BY LoopIs, Numbers DEF Waits, Places
<1>2. PICK r : r = [Rested(p) EXCEPT !.out = out]
  OBVIOUS
<1>3. /\ r \in LoopSet /\ r.at = "beat" /\ r.wait = 1 /\ r.old = {} /\ r.out = out
  BY <1>1, <1>2 DEF LoopSet, Rested, Asleep
<1>4. InPlace(r)
  BY <1>3 DEF InPlace
<1> QED BY <1>2, <1>3, <1>4

\* What a loop lists is a finite set of nodes: it publishes one event for each.
LEMMA ListedIs ==
  ASSUME Shape, NEW p \in Procs, NEW out \in SetToSeqs(Changed(p))
  PROVE  /\ DOMAIN out = 1..Len(out) /\ Len(out) \in Nat
         /\ \A j \in DOMAIN out : out[j] \in proc[p].old
         /\ proc[p].old \subseteq Nodes
<1>1. proc[p].old \subseteq Nodes
  BY LoopIs DEF LoopSet
<1>2. Cardinality(proc[p].old) \in Nat
  BY <1>1, NodesFinite, FS_Subset, FS_CardinalityType
<1>3. out \in [1..Cardinality(proc[p].old) -> proc[p].old]
  BY DEF SetToSeqs, Changed
<1> QED BY <1>1, <1>2, <1>3

LEMMA MarkedIs ==
  ASSUME Shape, NEW ns \in SUBSET Nodes
  PROVE  /\ Marked(ns) \in [Nodes -> Entry]
         /\ \A n \in Nodes : n \notin ns => Marked(ns)[n] = node[n]
<1>1. \A n \in Nodes : [node[n] EXCEPT !.status = "down"] \in Entry /\ node[n] \in Entry
  BY DEF Shape, Entry, Status
<1> QED BY <1>1 DEF Marked

\* The table changes for the listed nodes only, and the loop sleeps.
LEMMA MarkOldKeeps ==
  ASSUME FInv, NEW p \in Procs, MarkOld(p)
  PROVE  FInv'
<1>1. /\ proc[p] \in LoopSet /\ p \in Nodes /\ At(p, "mark") /\ UNCHANGED shown /\ Shape
      /\ proc[p].at = "mark" /\ proc[p].wait = 0 /\ proc[p].old \in SUBSET Nodes
      /\ node[p].age \in Nat
  BY LoopIs DEF FInv, MarkOld, At, LoopSet
<1>2. shown' \in [Nodes -> Status \cup {"absent"}]
  BY <1>1 DEF Shape
<1>3. CASE /\ node' = Marked(proc[p].old)
           /\ \E out \in SetToSeqs(Changed(p)) :
                proc' = [proc EXCEPT ![p] = [Rested(p) EXCEPT !.out = [i \in DOMAIN out |-> Event(out[i], "down")]]]
           /\ UNCHANGED faults
  <2>1. PICK out \in SetToSeqs(Changed(p)) :
          proc' = [proc EXCEPT ![p] = [Rested(p) EXCEPT !.out = [i \in DOMAIN out |-> Event(out[i], "down")]]]
    BY <1>3
  <2>2. /\ DOMAIN out = 1..Len(out) /\ Len(out) \in Nat
        /\ \A j \in DOMAIN out : out[j] \in proc[p].old /\ out[j] \in Nodes
    BY <1>1, <2>1, ListedIs
  <2>3. PICK es : es = [i \in DOMAIN out |-> Event(out[i], "down")]
    OBVIOUS
  <2>4. /\ es \in Seq(EventSet) /\ DOMAIN es = DOMAIN out
        /\ \A j \in DOMAIN es : es[j].id \in proc[p].old
    <3>1. \A j \in DOMAIN out : Event(out[j], "down") \in EventSet /\ Event(out[j], "down").id = out[j]
      BY <2>2 DEF Event, EventSet, Status
    <3>2. es \in [1..Len(out) -> EventSet]
      BY <2>2, <2>3, <3>1
    <3> QED BY <2>2, <2>3, <3>1, <3>2
  <2> DEFINE r == [Rested(p) EXCEPT !.out = es]
  <2>5. proc' = [proc EXCEPT ![p] = r]
    BY <2>1, <2>3
  <2>6. /\ r \in LoopSet /\ InPlace(r) /\ r.at = "beat" /\ r.wait = 1 /\ r.old = {} /\ r.out = es
    BY <1>1, <2>4, RestedIs
  <2> HIDE DEF r
  <2>7. node' \in [Nodes -> Entry] /\ \A n \in Nodes : n \notin proc[p].old => node'[n] = node[n]
    BY <1>1, <1>3, MarkedIs
  <2>8. Calm' = Calm
    BY <1>3 DEF Calm, Fits
  <2>9. ASSUME Calm', NEW q \in Procs, Alive(q)
        PROVE  /\ node'[q] = node[q] /\ node[q].status # "down"
               /\ shown'[q] # "down" /\ q \notin r.old /\ ~Says(r.out, q)
    <3>1. q \notin proc[p].old /\ shown[q] # "down" /\ node[q].status # "down"
      BY <2>8, <2>9 DEF FInv, NotTakenForDead, InTime
    <3>2. ~Says(es, q)
      BY <2>4, <3>1 DEF Says
    <3> QED BY <1>1, <2>6, <2>7, <3>1, <3>2, NodesAre
  <2>10. Calm' => node'[p].age + r.wait <= Allowance(r) /\ node'[p].status # "down"
    <3> SUFFICES ASSUME Calm'
                 PROVE  node'[p].age + r.wait <= Allowance(r) /\ node'[p].status # "down"
      OBVIOUS
    <3>1. Alive(p) /\ node[p].age + 0 <= Allowance(proc[p]) /\ Allowance(proc[p]) = All
      BY <1>1, <2>8 DEF FInv, InTime, Alive, Allowance
    <3>2. Allowance(r) = All + 1
      BY <2>6 DEF Allowance
    <3> QED BY <1>1, <2>6, <2>9, <3>1, <3>2, AllowanceIs
  <2> QED BY <1>1, <1>2, <1>3, <2>5, <2>6, <2>7, <2>9, <2>10, StepKeeps
<1>4. CASE /\ Fault("save")
           /\ \E before \in SUBSET proc[p].old : before # proc[p].old /\ node' = Marked(before)
           /\ proc' = [proc EXCEPT ![p] = Rested(p)]
  <2>1. ~Calm' /\ faults \subseteq faults'
    BY <1>4, FaultsGrow DEF Calm
  <2>2. node' \in [Nodes -> Entry]
    BY <1>1, <1>4, MarkedIs
  <2>3. PICK out \in Seq(EventSet) : out = <<>> /\ proc[p].out = out
    BY <1>1, EmptySeq DEF At
  <2>4. PICK r : r = [Rested(p) EXCEPT !.out = out]
    OBVIOUS
  <2>5. r = Rested(p)
    BY <1>1, <2>3, <2>4 DEF Rested, Asleep, LoopSet
  <2>6. r \in LoopSet /\ InPlace(r)
    BY <1>1, <2>4, RestedIs
  <2> QED BY <1>2, <1>4, <2>1, <2>2, <2>5, <2>6, StepKeeps
<1> QED BY <1>3, <1>4 DEF MarkOld
-----------------------------------------------------------------------------
(***************************************************************************)
(* The clock, ends and starts of processes                                 *)
(***************************************************************************)

LEMMA OlderIs ==
  ASSUME NEW e \in Entry
  PROVE  /\ Older(e) \in Entry /\ Older(e).status = e.status
         /\ Older(e).age \in Nat /\ Older(e).age <= e.age + 1
BY Numbers DEF Entry, Older

\* A tick passes for a loop that waits.
LEMMA LaterIs ==
  ASSUME NEW r \in LoopSet, InPlace(r), r.wait > 0
  PROVE  /\ Later(r) \in LoopSet /\ InPlace(Later(r))
         /\ Later(r).wait = r.wait - 1 /\ Allowance(Later(r)) = Allowance(r)
         /\ Later(r).old = r.old /\ Later(r).out = r.out /\ Later(r).at = r.at
<1>1. /\ r.wait \in Nat /\ r.wait - 1 \in Waits /\ r.since \in 0..Probe
      /\ r.since # Probe => r.since + 1 \in 0..Probe
  BY Numbers DEF LoopSet, Waits
<1>2. PICK l : l = Later(r)
  OBVIOUS
<1>3. PICK wait \in Waits, since \in 0..Probe :
        /\ wait = r.wait - 1 /\ since = IF r.since = Probe THEN Probe ELSE r.since + 1
  BY <1>1, Numbers
<1>4. l = [r EXCEPT !.wait = wait, !.since = since]
  <2>1. (IF r.wait = 0 THEN 0 ELSE r.wait - 1) = wait
    BY <1>1, <1>3
  <2> QED BY <1>2, <1>3, <2>1, Zenon DEF Later
<1>5. /\ l \in LoopSet /\ l.wait = r.wait - 1 /\ l.i = r.i
      /\ l.old = r.old /\ l.out = r.out /\ l.at = r.at
  BY <1>3, <1>4 DEF LoopSet
<1>6. InPlace(l) /\ Allowance(l) = Allowance(r)
  BY <1>1, <1>5 DEF InPlace, Allowance
<1> QED BY <1>2, <1>5, <1>6

\* Every node grows a tick older, and every process that lives waited for it.
LEMMA TickKeeps ==
  ASSUME FInv, Tick
  PROVE  FInv'
<1>1. \A q \in Procs : /\ proc[q] \in LoopSet /\ InPlace(proc[q])
                       /\ q \in Nodes /\ node[q] \in Entry /\ node[q].age \in Nat
                       /\ proc[q].wait \in Nat
  BY LoopIs DEF FInv
<1>2. \A n \in Nodes : node'[n] = Older(node[n]) /\ node[n] \in Entry
  BY DEF Tick, FInv, Shape
<1>3. \A q \in Procs :
        /\ proc'[q] \in LoopSet /\ InPlace(proc'[q]) /\ proc'[q].at = proc[q].at
        /\ proc'[q].old = proc[q].old /\ proc'[q].out = proc[q].out
        /\ Alive(q) => /\ proc'[q].wait = proc[q].wait - 1
                       /\ Allowance(proc'[q]) = Allowance(proc[q])
  <2> TAKE q \in Procs
  <2>1. CASE Alive(q)
    BY <1>1, <2>1, LaterIs DEF Tick
  <2>2. CASE ~Alive(q)
    BY <1>1, <2>2 DEF Tick
  <2> QED BY <2>1, <2>2
<1>4. Calm' = Calm /\ shown' = shown
  BY DEF Tick, Calm, Fits
<1>5. Shape'
  <2>1. node' \in [Nodes -> Entry]
    BY <1>2, OlderIs DEF Tick
  <2>2. proc' \in [Procs -> LoopSet]
    BY <1>3 DEF Tick
  <2> QED BY <1>3, <1>4, <2>1, <2>2 DEF FInv, Shape
<1>6. InTime'
  <2> SUFFICES ASSUME Calm', NEW q \in Procs, proc'[q].at # "dead"
               PROVE  /\ node'[q].age + proc'[q].wait <= Allowance(proc'[q])
                      /\ node'[q].status # "down"
    BY DEF InTime, Alive, Allowance, All
  <2>1. Alive(q)
    BY <1>3 DEF Alive
  <2>2. node[q].age + proc[q].wait <= Allowance(proc[q]) /\ node[q].status # "down"
    BY <1>4, <2>1 DEF FInv, InTime
  <2>3. node'[q].age <= node[q].age + 1 /\ node'[q].status = node[q].status /\ node'[q].age \in Nat
    BY <1>1, <1>2, OlderIs
  <2>4. proc'[q].wait = proc[q].wait - 1 /\ Allowance(proc'[q]) = Allowance(proc[q])
    BY <1>3, <2>1
  <2> QED BY <1>1, <2>2, <2>3, <2>4, AllowanceIs
<1>7. NotTakenForDead'
  BY <1>3, <1>4 DEF FInv, NotTakenForDead, Alive, Says
<1> QED BY <1>5, <1>6, <1>7 DEF FInv

\* Whatever a process that ends or starts leaves behind is its own.
LEMMA DieKeeps ==
  ASSUME FInv, NEW p \in Procs, Die(p)
  PROVE  FInv'
<1> DEFINE r == [Started EXCEPT !.at = "dead"]
<1>1. r \in LoopSet /\ InPlace(r) /\ r.at = "dead" /\ r.old = {} /\ r.out = <<>>
  BY StartedIs
<1>2. proc' = [proc EXCEPT ![p] = r] /\ UNCHANGED <<node, shown>>
  BY DEF Die
<1> HIDE DEF r
<1>3. faults \subseteq faults' /\ (Calm' => Calm)
  BY FaultsGrow, CalmBefore DEF Die
<1>4. node' \in [Nodes -> Entry] /\ shown' \in [Nodes -> Status \cup {"absent"}]
  BY <1>2 DEF FInv, Shape
<1>5. \A q \in Procs : ~Says(r.out, q)
  BY <1>1, EmptySeq DEF Says
<1>6. Calm' => \A q \in Procs : Alive(q) =>
        /\ node'[q].age = node[q].age /\ node'[q].status # "down"
        /\ shown'[q] # "down" /\ q \notin r.old /\ ~Says(r.out, q)
  BY <1>1, <1>2, <1>3, <1>5 DEF FInv, InTime, NotTakenForDead
<1> QED BY <1>1, <1>2, <1>3, <1>4, <1>6, StepKeeps

LEMMA StartAgainKeeps ==
  ASSUME FInv, NEW p \in Procs, StartAgain(p)
  PROVE  FInv'
<1>1. ~Calm' /\ faults \subseteq faults'
  BY FaultsGrow DEF StartAgain, Calm
<1>2. node' \in [Nodes -> Entry] /\ shown' \in [Nodes -> Status \cup {"absent"}]
  BY DEF FInv, Shape, StartAgain
<1>3. proc' = [proc EXCEPT ![p] = Started]
  BY DEF StartAgain
<1> QED BY <1>1, <1>2, <1>3, StartedIs, StepKeeps

LEMMA TroubleKeeps ==
  ASSUME FInv, Trouble
  PROVE  FInv'
<1>1. UNCHANGED <<node, shown, proc>> /\ (Calm' => Calm)
  BY FaultsGrow, CalmBefore DEF Trouble
<1> QED BY <1>1 DEF FInv, Shape, InTime, NotTakenForDead, Alive, Allowance, All, Says, InPlace

LEMMA NothingKeeps ==
  ASSUME FInv, UNCHANGED fvars
  PROVE  FInv'
BY DEF fvars, FInv, Shape, InTime, NotTakenForDead, Alive, Allowance, All, Says, InPlace, Calm, Fits

LEMMA FInitHolds == FInit => FInv
<1> SUFFICES ASSUME FInit PROVE FInv
  OBVIOUS
<1>1. Absent \in Entry /\ Absent.status = "absent" /\ Absent.age = 0
  BY Numbers DEF Absent, Entry
<1>2. \A p \in Procs : proc[p] = Started /\ node[p] = Absent /\ shown[p] = "absent"
  BY NodesAre DEF FInit
<1>3. Shape
  BY <1>1, StartedIs DEF FInit, Shape
<1>4. Allowance(Started) = All + 1 /\ All \in Nat
  BY StartedIs, AllowanceIs DEF Allowance
<1>5. InTime
  BY <1>1, <1>2, <1>4, StartedIs DEF InTime
<1>6. \A q : ~Says(<<>>, q)
  BY EmptySeq DEF Says
<1>7. NotTakenForDead
  BY <1>2, <1>6, StartedIs DEF NotTakenForDead
<1> QED BY <1>3, <1>5, <1>7 DEF FInv

LEMMA FNextKeeps == FInv /\ [FNext]_fvars => FInv'
<1> SUFFICES ASSUME FInv, [FNext]_fvars PROVE FInv'
  OBVIOUS
<1>1. ASSUME NEW p \in Procs, LoopStep(p)
      PROVE  FInv'
  BY <1>1, AnnounceKeeps, BeatKeeps, ProbePolicyKeeps, ProbeBridgeKeeps, SaveSandboxKeeps,
     ListOldKeeps, MarkOldKeeps DEF LoopStep
<1>2. ASSUME NEW p \in Procs, Die(p) \/ StartAgain(p)
      PROVE  FInv'
  BY <1>2, DieKeeps, StartAgainKeeps
<1>3. CASE Tick \/ Trouble
  BY <1>3, TickKeeps, TroubleKeeps
<1>4. CASE UNCHANGED fvars
  BY <1>4, NothingKeeps
<1> QED BY <1>1, <1>2, <1>3, <1>4 DEF FNext

LEMMA FInvTypes == FInv => FTypeOK
BY LoopIs, NodesAre DEF FInv, Shape, FTypeOK, Entry, LoopSet, InPlace, Places, Waits, Alive

LEMMA FInvLive == FInv => LiveNeverDown
<1>1. ASSUME FInv, Calm, NEW p \in Procs, Alive(p)
      PROVE  /\ node[p].status # "down" /\ shown[p] # "down"
             /\ \A q \in Procs : p \notin proc[q].old
  BY <1>1 DEF FInv, InTime, NotTakenForDead
<1> QED BY <1>1 DEF LiveNeverDown, Calm

LEMMA FInvHolds == FSpec => []FInv
BY FInitHolds, FNextKeeps, PTL DEF FSpec
-----------------------------------------------------------------------------
(***************************************************************************)
(* The theorems                                                            *)
(***************************************************************************)

\* The node table, what dashboards were shown and the state of every loop keep their
\* types; a loop is not in the middle of a list when it starts its next turn, and a
\* process that died has nothing left to publish (the loop of fleet::spawn).
THEOREM FleetTypeCorrect == FSpec => []FTypeOK
BY FInvTypes, FInvHolds, PTL

\* Whatever number of servers, policies and timeouts: as long as all the endpoints that
\* do not answer and the sleep fit into STALE_AFTER_SECS, saves work and no process is
\* started again, expire_nodes marks, lists or shows no server that runs as down.
THEOREM LiveKeptUp == FSpec => []LiveNeverDown
BY FInvLive, FInvHolds, PTL
=============================================================================

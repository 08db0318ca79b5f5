------------------------------- MODULE Fleet --------------------------------
(***************************************************************************)
(* The fleet registry: every server process runs a loop that saves its own  *)
(* node, probes the policy endpoints one after the other, pings the bridge, *)
(* saves the sandbox, and marks nodes with an old heartbeat as down.  The   *)
(* table of nodes is shared; NodeUpdated events are what dashboards see.    *)
(*                                                                          *)
(* Time is a clock of five seconds, HEARTBEAT: a loop takes no time except  *)
(* where it sleeps or waits for an endpoint that does not answer.           *)
(***************************************************************************)
EXTENDS Integers, FiniteSets, SequencesExt

CONSTANTS
  Procs,           \* server processes, by worker id
  Policies,        \* the policy nodes, a sequence in the order of the profiles
  Bridge, Sandbox, \* the other nodes that all processes save
  ProbeTimeout,    \* ticks until the HTTP client gives up: 1
  PingTimeout,     \* ticks until the ping of the bridge gives up: 2
  Probe,           \* PROBE, 3 ticks
  Stale,           \* STALE_AFTER_SECS, 6 ticks
  Together         \* bound: the sets of disturbances that one behaviour may meet

Shared == {Policies[i] : i \in 1..Len(Policies)} \cup {Bridge, Sandbox}
Nodes  == Procs \cup Shared

Disturbances == {"crash", "restart", "trouble", "save"}

ASSUME FleetAssumption ==
  /\ IsFiniteSet(Procs) /\ Procs \cap Shared = {} /\ Len(Policies) \in Nat
  /\ {ProbeTimeout, PingTimeout, Probe, Stale} \subseteq Nat \ {0}
  /\ Together \subseteq SUBSET Disturbances

VARIABLES
  node,    \* the nodes table: status and age of last_seen, at most Stale
  shown,   \* status in the last NodeUpdated event of each node
  proc,    \* the loop of each process
  faults   \* the kinds of disturbances that happened

fvars == <<node, shown, proc, faults>>

Status == {"up", "down"}
Absent == [status |-> "absent", age |-> 0]

\* at: where the loop is, i: the profile it probes, wait: ticks it still waits,
\* since: ticks since the last probe, at most Probe, old: the nodes expire_nodes
\* listed, out: events it is about to publish.
Started == [at |-> "beat", i |-> 1, wait |-> 0, since |-> Probe, old |-> {}, out |-> <<>>]

FInit ==
  /\ node = [n \in Nodes |-> Absent]
  /\ shown = [n \in Nodes |-> "absent"]
  /\ proc = [p \in Procs |-> Started]
  /\ faults = {}

Fault(kind) ==
  /\ kind \notin faults /\ \E ds \in Together : faults \cup {kind} \subseteq ds
  /\ faults' = faults \cup {kind}

Alive(p) == proc[p].at # "dead"
At(p, at) == proc[p].at = at /\ proc[p].wait = 0 /\ proc[p].out = <<>>

Event(n, status) == [id |-> n, status |-> status]
-----------------------------------------------------------------------------
\* publish: upsert_node, then the event; a failed upsert publishes nothing.  The
\* loop goes on at the given point.
Publish(p, n, status, next) ==
  \/ /\ node' = [node EXCEPT ![n] = [status |-> status, age |-> 0]]
     /\ proc' = [proc EXCEPT ![p] = [next EXCEPT !.out = <<Event(n, status)>>]]
     /\ UNCHANGED <<shown, faults>>
  \/ /\ Fault("save")
     /\ proc' = [proc EXCEPT ![p] = next]
     /\ UNCHANGED <<node, shown>>

\* bus.publish of the next event.
Announce(p) ==
  /\ Alive(p) /\ proc[p].out # <<>>
  /\ shown' = [shown EXCEPT ![Head(proc[p].out).id] = Head(proc[p].out).status]
  /\ proc' = [proc EXCEPT ![p].out = Tail(proc[p].out)]
  /\ UNCHANGED <<node, faults>>

Due(p) == proc[p].since >= Probe

Asleep(p) == [proc[p] EXCEPT !.at = "beat", !.wait = 1]

\* The node of the process itself, at every turn of the loop; every PROBE the
\* endpoints are next.
Beat(p) ==
  /\ At(p, "beat")
  /\ Publish(p, p, "up", IF Due(p) THEN [proc[p] EXCEPT !.at = "probe", !.since = 0, !.i = 1]
                         ELSE Asleep(p))

\* An endpoint answers, refuses, or holds the loop until the client gives up.
Answers == IF "trouble" \in faults THEN Status ELSE {"up"}

Wait(p, ticks) ==
  /\ "trouble" \in faults
  /\ proc' = [proc EXCEPT ![p].at = "timeout", ![p].wait = ticks]
  /\ UNCHANGED <<node, shown, faults>>

\* probe_policies: one endpoint after the other.
ProbePolicy(p) ==
  LET n == Policies[proc[p].i]
      next == [proc[p] EXCEPT !.at = "probe", !.i = proc[p].i + 1]
  IN  /\ proc[p].i <= Len(Policies)
      /\ \/ /\ At(p, "probe")
            /\ Wait(p, ProbeTimeout) \/ \E status \in Answers : Publish(p, n, status, next)
         \/ At(p, "timeout") /\ Publish(p, n, "down", next)

\* probe_bridge, of a deployment that needs it.  The deadline of the ping starts when its line
\* is written: the model takes the locks of the bridge before to be free, so that PingTimeout
\* covers the whole probe.
ProbeBridge(p) ==
  LET next == [proc[p] EXCEPT !.at = "sandbox"]
  IN  /\ proc[p].i > Len(Policies)
      /\ \/ /\ At(p, "probe")
            /\ Wait(p, PingTimeout) \/ \E status \in Answers : Publish(p, Bridge, status, next)
         \/ At(p, "timeout") /\ Publish(p, Bridge, "down", next)

SaveSandbox(p) ==
  At(p, "sandbox") /\ Publish(p, Sandbox, "up", [proc[p] EXCEPT !.at = "list"])

OldSinceProbe == {n \in Nodes : node[n].status = "up" /\ node[n].age >= Probe}

\* expire_nodes lists the nodes with an old heartbeat.  A whole number of timeouts
\* takes a little longer than its ticks: an age of Stale is older than the cutoff.
OldNodes == {n \in Nodes : node[n].status = "up" /\ node[n].age >= Stale}

ListOld(p) ==
  /\ At(p, "list")
  /\ proc' = [proc EXCEPT ![p].at = "mark", ![p].old = OldNodes]
  /\ UNCHANGED <<node, shown, faults>>

\* It marks them under a second lock, whatever was saved since, and the loop
\* publishes them one by one, in any order here.
Marked(ns) == [n \in Nodes |-> IF n \in ns THEN [node[n] EXCEPT !.status = "down"] ELSE node[n]]

ChangedAfter(p) == {n \in proc[p].old : Marked(proc[p].old)[n].status # "down"}
Changed(p) == proc[p].old

RestedListed(p) == Asleep(p)
Rested(p) == [Asleep(p) EXCEPT !.old = {}]

\* There is no transaction: an UPDATE that fails leaves those before it, and none of
\* them is published.
MarkOld(p) ==
  /\ At(p, "mark")
  /\ \/ /\ node' = Marked(proc[p].old)
        /\ \E out \in SetToSeqs(Changed(p)) :
             proc' = [proc EXCEPT ![p] = [Rested(p) EXCEPT !.out = [i \in DOMAIN out |-> Event(out[i], "down")]]]
        /\ UNCHANGED faults
     \/ /\ Fault("save")
        /\ \E before \in SUBSET proc[p].old : before # proc[p].old /\ node' = Marked(before)
        /\ proc' = [proc EXCEPT ![p] = Rested(p)]
  /\ UNCHANGED shown
-----------------------------------------------------------------------------
\* The clock: all processes that live wait.
Older(r) == IF r.status = "absent" \/ r.age = Stale THEN r ELSE [r EXCEPT !.age = r.age + 1]

Later(r) == [r EXCEPT !.wait = IF r.wait = 0 THEN 0 ELSE r.wait - 1,
                      !.since = IF r.since = Probe THEN Probe ELSE r.since + 1]

Tick ==
  /\ \A p \in Procs : Alive(p) => proc[p].wait > 0 /\ proc[p].out = <<>>
  /\ node' = [n \in Nodes |-> Older(node[n])]
  /\ proc' = [p \in Procs |-> IF Alive(p) THEN Later(proc[p]) ELSE proc[p]]
  /\ UNCHANGED <<shown, faults>>

\* A process ends, between any two steps, and may be started again.
Die(p) ==
  /\ Alive(p) /\ Fault("crash")
  /\ proc' = [proc EXCEPT ![p] = [Started EXCEPT !.at = "dead"]]
  /\ UNCHANGED <<node, shown>>

StartAgain(p) ==
  /\ ~Alive(p) /\ Fault("restart")
  /\ proc' = [proc EXCEPT ![p] = Started]
  /\ UNCHANGED <<node, shown>>

\* From now on endpoints may refuse or fail to answer.
Trouble == Fault("trouble") /\ UNCHANGED <<node, shown, proc>>

LoopStep(p) ==
  \/ Announce(p) \/ Beat(p) \/ ProbePolicy(p) \/ ProbeBridge(p) \/ SaveSandbox(p)
  \/ ListOld(p) \/ MarkOld(p)

FNext ==
  \/ \E p \in Procs : LoopStep(p) \/ Die(p) \/ StartAgain(p)
  \/ Tick \/ Trouble

FFairness == WF_fvars(Tick) /\ \A p \in Procs : WF_fvars(LoopStep(p))

FSpec == FInit /\ [][FNext]_fvars /\ FFairness
-----------------------------------------------------------------------------
\* Every variable keeps its type, what a loop listed is marked before it goes on, and a
\* process that died publishes nothing.
FTypeOK ==
  /\ node \in [Nodes -> [status : Status \cup {"absent"}, age : 0..Stale]]
  /\ shown \in [Nodes -> Status \cup {"absent"}]
  /\ \A p \in Procs :
       /\ proc[p].at \in {"beat", "probe", "timeout", "sandbox", "list", "mark", "dead"}
       /\ proc[p].wait \in 0..ProbeTimeout \cup 0..PingTimeout /\ proc[p].since \in 0..Probe
       /\ proc[p].old \subseteq Nodes /\ (proc[p].old # {} => proc[p].at = "mark")
       /\ ~Alive(p) => proc[p].out = <<>>

\* All the endpoints that do not answer, and the sleep, fit into STALE_AFTER_SECS:
\* a loop can be relied upon to save its node in time.
Fits == Len(Policies) * ProbeTimeout + PingTimeout + 1 < Stale

\* The node of a process that lives is not marked or shown as down, nor listed for it,
\* by its own loop or that of another process, as long as saves work and no process
\* was started again between the listing and the marking.
LiveNeverDown ==
  Fits /\ faults \cap {"restart", "save"} = {} =>
    \A p \in Procs : Alive(p) => /\ node[p].status # "down" /\ shown[p] # "down"
                                /\ \A q \in Procs : p \notin proc[q].old

DeadShownDown == \A p \in Procs :
  (~Alive(p) /\ \E q \in Procs : Alive(q)) ~>
    (Alive(p) \/ shown[p] \in {"down", "absent"} \/ "save" \in faults)

AliveShownUp == \A p \in Procs : (Alive(p) /\ shown[p] = "down") ~> (shown[p] = "up" \/ ~Alive(p))

\* A process that died is shown as down in the end, if another one lives on and marks
\* the whole list, and a process that lives is not shown as down for ever.
NodesSettle == DeadShownDown /\ AliveShownUp
=============================================================================

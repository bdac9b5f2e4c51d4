-------------------------------- MODULE Etw --------------------------------
(***************************************************************************)
(* The Windows sensor of killline-sensor/src/etw.rs.  It learns the        *)
(* agent's process tree from the start and stop events of a trace session, *)
(* which one callback thread receives late (the session's buffers are      *)
(* flushed every second) and may lose; what concerns a tracked process     *)
(* goes through a bounded queue to the monitor's poll.  Network and DNS    *)
(* events are rate-limited per process and destination.                    *)
(*                                                                         *)
(* An agent that Kill Line launches is created suspended and released once *)
(* the session runs; one it attaches to goes on while the sensor starts.   *)
(* Windows never forgets a parent's id: `procs[p].ppid' may name a process *)
(* that is gone, or another one that has been given its id.                *)
(*                                                                         *)
(* The queue is a channel of the standard library, here the number of its  *)
(* elements.  `agent' in a process and in an event, `misseeded', `reported' *)
(* and `hidden' are the truth the sensor is compared with.                 *)
(***************************************************************************)
EXTENDS Naturals, Sequences, FiniteSets, SequencesExt

CONSTANTS
  Pids, Root,     \* process ids; Root is the agent's first process
  Calls,          \* what processes do: [kind, dest], see Kinds
  QueueCap,       \* QUEUE
  Limit,          \* seconds a destination stays quiet, per kind of event
  MaxRecent,      \* entries kept before a rate-limiting map is cleared
  MaxPoll,        \* `max' of poll()
  MaxStarts, MaxCalls, MaxLosses,  \* bounds on what happens
  MaxBuffer       \* bound: events in the session's buffers

Kinds == {"file", "net", "dns"}
Dests == {c.dest : c \in Calls}   \* paths, addresses or names

ASSUME EtwCalls == \A c \in Calls : c.kind \in Kinds
ASSUME EtwRoot == Root \in Pids /\ IsFiniteSet(Pids)
ASSUME EtwLimits == Limit \in [{"net", "dns"} -> Nat \ {0}]
ASSUME EtwBounds ==
  /\ QueueCap \in Nat \ {0} /\ MaxRecent \in Nat /\ MaxPoll \in Nat \ {0}
  /\ MaxStarts \in Nat /\ MaxCalls \in Nat /\ MaxLosses \in Nat
  /\ MaxBuffer \in Nat \ {0}

VARIABLES
  procs,      \* the processes: [live, agent, ppid] by id
  phase,      \* "off", "named" (the parents are known), then the session's:
              \* "on" or "gone"
  seeds,      \* scope.pids whose exec record Sensor::start has yet to send
  agent,      \* "attached", or launched and "held" or "released"
  etw,        \* events in the session's buffers, in order
  etwLost,    \* EventsLost + RealTimeBuffersLost
  tracked, names,
  recent,     \* recent_net and recent_dns: seconds since, by pid and dest
  queue, queueLost,
  misseeded,  \* the session began with seeds, or parents, not the agent's
  reported,   \* the calls of agents that were queued: [kind, pid, dest]
  hidden,     \* those that were not, and had not been before
  starts, calls

worldVars == <<procs, agent, starts, calls>>
sensorVars == <<tracked, names, recent, queue, queueLost>>
truthVars == <<misseeded, reported, hidden>>
startVars == <<phase, seeds>>
vars == <<worldVars, sensorVars, truthVars, startVars, etw, etwLost>>

NoPid == "none"
Live == {p \in Pids : procs[p].live}
Agent == {p \in Live : procs[p].agent}

-----------------------------------------------------------------------------
(* Startup.                                                                *)

(* pid_tree(): Root and what a snapshot gives as its descendants, by the   *)
(* ids of their parents.  Two generations are all there is at startup.     *)
PidTree ==
  LET With(s) == s \cup {p \in Live : procs[p].ppid \in s}
  IN  With(With({Root}))

(* The agent is launched and held, or has been running, perhaps with a     *)
(* child; beside it may run a process of the host, whose parent is gone    *)
(* and may have had Root's id.                                             *)
Init ==
  /\ agent \in {"attached", "held"}
  /\ \E mine, host \in SUBSET (Pids \ {Root}), had \in {NoPid, Root} :
       /\ mine \cap host = {} /\ (agent = "held" => mine = {})
       /\ Cardinality(mine) <= 1 /\ Cardinality(host) <= 1
       /\ procs = [p \in Pids |->
            [live |-> p \in {Root} \cup mine \cup host,
             agent |-> p \in {Root} \cup mine,
             ppid |-> IF p \in mine THEN Root
                      ELSE IF p \in host THEN had ELSE NoPid]]
  /\ tracked = IF agent = "held" THEN {Root} ELSE PidTree
  /\ seeds = tracked
  /\ phase = "off" /\ etw = <<>> /\ etwLost = 0
  /\ names = [p \in Pids |-> NoPid]
  /\ recent = [net |-> {}, dns |-> {}]
  /\ queue = 0 /\ queueLost = 0
  /\ misseeded = FALSE /\ reported = {} /\ hidden = {}
  /\ starts = 0 /\ calls = 0

-----------------------------------------------------------------------------
(* emit() and poll(): the queue to the monitor.                            *)

(* try_send of n observations in turn: what does not fit is counted.       *)
Sent(n) ==
  LET fit == IF n <= QueueCap - queue THEN n ELSE QueueCap - queue
  IN  queue' = queue + fit /\ queueLost' = queueLost + n - fit

(* Sensor::start has returned.                                             *)
Started == phase \in {"on", "gone"} /\ seeds = {}

Poll ==
  /\ Started /\ queue > 0
  /\ queue' = IF queue <= MaxPoll THEN 0 ELSE queue - MaxPoll
  /\ UNCHANGED <<worldVars, truthVars, startVars, etw, etwLost, tracked, names,
                 recent, queueLost>>

(* Sensor::start, while an attached agent goes on: the parents of what     *)
(* runs,                                                                   *)
Snapshot ==
  /\ phase = "off"
  /\ phase' = "named"
  /\ names' = [p \in Pids |-> IF p \in Live THEN procs[p].ppid ELSE NoPid]
  /\ UNCHANGED <<worldVars, truthVars, seeds, etw, etwLost, tracked, recent,
                 queue, queueLost>>

(* the session (start_and_process),                                        *)
Start ==
  /\ phase = "named"
  /\ phase' = "on"
  /\ misseeded' = \/ tracked # Agent
                  \/ \E p \in Agent : names[p] # procs[p].ppid
  /\ UNCHANGED <<worldVars, sensorVars, seeds, etw, etwLost, reported, hidden>>

(* and an exec record for each seed that has an image.                     *)
Seed(p) ==
  /\ phase \in {"on", "gone"} /\ p \in seeds
  /\ seeds' = seeds \ {p}
  /\ Sent(IF p \in Live THEN 1 ELSE 0)
  /\ UNCHANGED <<worldVars, truthVars, phase, etw, etwLost, tracked, names,
                 recent>>

(* Launched::release, once the sensor has started.                         *)
Release ==
  /\ agent = "held" /\ Started
  /\ agent' = "released"
  /\ UNCHANGED <<procs, starts, calls, sensorVars, truthVars, startVars, etw,
                 etwLost>>

-----------------------------------------------------------------------------
(* The agent, the host and the trace session.                              *)

Runs(p) == p \in Live /\ ~(agent = "held" /\ p = Root)

(* An event of the session, if it has begun; what happens once it is gone  *)
(* is left out.                                                            *)
Traced(e) ==
  /\ phase # "gone" /\ Len(etw) < MaxBuffer
  /\ etw' = IF phase = "on" THEN Append(etw, e) ELSE etw

Spawn(p, c) ==
  /\ Runs(p) /\ c \notin Live /\ starts < MaxStarts
  /\ starts' = starts + 1
  /\ procs' = [procs EXCEPT ![c] = [live |-> TRUE, agent |-> procs[p].agent,
                                    ppid |-> p]]
  /\ Traced([type |-> "start", pid |-> c, ppid |-> p])
  /\ UNCHANGED <<agent, calls, sensorVars, truthVars, startVars, etwLost>>

Exit(p) ==
  /\ Runs(p)
  /\ procs' = [procs EXCEPT ![p].live = FALSE]
  /\ Traced([type |-> "stop", pid |-> p])
  /\ UNCHANGED <<agent, starts, calls, sensorVars, truthVars, startVars,
                 etwLost>>

(* A call of the agent; those of other processes end at is_tracked(), and  *)
(* whether it is right about them is TreeIsTracked.                        *)
Call(p, c) ==
  /\ Runs(p) /\ procs[p].agent /\ calls < MaxCalls
  /\ calls' = calls + 1
  /\ Traced([type |-> "call", pid |-> p, kind |-> c.kind, dest |-> c.dest])
  /\ UNCHANGED <<procs, agent, starts, sensorVars, truthVars, startVars,
                 etwLost>>

(* The session loses an event, and counts it.                              *)
Lose(i) ==
  /\ phase = "on" /\ i \in 1..Len(etw) /\ etwLost < MaxLosses
  /\ etw' = RemoveAt(etw, i)
  /\ etwLost' = etwLost + 1
  /\ UNCHANGED <<worldVars, sensorVars, truthVars, startVars>>

(* Another administrator stops the session.                                *)
SessionStops ==
  /\ phase = "on"
  /\ phase' = "gone" /\ etw' = <<>>
  /\ UNCHANGED <<worldVars, sensorVars, truthVars, seeds, etwLost>>

Second ==
  /\ recent' = [k \in {"net", "dns"} |->
       {[r EXCEPT !.age = IF r.age < Limit[k] THEN r.age + 1 ELSE r.age] :
          r \in recent[k]}]
  /\ UNCHANGED <<worldVars, truthVars, startVars, etw, etwLost, tracked, names,
                 queue, queueLost>>

-----------------------------------------------------------------------------
(* The callbacks.                                                          *)

(* on_process, event 1: a fork of the parent and an exec of the child.     *)
OnStart(e) ==
  /\ names' = [names EXCEPT ![e.pid] = e.ppid]
  /\ \/ /\ e.ppid \notin tracked
        /\ UNCHANGED <<tracked, queue, queueLost>>
     \/ /\ e.ppid \in tracked
        /\ tracked' = tracked \cup {e.pid}
        /\ Sent(2)
  /\ UNCHANGED <<recent, reported, hidden>>

(* Faulty: a process that has ended stays tracked.                         *)
OnStopKept(e) ==
  /\ Sent(IF e.pid \in tracked THEN 1 ELSE 0)
  /\ UNCHANGED <<tracked, names, recent, reported, hidden>>

(* on_process, event 2.                                                    *)
OnStop(e) ==
  /\ tracked' = tracked \ {e.pid}
  /\ Sent(IF e.pid \in tracked THEN 1 ELSE 0)
  /\ UNCHANGED <<names, recent, reported, hidden>>

(* Faulty: the limit is per process.                                       *)
RepeatsAny(e) ==
  /\ e.kind # "file"
  /\ \E r \in recent[e.kind] : r.pid = e.pid /\ r.age < Limit[e.kind]

(* A destination that this process was seen with a short while ago.        *)
Repeats(e) ==
  /\ e.kind # "file"
  /\ \E r \in recent[e.kind] :
       r.pid = e.pid /\ r.dest = e.dest /\ r.age < Limit[e.kind]

(* Faulty: the map grows without bound.                                    *)
NotedEver(rs, e) ==
  {r \in rs : r.pid # e.pid \/ r.dest # e.dest}
    \cup {[pid |-> e.pid, dest |-> e.dest, age |-> 0]}

(* recent.clear() if it has grown too large, then recent.insert().         *)
Noted(rs, e) ==
  {r \in rs : Cardinality(rs) <= MaxRecent /\ (r.pid # e.pid \/ r.dest # e.dest)}
    \cup {[pid |-> e.pid, dest |-> e.dest, age |-> 0]}

(* on_file, on_network and on_dns.  The destination is noted whether or    *)
(* not the queue then takes the observation.                               *)
OnCall(e) ==
  LET call == [kind |-> e.kind, pid |-> e.pid, dest |-> e.dest]
      sent == e.pid \in tracked /\ ~Repeats(e)
  IN /\ Sent(IF sent THEN 1 ELSE 0)
     /\ recent' = IF sent /\ e.kind # "file"
                  THEN [recent EXCEPT ![e.kind] = Noted(recent[e.kind], e)]
                  ELSE recent
     /\ IF sent /\ queue < QueueCap
        THEN reported' = reported \cup {call} /\ UNCHANGED hidden
        ELSE /\ hidden' = IF call \notin reported
                          THEN hidden \cup {call} ELSE hidden
             /\ UNCHANGED reported
     /\ UNCHANGED <<tracked, names>>

(* The callback thread takes the events one at a time, in order.           *)
Callback ==
  /\ phase = "on" /\ etw # <<>>
  /\ etw' = Tail(etw)
  /\ LET e == Head(etw)
     IN \/ e.type = "start" /\ OnStart(e)
        \/ e.type = "stop" /\ OnStop(e)
        \/ e.type = "call" /\ OnCall(e)
  /\ UNCHANGED <<worldVars, misseeded, startVars, etwLost>>

(* What the sensor and the session do, and what a process does.            *)
Sensing ==
  \/ Snapshot \/ Start \/ Release \/ Callback \/ Poll \/ Second
  \/ SessionStops
  \/ \E p \in Pids : Seed(p)
  \/ \E i \in 1..Len(etw) : Lose(i)

Acts(p) ==
  \/ \E c \in Pids : Spawn(p, c)
  \/ Exit(p)
  \/ \E c \in Calls : Call(p, c)

Next == Sensing \/ \E p \in Pids : Acts(p)

Spec == Init /\ [][Next]_vars

-----------------------------------------------------------------------------
Notes(k) == [pid : Pids, dest : Dests, age : 0..Limit[k]]

(* Type correctness; the queue and the rate-limiting maps keep their       *)
(* bounds, and a map has one entry per process and destination.            *)
TypeOK ==
  /\ procs \in [Pids -> [live : BOOLEAN, agent : BOOLEAN,
                         ppid : Pids \cup {NoPid}]]
  /\ phase \in {"off", "named", "on", "gone"} /\ seeds \in SUBSET Pids
  /\ agent \in {"attached", "held", "released"}
  /\ etwLost \in Nat /\ queueLost \in Nat /\ misseeded \in BOOLEAN
  /\ tracked \in SUBSET Pids /\ names \in [Pids -> Pids \cup {NoPid}]
  /\ queue \in 0..QueueCap
  /\ \A k \in {"net", "dns"} :
       /\ recent[k] \in SUBSET Notes(k)
       /\ Cardinality(recent[k]) <= MaxRecent + 1
       /\ \A r, s \in recent[k] : r.pid = s.pid /\ r.dest = s.dest => r = s

(* Nothing was lost inside the session, or, in case the agent was running  *)
(* already, before it began.                                               *)
Complete ==
  /\ phase = "on" /\ etwLost = 0
  /\ agent = "attached" => ~misseeded

(* Once the callback has caught up, the tracked set is the agent's tree    *)
(* and `names' gives each its parent, however ids were reused and whoever  *)
(* ended first, unless events were lost (on_process); an agent that was    *)
(* running already may change between the snapshot of the seeds and the    *)
(* session, while of a launched one "not a single syscall happens          *)
(* unobserved" (launch.rs).                                                *)
TreeIsTracked ==
  Complete /\ etw = <<>> =>
    tracked = Agent /\ \A p \in tracked : names[p] = procs[p].ppid

(* "anything that cannot be delivered is counted as lost": whatever an     *)
(* agent's process did is reported, under its id, unless the sensor counts *)
(* losses; rate limiting hides repetitions only.                           *)
NothingHidden ==
  Complete /\ queueLost = 0 => hidden = {}
=============================================================================

------------------------------ MODULE Monitor ------------------------------
(***************************************************************************)
(* The monitoring loop of killline-cli/src/monitor.rs, run(), together     *)
(* with what it shares with the rest of the world: the sensor's bounded    *)
(* ring of observations, the agent's processes, the session directory      *)
(* (timeline.jsonl, session.json, control.json), the incident bundles, and *)
(* the clock.                                                              *)
(*                                                                         *)
(* The loop is single-threaded, so its local state changes in program      *)
(* order, one action per stretch of code between two points where another  *)
(* actor, or a crash, can be seen.  `pc' names the stretch:                *)
(*                                                                         *)
(*   record (-> bundle -> record) -> enforce -> poll -> control            *)
(*     -> act -> record, or                                                *)
(*     -> tick (-> finalise -> flush -> save -> alive -> drain) -> record  *)
(*   shutdown -> endflush -> endsave -> done            crashed            *)
(*                                                                         *)
(* An observation is represented by what Engine::process makes of it: a    *)
(* sequence of event bodies (none for a kernel confirmation of an allowed  *)
(* open, one, or one followed by anomalies).  A breach is named by `rule', *)
(* which stands for the key category|policy_rule|resource.                 *)
(***************************************************************************)
EXTENDS Session, Sequences, FiniteSets

CONSTANTS
  Breaches,         \* the keys that distinguish one breach from another
  Observations,     \* what the agent may do: a set of sequences of bodies
  Procs, Root,      \* the agent's processes; Root is the one waited for
  Response,         \* response.violation: "alert", "freeze" or "terminate"
  OnDegraded,       \* response.on_degraded, likewise
  Platforms,        \* where the monitor may run: "container" (docker acts and
                    \* may fail), "tree" (a process tree of Linux), "windows"
  MaxIncidents,     \* MAX_INCIDENTS_PER_SESSION
  QuietTicks,       \* QUIET_TICKS_BEFORE_EXIT
  Window,           \* seconds of post-trigger context of an incident
  RingCap, MaxPoll, \* capacity of the ring; records read by one poll
  MaxObs,           \* bound: observations the agent makes
  MaxRequests       \* bound: dashboard requests accepted

NoticeRules ==
  {"monitor.started", "monitor.coverage_gap", "monitor.events_dropped",
   "monitor.sensor_lost", "monitor.stopped", "response.executed",
   "response.on_degraded", "operator.freeze", "operator.resume",
   "operator.terminate", "operator.stop"}

Bodies == [verdict : Verdicts \ {"notice"}, rule : Breaches,
           confirms : BOOLEAN]
Events == [seq : Nat, verdict : Verdicts, rule : Breaches \cup NoticeRules,
           confirms : BOOLEAN]

ResponseActions == {"alert", "freeze", "terminate"}

ASSUME ObservationsAssumption == Observations \subseteq Seq(Bodies)
ASSUME RootAssumption == Root \in Procs
ASSUME ResponseAssumption ==
  Response \in ResponseActions /\ OnDegraded \in ResponseActions
ASSUME PlatformAssumption == Platforms \subseteq {"container", "tree", "windows"}
ASSUME BoundsAssumption ==
  /\ MaxIncidents \in Nat \ {0} /\ QuietTicks \in Nat \ {0}
  /\ Window \in Nat /\ RingCap \in Nat \ {0} /\ MaxPoll \in Nat \ {0}
  /\ MaxObs \in Nat /\ MaxRequests \in Nat

VARIABLES
  ring,              \* observations reserved and not yet read
  kdrops,            \* the kernel's (or ETW's) counter of lost events
  lost,              \* the sensor stopped seeing (ETW only)
  running,           \* the agent's processes that run
  stopped,           \* how often each of them has been suspended
  platform,          \* one of Platforms
  emitted,           \* bound counter of observations
  control,           \* control.json: an action, or "none"
  requests,          \* bound counter of requests
  timeline,          \* the events appended to the store, in order
  flushed,           \* how many of them are in timeline.jsonl
  disk,              \* session.json: {} or the set of the saved session
  bundles,           \* the incident bundles on disk, in order of creation
  pc, out, seq,      \* where the loop is; events not yet recorded; last seq
  session,           \* the in-memory session
  reported, pending, \* breaches that have an incident; incidents still open
  responded, respondedDegraded,
  lastDrops, quiet,
  stop, reason,      \* STOP (or the duration's end) and why the loop ended
  polled, hand,      \* records read by this poll; the request just read
  tickDue            \* a second has passed since last_tick

sensorVars == <<ring, kdrops, lost, emitted>>
agentVars  == <<running, stopped, platform>>
dashVars   == <<control, requests>>
storeVars  == <<timeline, flushed, disk>>
onceVars   == <<responded, respondedDegraded, lastDrops, quiet, reason>>
loopVars   == <<polled, hand, tickDue>>
incidentVars == <<reported, pending, bundles>>
vars == <<sensorVars, agentVars, dashVars, storeVars, onceVars, loopVars,
          incidentVars, pc, out, seq, session, stop>>

Points ==
  {"record", "bundle", "enforce", "poll", "control", "act", "tick", "finalise",
   "flush", "save", "alive", "drain", "shutdown", "endflush", "endsave",
   "done", "crashed"}
Over == pc \in {"done", "crashed"}
Actions == {"freeze", "resume", "terminate", "stop"}

-----------------------------------------------------------------------------
(* Events, incidents and their bundles.                                    *)

Notice(n, rule) ==
  [seq |-> n, verdict |-> "notice", rule |-> rule, confirms |-> FALSE]

(* Faulty: next_seq returns the number before it increments it.            *)
ProcessOffByOne(o, n) ==
  [i \in 1..Len(o) |-> [seq |-> n + i - 1, verdict |-> o[i].verdict,
                        rule |-> o[i].rule, confirms |-> o[i].confirms]]

(* The events Engine::process makes of observation o after event n.        *)
Process(o, n) ==
  [i \in 1..Len(o) |-> [seq |-> n + i, verdict |-> o[i].verdict,
                        rule |-> o[i].rule, confirms |-> o[i].confirms]]

IsBreach(ev) == ev.verdict = "violation" /\ ~ev.confirms

Pendings == [id : Nat, trigger : Nat, rule : Breaches \cup NoticeRules,
             after : Nat, left : 0..Window]
Bundles ==
  [trigger : Nat, rule : Breaches \cup NoticeRules, after : Nat, head : Nat,
   responses : Nat, finalized : BOOLEAN]

(* PendingIncident::write.  `head' is the event whose chain hash           *)
(* system_metadata.json gives as the timeline's head.                      *)
BundleOf(p, responses, head, finalized) ==
  [trigger |-> p.trigger, rule |-> p.rule, after |-> p.after, head |-> head,
   responses |-> responses, finalized |-> finalized]

(* Faulty: open incidents are dropped without a last write.                *)
FinalisedNot(ps, responses, head) == bundles

(* Rewrite the bundles of the incidents in ps as final.                    *)
Finalised(ps, responses, head) ==
  [i \in 1..Len(bundles) |->
     IF \E p \in ps : p.id = i
     THEN BundleOf(CHOOSE p \in ps : p.id = i, responses, head, TRUE)
     ELSE bundles[i]]

(* p.after.push(ev) for every open incident.                               *)
WithAfter(ps) == {[p EXCEPT !.after = p.after + 1] : p \in ps}

-----------------------------------------------------------------------------
(* Startup: the session, the coverage notices and "monitor.started" are    *)
(* ready; nothing has been recorded or saved.                              *)

Init ==
  /\ ring = <<>> /\ kdrops = 0 /\ lost = FALSE /\ emitted = 0
  /\ running \in {ps \in SUBSET Procs : Root \in ps} /\ stopped = [p \in Procs |-> 0]
  /\ platform \in Platforms
  /\ control = "none" /\ requests = 0
  /\ timeline = <<>> /\ flushed = 0 /\ disk = {} /\ bundles = <<>>
  /\ \/ /\ session = NewSession
        /\ out = <<Notice(1, "monitor.started")>>
        /\ seq = 1
     \/ /\ session \in {NewSession, Degrade(NewSession, "coverage")}
        /\ out = <<Notice(1, "monitor.coverage_gap"),
                   Notice(2, "monitor.started")>>
        /\ seq = 2
  /\ reported = {} /\ pending = {}
  /\ responded = FALSE /\ respondedDegraded = FALSE
  /\ lastDrops = 0 /\ quiet = 0
  /\ stop = FALSE /\ reason = "none"
  /\ polled = 0 /\ hand = "none" /\ tickDue = FALSE
  /\ pc = "record"

-----------------------------------------------------------------------------
(* The agent, the kernel, the operator and the clock.                      *)

(* A tracked process makes a system call; its record goes into the ring,   *)
(* or is counted as dropped when the ring is full.                         *)
Emit(o) ==
  /\ ~Over /\ running # {} /\ emitted < MaxObs
  /\ emitted' = emitted + 1
  /\ IF lost THEN UNCHANGED <<ring, kdrops>>
     ELSE IF Len(ring) < RingCap
          THEN ring' = Append(ring, o) /\ UNCHANGED kdrops
          ELSE kdrops' = kdrops + 1 /\ UNCHANGED ring
  /\ UNCHANGED <<lost, agentVars, dashVars, storeVars, onceVars, loopVars,
                 incidentVars, pc, out, seq, session, stop>>

ProcessExits(p) ==
  /\ ~Over /\ p \in running
  /\ running' = running \ {p}
  /\ UNCHANGED <<sensorVars, stopped, platform, dashVars, storeVars, onceVars,
                 loopVars, incidentVars, pc, out, seq, session, stop>>

(* An ETW session can be stopped from outside.                             *)
SensorStops ==
  /\ ~Over /\ platform = "windows" /\ ~lost
  /\ lost' = TRUE
  /\ UNCHANGED <<ring, kdrops, emitted, agentVars, dashVars, storeVars,
                 onceVars, loopVars, incidentVars, pc, out, seq, session, stop>>

(* SIGINT or SIGTERM, or --duration has elapsed: the loop ends at its next *)
(* check.                                                                  *)
Signal ==
  /\ ~Over /\ ~stop
  /\ stop' = TRUE
  /\ UNCHANGED <<sensorVars, agentVars, dashVars, storeVars, onceVars,
                 loopVars, incidentVars, pc, out, seq, session>>

(* ui.rs control(): accepted while session.json shows a live session; the  *)
(* file replaces any request not yet taken.                                *)
Request(a) ==
  /\ requests < MaxRequests
  /\ \E s \in disk : ~s.ended /\ ~IsStale(s)
  /\ control' = a
  /\ requests' = requests + 1
  /\ UNCHANGED <<sensorVars, agentVars, storeVars, onceVars, loopVars,
                 incidentVars, pc, out, seq, session, stop>>

Second ==
  /\ tickDue' = TRUE
  /\ session' = Older(session)
  /\ disk' = {Older(s) : s \in disk}
  /\ pending' = {[p EXCEPT !.left = IF p.left = 0 THEN 0 ELSE p.left - 1] :
                   p \in pending}
  /\ UNCHANGED <<sensorVars, agentVars, dashVars, timeline, flushed, onceVars,
                 polled, hand, reported, bundles, pc, out, seq, stop>>

(* The monitor is killed, or an error returned by `?' ends run(), in which *)
(* case dropping the BufWriter writes what it holds.                       *)
Crash ==
  /\ ~Over
  /\ pc' = "crashed"
  /\ flushed' \in {flushed, Len(timeline)}
  /\ UNCHANGED <<sensorVars, agentVars, dashVars, timeline, disk, onceVars,
                 loopVars, incidentVars, out, seq, session, stop>>

-----------------------------------------------------------------------------
(* respond.rs: what an action does to the agent's processes.               *)

Outcomes == IF platform = "container" THEN BOOLEAN ELSE {TRUE}

Suspended == {p \in Procs : stopped[p] > 0}

(* What freeze() adds to a process's suspensions.  It acts on every        *)
(* process twice; NtSuspendProcess counts, SIGSTOP and docker do not.      *)
Suspensions(p) == IF platform = "windows" THEN stopped[p] + 2 ELSE 1

Freeze ==
  /\ running' = {}
  /\ stopped' = [p \in Procs |-> IF p \in running \cup Suspended
                               THEN Suspensions(p) ELSE 0]

(* Every process is resumed once.                                          *)
Resume ==
  /\ running' = running \cup {p \in Procs : stopped[p] = 1}
  /\ stopped' = [p \in Procs |-> IF stopped[p] = 0 THEN 0 ELSE stopped[p] - 1]

Terminate == running' = {} /\ stopped' = [p \in Procs |-> 0]

(* Faulty: a freeze that reports failure has suspended the agent.          *)
ActHalfway(action, ok) ==
  /\ \/ /\ action = "stop" \/ (~ok /\ action # "freeze")
        /\ UNCHANGED <<running, stopped>>
     \/ action = "freeze" /\ Freeze
     \/ ok /\ action = "resume" /\ Resume
     \/ ok /\ action = "terminate" /\ Terminate
  /\ UNCHANGED platform

Act(action, ok) ==
  /\ \/ (~ok \/ action = "stop") /\ UNCHANGED <<running, stopped>>
     \/ ok /\ action = "freeze" /\ Freeze
     \/ ok /\ action = "resume" /\ Resume
     \/ ok /\ action = "terminate" /\ Terminate
  /\ UNCHANGED platform

(* Queue a notice about Kill Line itself.                                  *)
Announce(rule) ==
  /\ out' = Append(out, Notice(seq + 1, rule))
  /\ seq' = seq + 1

-----------------------------------------------------------------------------
(* The loop: recording.                                                    *)

(* Faulty: a repeated breach opens a second incident.                      *)
NeedsIncidentAgain(ev) == IsBreach(ev) /\ session.incidents < MaxIncidents

(* Only the first event of a breach opens an incident, up to the limit.    *)
NeedsIncident(ev) ==
  IsBreach(ev) /\ ev.rule \notin reported /\ session.incidents < MaxIncidents

(* Everything recording an event does but opening an incident: the session *)
(* counts it, it is appended to the buffered timeline, and every open      *)
(* incident takes it as context.  The BufWriter spills the earlier records *)
(* when the new one does not fit.                                          *)
RecordPlain ==
  /\ pc = "record" /\ out # <<>> /\ ~NeedsIncident(Head(out))
  /\ session' = Apply(session, Head(out))
  /\ timeline' = Append(timeline, Head(out))
  /\ flushed' \in {flushed, Len(timeline)}
  /\ pending' = WithAfter(pending)
  /\ reported' = IF IsBreach(Head(out)) THEN reported \cup {Head(out).rule}
                                        ELSE reported
  /\ out' = Tail(out)
  /\ UNCHANGED <<sensorVars, agentVars, dashVars, disk, onceVars, loopVars,
                 bundles, pc, seq, stop>>

(* Faulty: the bundle is written from a timeline that is not flushed.      *)
RecordIncidentUnflushed ==
  /\ pc = "record" /\ out # <<>> /\ NeedsIncident(Head(out))
  /\ session' = Apply(session, Head(out))
  /\ timeline' = Append(timeline, Head(out))
  /\ flushed' \in {flushed, Len(timeline)}
  /\ pending' = WithAfter(pending)
  /\ reported' = reported \cup {Head(out).rule}
  /\ out' = Tail(out)
  /\ pc' = "bundle"
  /\ UNCHANGED <<sensorVars, agentVars, dashVars, disk, onceVars, loopVars,
                 bundles, seq, stop>>

(* The first event of a breach: the timeline is flushed with it, ...       *)
RecordIncident ==
  /\ pc = "record" /\ out # <<>> /\ NeedsIncident(Head(out))
  /\ session' = Apply(session, Head(out))
  /\ timeline' = Append(timeline, Head(out))
  /\ flushed' = Len(timeline) + 1
  /\ pending' = WithAfter(pending)
  /\ reported' = reported \cup {Head(out).rule}
  /\ out' = Tail(out)
  /\ pc' = "bundle"
  /\ UNCHANGED <<sensorVars, agentVars, dashVars, disk, onceVars, loopVars,
                 bundles, seq, stop>>

NewPending(ev) ==
  [id |-> Len(bundles) + 1, trigger |-> ev.seq, rule |-> ev.rule,
   after |-> 0, left |-> Window]

(* ... and then its bundle is written.                                     *)
WriteBundle ==
  /\ pc = "bundle"
  /\ LET p == NewPending(timeline[Len(timeline)])
     IN /\ bundles' = Append(bundles, BundleOf(p, session.responses,
                                               Len(timeline), FALSE))
        /\ pending' = pending \cup {p}
  /\ session' = [session EXCEPT !.incidents = session.incidents + 1]
  /\ pc' = "record"
  /\ UNCHANGED <<sensorVars, agentVars, dashVars, storeVars, onceVars,
                 loopVars, reported, out, seq, stop>>

RecordDone ==
  /\ pc = "record" /\ out = <<>>
  /\ pc' = "enforce"
  /\ UNCHANGED <<sensorVars, agentVars, dashVars, storeVars, onceVars,
                 loopVars, incidentVars, out, seq, session, stop>>

-----------------------------------------------------------------------------
(* The loop: enforcement, and the checks that end it.                      *)

MustRespond == ~responded /\ session.violations > 0 /\ Response # "alert"
MustFailClosed ==
  ~respondedDegraded /\ session.dropped > 0 /\ OnDegraded # "alert"

(* Once, after the first violation.                                        *)
EnforceViolation ==
  /\ pc = "enforce" /\ MustRespond
  /\ responded' = TRUE
  /\ \E ok \in Outcomes :
       /\ Act(Response, ok)
       /\ session' = [session EXCEPT
            !.frozen = session.frozen \/ (ok /\ Response = "freeze"),
            !.responses = session.responses + 1]
  /\ Announce("response.executed")
  /\ pc' = "record"
  /\ UNCHANGED <<sensorVars, dashVars, storeVars, respondedDegraded, lastDrops,
                 quiet, reason, loopVars, incidentVars, stop>>

(* Once, when visibility is lost.  This branch leaves session.frozen alone. *)
EnforceDegraded ==
  /\ pc = "enforce" /\ ~MustRespond /\ MustFailClosed
  /\ respondedDegraded' = TRUE
  /\ \E ok \in Outcomes : Act(OnDegraded, ok)
  /\ session' = [session EXCEPT !.responses = session.responses + 1]
  /\ Announce("response.on_degraded")
  /\ pc' = "record"
  /\ UNCHANGED <<sensorVars, dashVars, storeVars, responded, lastDrops, quiet,
                 reason, loopVars, incidentVars, stop>>

(* Faulty: the stop check comes before enforcement.                        *)
CheckStopEarly ==
  /\ pc = "enforce"
  /\ IF stop
     THEN pc' = "shutdown" /\ reason' = "stopped" /\ UNCHANGED polled
     ELSE pc' = "poll" /\ polled' = 0 /\ UNCHANGED reason
  /\ UNCHANGED <<sensorVars, agentVars, dashVars, storeVars, responded,
                 respondedDegraded, lastDrops, quiet, hand, tickDue,
                 incidentVars, out, seq, session, stop>>

CheckStop ==
  /\ pc = "enforce" /\ ~MustRespond /\ ~MustFailClosed
  /\ IF stop
     THEN pc' = "shutdown" /\ reason' = "stopped" /\ UNCHANGED polled
     ELSE pc' = "poll" /\ polled' = 0 /\ UNCHANGED reason
  /\ UNCHANGED <<sensorVars, agentVars, dashVars, storeVars, responded,
                 respondedDegraded, lastDrops, quiet, hand, tickDue,
                 incidentVars, out, seq, session, stop>>

-----------------------------------------------------------------------------
(* The loop: reading the sensor.                                           *)

(* Read one observation and evaluate it.                                   *)
ReadRing ==
  /\ ring # <<>>
  /\ ring' = Tail(ring)
  /\ out' = out \o Process(Head(ring), seq)
  /\ seq' = seq + Len(Head(ring))
  /\ UNCHANGED <<kdrops, lost, emitted, agentVars, dashVars, storeVars,
                 onceVars, hand, tickDue, incidentVars, pc, session, stop>>

PollOne ==
  /\ pc = "poll" /\ polled < MaxPoll
  /\ polled' = polled + 1
  /\ ReadRing

PollDone ==
  /\ pc = "poll" /\ (ring = <<>> \/ polled >= MaxPoll)
  /\ pc' = "control"
  /\ UNCHANGED <<sensorVars, agentVars, dashVars, storeVars, onceVars,
                 loopVars, incidentVars, out, seq, session, stop>>

-----------------------------------------------------------------------------
(* The loop: operator requests.  take_control_request reads the file and   *)
(* then removes it; the dashboard may replace it in between.               *)

(* Faulty: a missing file is acted upon.                                   *)
ControlReadAlways ==
  /\ pc = "control"
  /\ hand' = control
  /\ pc' = "act"
  /\ UNCHANGED <<sensorVars, agentVars, dashVars, storeVars, onceVars, polled,
                 tickDue, incidentVars, out, seq, session, stop>>

(* Faulty: the file is removed before it is read.                          *)
ControlReadDiscards ==
  /\ pc = "control"
  /\ control' = "none"
  /\ pc' = "tick"
  /\ UNCHANGED <<sensorVars, agentVars, requests, storeVars, onceVars, loopVars,
                 incidentVars, out, seq, session, stop>>

ControlRead ==
  /\ pc = "control"
  /\ hand' = control
  /\ pc' = IF control = "none" THEN "tick" ELSE "act"
  /\ UNCHANGED <<sensorVars, agentVars, dashVars, storeVars, onceVars, polled,
                 tickDue, incidentVars, out, seq, session, stop>>

OperatorRule ==
  [freeze |-> "operator.freeze", resume |-> "operator.resume",
   terminate |-> "operator.terminate", stop |-> "operator.stop"]

(* session.json is saved at once, without a flush of the timeline, and the *)
(* rest of the iteration, the tick included, is skipped.                   *)
ControlAct ==
  /\ pc = "act"
  /\ control' = "none"
  /\ hand' = "none"
  /\ \E ok \in Outcomes :
       /\ Act(hand, ok)
       /\ session' = [session EXCEPT
            !.frozen = IF ok /\ hand = "freeze" THEN TRUE
                       ELSE IF ok /\ hand = "resume" THEN FALSE
                       ELSE session.frozen,
            !.responses =
              session.responses + (IF hand = "stop" THEN 0 ELSE 1)]
  /\ stop' = (stop \/ hand = "stop")
  /\ Announce(OperatorRule[hand])
  /\ disk' = {session'}
  /\ pc' = "record"
  /\ UNCHANGED <<sensorVars, requests, timeline, flushed, onceVars, polled,
                 tickDue, incidentVars>>

-----------------------------------------------------------------------------
(* The loop: the tick, at least a second after the previous one.           *)

NoTick ==
  /\ pc = "tick" /\ ~tickDue
  /\ pc' = "record"
  /\ UNCHANGED <<sensorVars, agentVars, dashVars, storeVars, onceVars,
                 loopVars, incidentVars, out, seq, session, stop>>

(* Faulty: the counter can never be read.                                  *)
SeenDropsFailed == 0

(* sensor.dropped().unwrap_or(0): a stopped ETW session reports no number. *)
SeenDrops == IF lost THEN 0 ELSE kdrops

(* Heartbeat, sensor health, drop counter.                                 *)
Tick ==
  /\ pc = "tick" /\ tickDue
  /\ tickDue' = FALSE
  /\ LET gone  == lost /\ "sensor" \notin session.degraded
         more  == SeenDrops > lastDrops
         notes == (IF gone THEN <<"monitor.sensor_lost">> ELSE <<>>) \o
                  (IF more THEN <<"monitor.events_dropped">> ELSE <<>>)
         beat  == [session EXCEPT !.age = 0]
         seen  == IF lost THEN Degrade(beat, "sensor") ELSE beat
     IN /\ session' = IF more
                      THEN Degrade([seen EXCEPT !.dropped = SeenDrops], "drops")
                      ELSE seen
        /\ lastDrops' = IF more THEN SeenDrops ELSE lastDrops
        /\ out' = out \o [i \in 1..Len(notes) |-> Notice(seq + i, notes[i])]
        /\ seq' = seq + Len(notes)
  /\ pc' = "finalise"
  /\ UNCHANGED <<sensorVars, agentVars, dashVars, storeVars, responded,
                 respondedDegraded, quiet, reason, polled, hand, incidentVars,
                 stop>>

(* Rewrite the bundles whose post-trigger window has elapsed.              *)
TickFinalise ==
  /\ pc = "finalise"
  /\ LET due == {p \in pending : p.left = 0}
     IN /\ bundles' = Finalised(due, session.responses, Len(timeline))
        /\ pending' = pending \ due
  /\ pc' = "flush"
  /\ UNCHANGED <<sensorVars, agentVars, dashVars, storeVars, onceVars,
                 loopVars, reported, out, seq, session, stop>>

Flush(next) ==
  /\ flushed' = Len(timeline)
  /\ pc' = next
  /\ UNCHANGED <<sensorVars, agentVars, dashVars, timeline, disk, onceVars,
                 loopVars, incidentVars, out, seq, session, stop>>

SaveSession(next) ==
  /\ disk' = {session}
  /\ pc' = next
  /\ UNCHANGED <<sensorVars, agentVars, dashVars, timeline, flushed, onceVars,
                 loopVars, incidentVars, out, seq, session, stop>>

(* Faulty: the last flush is forgotten.                                    *)
EndFlushNot ==
  /\ pc = "endflush"
  /\ pc' = "endsave"
  /\ UNCHANGED <<sensorVars, agentVars, dashVars, storeVars, onceVars,
                 loopVars, incidentVars, out, seq, session, stop>>

TickFlush == pc = "flush" /\ Flush("save")
TickSave  == pc = "save" /\ SaveSession("alive")

(* Faulty: a finalised incident still keeps the loop alive.                *)
CheckAliveEver ==
  /\ pc = "alive"
  /\ pc' = IF Root \in running \cup Suspended \/ bundles # <<>> THEN "record"
                                                                ELSE "drain"
  /\ UNCHANGED <<sensorVars, agentVars, dashVars, storeVars, onceVars,
                 loopVars, incidentVars, out, seq, session, stop>>

CheckAlive ==
  /\ pc = "alive"
  /\ pc' = IF Root \in running \cup Suspended \/ pending # {} THEN "record"
                                                              ELSE "drain"
  /\ UNCHANGED <<sensorVars, agentVars, dashVars, storeVars, onceVars,
                 loopVars, incidentVars, out, seq, session, stop>>

(* The agent is gone: read all that is left, then count a quiet tick if    *)
(* neither that nor this tick's own notices left anything to record.       *)
DrainOne == pc = "drain" /\ ReadRing /\ UNCHANGED polled

DrainDone ==
  /\ pc = "drain" /\ ring = <<>>
  /\ quiet' = IF out = <<>> THEN quiet + 1 ELSE 0
  /\ IF quiet' >= QuietTicks
     THEN pc' = "shutdown" /\ reason' = "exited"
     ELSE pc' = "record" /\ UNCHANGED reason
  /\ UNCHANGED <<sensorVars, agentVars, dashVars, storeVars, responded,
                 respondedDegraded, lastDrops, loopVars, incidentVars, out,
                 seq, session, stop>>

-----------------------------------------------------------------------------
(* Shutdown: record "monitor.stopped", finalise what is open, flush, save. *)

Shutdown ==
  /\ pc = "shutdown"
  /\ LET ev == Notice(seq + 1, "monitor.stopped")
     IN /\ session' = [Apply(session, ev) EXCEPT !.ended = TRUE, !.age = 0]
        /\ timeline' = Append(timeline, ev)
  /\ flushed' \in {flushed, Len(timeline)}
  /\ seq' = seq + 1
  /\ bundles' = Finalised(WithAfter(pending), session.responses,
                          Len(timeline) + 1)
  /\ pending' = {}
  /\ pc' = "endflush"
  /\ UNCHANGED <<sensorVars, agentVars, dashVars, disk, onceVars, loopVars,
                 reported, out, stop>>

EndFlush == pc = "endflush" /\ Flush("endsave")
EndSave  == pc = "endsave" /\ SaveSession("done")

-----------------------------------------------------------------------------
Loop ==
  \/ RecordPlain \/ RecordIncident \/ WriteBundle \/ RecordDone
  \/ EnforceViolation \/ EnforceDegraded \/ CheckStop
  \/ PollOne \/ PollDone \/ ControlRead \/ ControlAct
  \/ NoTick \/ Tick \/ TickFinalise \/ TickFlush \/ TickSave
  \/ CheckAlive \/ DrainOne \/ DrainDone
  \/ Shutdown \/ EndFlush \/ EndSave

(* A finished monitor takes no step; only the clock goes on.               *)
Finished == Over /\ UNCHANGED vars

Next ==
  \/ Loop
  \/ \E o \in Observations : Emit(o)
  \/ \E p \in Procs : ProcessExits(p)
  \/ \E a \in Actions : Request(a)
  \/ SensorStops \/ Signal \/ Second \/ Crash \/ Finished

(* The operating system keeps scheduling the monitor and time passes; the  *)
(* agent, the operator and crashes owe nothing.                            *)
Spec == Init /\ [][Next]_vars /\ WF_vars(Loop) /\ WF_vars(Second)

-----------------------------------------------------------------------------
(* Type correctness: every variable of the loop keeps its shape.           *)
TypeOK ==
  /\ ring \in Seq(Observations) /\ kdrops \in Nat /\ lost \in BOOLEAN
  /\ emitted \in Nat /\ running \in SUBSET Procs /\ stopped \in [Procs -> Nat]
  /\ platform \in Platforms
  /\ control \in Actions \cup {"none"} /\ requests \in Nat
  /\ timeline \in Seq(Events) /\ flushed \in Nat
  /\ disk \in SUBSET Sessions /\ bundles \in Seq(Bundles)
  /\ pc \in Points /\ out \in Seq(Events) /\ seq \in Nat
  /\ session \in Sessions
  /\ reported \in SUBSET (Breaches \cup NoticeRules)
  /\ pending \in SUBSET Pendings
  /\ responded \in BOOLEAN /\ respondedDegraded \in BOOLEAN
  /\ lastDrops \in Nat /\ quiet \in Nat /\ stop \in BOOLEAN
  /\ reason \in {"none", "stopped", "exited"}
  /\ polled \in Nat /\ hand \in Actions \cup {"none"} /\ tickDue \in BOOLEAN
  /\ pc = "act" => hand # "none"
  /\ pc = "bundle" => timeline # <<>>

Ending == pc \in {"shutdown", "endflush", "endsave", "done"}

(* The flight recorder has no gap: what the engine numbered is, in that    *)
(* order, either in the timeline or waiting to be recorded, and nothing is *)
(* left waiting once the loop has ended.  (monitor.rs: out_events is       *)
(* drained at the top of the loop, every `continue' goes back there, and   *)
(* both `break's are taken only when it is empty.)                         *)
NoGap ==
  /\ seq = Len(timeline) + Len(out)
  /\ \A i \in 1..Len(timeline) : timeline[i].seq = i
  /\ \A i \in 1..Len(out) : out[i].seq = Len(timeline) + i
  /\ Ending => (out = <<>>)

(* The verdict is the timeline's: the session is RED exactly when the      *)
(* timeline records a breach that is not the kernel's confirmation of      *)
(* another, otherwise GREY exactly when visibility was degraded, and never *)
(* GREEN after an anomaly.                                                 *)
StatusIsTimelines ==
  /\ session.status = "red" <=>
       \E i \in 1..Len(timeline) : IsBreach(timeline[i])
  /\ session.status = "grey" <=>
       (session.degraded # {} /\ session.status # "red")
  /\ session.status = "green" =>
       \A i \in 1..Len(timeline) : ~Counted(timeline[i], "anomaly")

(* One bundle per distinct breach: every breach in the timeline has one,   *)
(* unless the session's limit is reached or the monitor died between       *)
(* recording it and writing its bundle, no two bundles are of the same     *)
(* breach, and there are never more than the limit.                        *)
OneIncidentPerBreach ==
  /\ \A i \in 1..Len(timeline) :
       IsBreach(timeline[i]) =>
         \/ Len(bundles) >= MaxIncidents
         \/ i = Len(timeline) /\ pc \in {"bundle", "crashed"}
         \/ \E j \in 1..Len(bundles) : bundles[j].rule = timeline[i].rule
  /\ \A i, j \in 1..Len(bundles) :
       bundles[i].rule = bundles[j].rule => i = j
  /\ Len(bundles) <= MaxIncidents

(* A bundle's trigger is in timeline.jsonl whenever the bundle is on disk, *)
(* so that a crash never leaves a bundle that nothing in the session's     *)
(* hash chain supports, and an open incident's context reaches up to the   *)
(* last recorded event.                                                    *)
TriggerDurable ==
  /\ \A j \in 1..Len(bundles) :
       /\ bundles[j].trigger \in 1..flushed
       /\ IsBreach(timeline[bundles[j].trigger])
       /\ timeline[bundles[j].trigger].rule = bundles[j].rule
  /\ \A p \in pending : p.trigger + p.after = Len(timeline)

(* Enforcement comes first: the loop neither reads another observation,    *)
(* nor serves an operator, nor ends, while a configured response to a      *)
(* violation or to lost visibility is owed.                                *)
EnforcedFirst ==
  (Ending \/ pc \in {"poll", "control", "act"}) =>
    ~MustRespond /\ ~MustFailClosed

(* An operator's resume was carried out, and is recorded or about to be.   *)
Resumed ==
  \/ \E i \in 1..Len(timeline) : timeline[i].rule = "operator.resume"
  \/ \E i \in 1..Len(out) : out[i].rule = "operator.resume"

(* session.frozen, "The agent is currently frozen by Kill Line": whenever  *)
(* Kill Line has suspended processes, the session says so; on Windows,     *)
(* where one resume does not undo the two suspensions of a freeze, only    *)
(* until the first resume.  (session.rs:117, respond.rs:104, 131)          *)
FrozenIsShown ==
  Suspended # {} => session.frozen \/ (platform = "windows" /\ Resumed)

(* The monitor ends: with the agent, because the quiet ticks that the exit *)
(* waits for do come, whatever was left in the ring and however many       *)
(* incidents are open; and at a signal, the end of --duration or an        *)
(* operator's "stop", although enforcement and operator actions `continue' *)
(* past the check.                                                         *)
LoopEnds == (stop \/ Root \notin running \cup Suspended) ~> Over

(* Every incident bundle is finalised unless the monitor dies.             *)
BundlesFinalised ==
  \A i \in 1..MaxIncidents :
    (Len(bundles) >= i) ~>
      (pc = "crashed" \/ (Len(bundles) >= i /\ bundles[i].finalized))

(* A reader does not take a dead monitor's session for a contained one:    *)
(* if a session.json was saved, it eventually reads GREY, unless it reads  *)
(* RED or had ended.                                                       *)
StaleAfterCrash ==
  (pc = "crashed" /\ disk # {}) ~>
    (\A s \in disk : s.ended \/ EffectiveStatus(s) \in {"grey", "red"})

(* The dashboard's promise: a request that waits in control.json is        *)
(* carried out and recorded, or the monitor ends.                          *)
RequestServed ==
  (control # "none") ~>
    (Over \/ \E a \in Actions, i \in 1..Len(timeline) :
               timeline[i].rule = OperatorRule[a])

(* A drop is reported: events lost by the ring degrade the session, unless *)
(* the monitor ends, or its sensor stops, before the next tick.            *)
DropsReported ==
  (kdrops > 0) ~> ("drops" \in session.degraded \/ lost \/ Over)
=============================================================================

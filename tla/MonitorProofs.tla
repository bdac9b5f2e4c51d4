--------------------------- MODULE MonitorProofs ---------------------------
(* Proofs about the monitoring loop, for every value of the constants.     *)
EXTENDS Monitor, SequenceTheorems, TLAPS

USE HeartbeatStaleAssumption

-----------------------------------------------------------------------------
(* The operations of the session keep its shape.                           *)

(* Session::recompute changes only the status, to one of the four.         *)
LEMMA RecomputeType ==
  ASSUME NEW s \in Sessions
  PROVE  Recompute(s) \in Sessions
  BY DEF Recompute, StatusOf, Sessions, Statuses

(* Session::degrade returns a session, whatever the reason.                *)
LEMMA DegradeType ==
  ASSUME NEW s \in Sessions, NEW r \in Reasons
  PROVE  Degrade(s, r) \in Sessions
  <1>1. [s EXCEPT !.degraded = s.degraded \cup {r}] \in Sessions
    BY DEF Sessions
  <1> QED
    BY <1>1, RecomputeType DEF Degrade

(* Session::apply returns a session, whatever the event.                   *)
LEMMA ApplyType ==
  ASSUME NEW s \in Sessions, NEW ev
  PROVE  Apply(s, ev) \in Sessions
  <1> DEFINE v == s.violations + (IF Counted(ev, "violation") THEN 1 ELSE 0)
             a == s.anomalies + (IF Counted(ev, "anomaly") THEN 1 ELSE 0)
  <1>1. v \in Nat /\ a \in Nat
    BY DEF Sessions
  <1> HIDE DEF v, a
  <1>2. [s EXCEPT !.violations = v, !.anomalies = a] \in Sessions
    BY <1>1 DEF Sessions
  <1> QED
    BY <1>2, RecomputeType DEF Apply, v, a

(* A second more keeps the age of the heartbeat within its cap.            *)
LEMMA OlderType ==
  ASSUME NEW s \in Sessions
  PROVE  Older(s) \in Sessions
  BY DEF Older, Sessions

(* A response changes the session's flag and list, and nothing else.       *)
LEMMA ResponseType ==
  ASSUME NEW s \in Sessions, NEW f \in BOOLEAN, NEW k \in Nat
  PROVE  /\ [s EXCEPT !.frozen = f, !.responses = k] \in Sessions
         /\ [s EXCEPT !.responses = k] \in Sessions
         /\ [s EXCEPT !.incidents = k] \in Sessions
         /\ [s EXCEPT !.dropped = k] \in Sessions
  BY DEF Sessions

(* A heartbeat makes the session young again.                              *)
LEMMA HeartbeatType ==
  ASSUME NEW s \in Sessions, NEW e \in BOOLEAN
  PROVE  /\ [s EXCEPT !.age = 0] \in Sessions
         /\ [s EXCEPT !.ended = e, !.age = 0] \in Sessions
  <1>1. 0 \in 0..(HeartbeatStale + 1)
    BY HeartbeatStaleAssumption
  <1> DEFINE A == 0..(HeartbeatStale + 1)
  <1> HIDE DEF A
  <1>2. Sessions =
          [status : Statuses, violations : Nat, anomalies : Nat, dropped : Nat,
           degraded : SUBSET Reasons, incidents : Nat, responses : Nat,
           frozen : BOOLEAN, ended : BOOLEAN, age : A]
    BY DEF Sessions, A
  <1>3. 0 \in A
    BY <1>1 DEF A
  <1> QED
    BY <1>2, <1>3

(* Notices are events.                                                     *)
LEMMA NoticeType ==
  ASSUME NEW k \in Nat, NEW r \in NoticeRules
  PROVE  Notice(k, r) \in Events
  BY DEF Notice, Events, Verdicts

(* What the engine makes of an observation is a sequence of events.        *)
LEMMA ProcessType ==
  ASSUME NEW o \in Observations, NEW k \in Nat
  PROVE  /\ Process(o, k) \in Seq(Events)
         /\ Len(Process(o, k)) = Len(o)
         /\ Len(o) \in Nat
  <1>1. o \in Seq(Bodies)
    BY ObservationsAssumption
  <1>2. \A i \in 1..Len(o) : o[i] \in Bodies
    BY <1>1
  <1>3. \A i \in 1..Len(o) :
          [seq |-> k + i, verdict |-> o[i].verdict, rule |-> o[i].rule,
           confirms |-> o[i].confirms] \in Events
    BY <1>1, <1>2 DEF Bodies, Events, Verdicts
  <1> QED
    BY <1>1, <1>3 DEF Process

(* Rewriting bundles as final keeps them bundles, in number and order.     *)
LEMMA FinalisedType ==
  ASSUME NEW ps \in SUBSET Pendings, NEW r \in Nat, NEW h \in Nat,
         bundles \in Seq(Bundles)
  PROVE  /\ Finalised(ps, r, h) \in Seq(Bundles)
         /\ Len(Finalised(ps, r, h)) = Len(bundles)
  <1>1. ASSUME NEW i \in 1..Len(bundles), \E p \in ps : p.id = i
        PROVE  BundleOf(CHOOSE p \in ps : p.id = i, r, h, TRUE) \in Bundles
    <2>1. (CHOOSE p \in ps : p.id = i) \in Pendings
      BY <1>1
    <2> QED
      BY <2>1 DEF BundleOf, Bundles, Pendings
  <1> DEFINE F(i) == IF \E p \in ps : p.id = i
                     THEN BundleOf(CHOOSE p \in ps : p.id = i, r, h, TRUE)
                     ELSE bundles[i]
  <1>2. ASSUME NEW i \in 1..Len(bundles) PROVE F(i) \in Bundles
    <2>1. bundles[i] \in Bundles
      OBVIOUS
    <2> QED
      BY <1>1, <2>1, Zenon
  <1>3. Finalised(ps, r, h) = [i \in 1..Len(bundles) |-> F(i)]
    BY DEF Finalised
  <1>4. Len(bundles) \in Nat
    OBVIOUS
  <1> HIDE DEF F
  <1> QED
    BY <1>2, <1>3, <1>4

(* Context added to open incidents keeps them open incidents.              *)
LEMMA WithAfterType ==
  ASSUME NEW ps \in SUBSET Pendings
  PROVE  WithAfter(ps) \in SUBSET Pendings
  BY DEF WithAfter, Pendings

-----------------------------------------------------------------------------
(* Type correctness.                                                       *)

AgentOK ==
  running \in SUBSET Procs /\ stopped \in [Procs -> Nat] /\ platform \in Platforms

(* Whatever is done to the agent's processes, suspensions are counted.     *)
LEMMA ActType ==
  ASSUME AgentOK, NEW action, NEW ok, Act(action, ok)
  PROVE  AgentOK'
  <1>1. CASE Freeze
    <2>1. \A p \in Procs : Suspensions(p) \in Nat
      BY DEF AgentOK, Suspensions
    <2> QED
      BY <1>1, <2>1 DEF Act, Freeze, AgentOK
  <1>2. CASE Resume
    <2>1. \A p \in Procs : stopped[p] # 0 => stopped[p] - 1 \in Nat
      BY DEF AgentOK
    <2> QED
      BY <1>2, <2>1 DEF Act, Resume, AgentOK
  <1>3. CASE Terminate
    BY <1>3 DEF Act, Terminate, AgentOK
  <1>4. CASE UNCHANGED <<running, stopped>>
    BY <1>4 DEF Act, AgentOK
  <1> QED
    BY <1>1, <1>2, <1>3, <1>4 DEF Act

(* The state run() starts the loop in is well-typed.                       *)
LEMMA InitType == Init => TypeOK
  <1> SUFFICES ASSUME Init PROVE TypeOK
    OBVIOUS
  <1>1. NewSession \in Sessions
    BY DEF NewSession, Sessions, Statuses
  <1>2. Degrade(NewSession, "coverage") \in Sessions
    BY <1>1, DegradeType DEF Reasons
  <1>3. /\ Notice(1, "monitor.started") \in Events
        /\ Notice(1, "monitor.coverage_gap") \in Events
        /\ Notice(2, "monitor.started") \in Events
    BY NoticeType DEF NoticeRules
  <1>4. session \in Sessions
    BY <1>1, <1>2 DEF Init
  <1>5. out \in Seq(Events) /\ seq \in Nat
    <2>1. CASE out = <<Notice(1, "monitor.started")>> /\ seq = 1
      BY <1>3, <2>1
    <2>2. CASE /\ out = <<Notice(1, "monitor.coverage_gap"),
                         Notice(2, "monitor.started")>>
               /\ seq = 2
      BY <1>3, <2>2
    <2> QED
      BY <2>1, <2>2 DEF Init
  <1>6. ring \in Seq(Observations) /\ timeline \in Seq(Events)
        /\ bundles \in Seq(Bundles)
    BY EmptySeq DEF Init
  <1> QED
    BY <1>4, <1>5, <1>6 DEF Init, TypeOK, Actions, Points

(* Every step of the loop and of its environment keeps the types.          *)
LEMMA NextType == TypeOK /\ [Next]_vars => TypeOK'
  <1> SUFFICES ASSUME TypeOK, [Next]_vars PROVE TypeOK'
    OBVIOUS
  <1> USE DEF sensorVars, agentVars, dashVars, storeVars, onceVars, loopVars,
              incidentVars
  <1>a. /\ ring \in Seq(Observations) /\ out \in Seq(Events) /\ seq \in Nat
        /\ timeline \in Seq(Events) /\ flushed \in Nat
        /\ bundles \in Seq(Bundles) /\ session \in Sessions
        /\ pending \in SUBSET Pendings /\ disk \in SUBSET Sessions
        /\ reported \in SUBSET (Breaches \cup NoticeRules)
    BY DEF TypeOK
  <1>l. Len(timeline) \in Nat /\ Len(bundles) \in Nat
    BY <1>a, LenProperties
  <1>s. /\ session.incidents \in Nat /\ session.responses \in Nat
        /\ session.frozen \in BOOLEAN
    BY DEF TypeOK, Sessions
  <1>n. /\ kdrops \in Nat /\ emitted \in Nat /\ polled \in Nat
        /\ lastDrops \in Nat /\ quiet \in Nat /\ seq \in Nat /\ flushed \in Nat
        /\ reason \in {"none", "stopped", "exited"}
    BY DEF TypeOK
  <1>b. ASSUME out # <<>>
        PROVE  Head(out) \in Events /\ Tail(out) \in Seq(Events)
    BY <1>a, <1>b, HeadTailProperties
  <1>c. ASSUME NEW ev \in Events
        PROVE  Append(timeline, ev) \in Seq(Events)
    BY <1>a, AppendProperties
  <1>1. CASE RecordPlain
    <2>1. Head(out) \in Events /\ Tail(out) \in Seq(Events)
      BY <1>1, <1>b DEF RecordPlain
    <2>2. session' \in Sessions
      BY <1>1, <1>a, ApplyType DEF RecordPlain
    <2>3. pending' \in SUBSET Pendings
      BY <1>1, <1>a, WithAfterType DEF RecordPlain
    <2>4. reported' \in SUBSET (Breaches \cup NoticeRules)
      BY <1>1, <1>a, <2>1 DEF RecordPlain, Events
    <2>5. timeline' \in Seq(Events) /\ flushed' \in Nat
      BY <1>1, <1>l, <1>n, <1>c, <2>1 DEF RecordPlain
    <2> QED
      BY <1>1, <2>1, <2>2, <2>3, <2>4, <2>5 DEF RecordPlain, TypeOK
  <1>2. CASE RecordIncident
    <2>1. Head(out) \in Events /\ Tail(out) \in Seq(Events)
      BY <1>2, <1>b DEF RecordIncident
    <2>2. session' \in Sessions
      BY <1>2, <1>a, ApplyType DEF RecordIncident
    <2>3. pending' \in SUBSET Pendings
      BY <1>2, <1>a, WithAfterType DEF RecordIncident
    <2>4. reported' \in SUBSET (Breaches \cup NoticeRules)
      BY <1>2, <1>a, <2>1 DEF RecordIncident, Events
    <2>5. timeline' \in Seq(Events) /\ flushed' \in Nat
      BY <1>2, <1>l, <1>c, <2>1 DEF RecordIncident
    <2>6. timeline' # <<>>
      BY <1>2, <1>a, <2>1, AppendProperties DEF RecordIncident
    <2> QED
      BY <1>2, <2>1, <2>2, <2>3, <2>4, <2>5, <2>6
         DEF RecordIncident, Points, TypeOK
  <1>2b. CASE WriteBundle
    <2> DEFINE ev == timeline[Len(timeline)]
               p == NewPending(ev)
               b == BundleOf(p, session.responses, Len(timeline), FALSE)
    <2>1. timeline # <<>>
      BY <1>2b DEF WriteBundle, TypeOK
    <2>2. ev \in Events
      BY <1>a, <2>1, EmptySeq, LenProperties, ElementOfSeq
    <2>3. p \in Pendings
      BY <1>l, <2>2, BoundsAssumption DEF NewPending, Pendings, Events
    <2>4. b \in Bundles
      BY <1>l, <1>s, <2>3 DEF BundleOf, Bundles, Pendings
    <2>5. /\ bundles' = Append(bundles, b) /\ pending' = pending \cup {p}
          /\ session' = [session EXCEPT !.incidents = session.incidents + 1]
      BY <1>2b DEF WriteBundle
    <2> HIDE DEF p, b
    <2>6. bundles' \in Seq(Bundles) /\ pending' \in SUBSET Pendings
      BY <1>a, <2>3, <2>4, <2>5, AppendProperties
    <2>7. session.incidents + 1 \in Nat /\ session \in Sessions
      BY <1>s, <1>a
    <2>8. session' \in Sessions
      BY <2>5, <2>7, ResponseType, Zenon
    <2> QED
      BY <1>2b, <2>6, <2>8 DEF WriteBundle, Points, TypeOK
  <1>3. CASE RecordDone
    BY <1>3 DEF RecordDone, Points, TypeOK
  <1>4. ASSUME NEW r \in NoticeRules, Announce(r)
        PROVE  out' \in Seq(Events) /\ seq' \in Nat
    BY <1>4, <1>a, NoticeType, AppendProperties DEF Announce
  <1>5. ASSUME NEW a \in Actions \cup ResponseActions, NEW ok, Act(a, ok)
        PROVE  AgentOK'
    BY <1>5, ActType DEF TypeOK, AgentOK
  <1>6. CASE EnforceViolation
    <2>1. PICK ok \in Outcomes :
            /\ Act(Response, ok)
            /\ session' = [session EXCEPT
                 !.frozen = session.frozen \/ (ok /\ Response = "freeze"),
                 !.responses = session.responses + 1]
      BY <1>6 DEF EnforceViolation
    <2>2. session' \in Sessions
      <3>1. (session.frozen \/ (ok /\ Response = "freeze")) \in BOOLEAN
        OBVIOUS
      <3> QED
        <4>1. session.responses + 1 \in Nat /\ session \in Sessions
          BY <1>s, <1>a
        <4> QED
          BY <4>1, <2>1, <3>1, ResponseType, Zenon
    <2>3. AgentOK'
      BY <2>1, <1>5, ResponseAssumption
    <2>4. out' \in Seq(Events) /\ seq' \in Nat
      BY <1>6, <1>4 DEF EnforceViolation, NoticeRules
    <2> QED
      BY <1>6, <2>2, <2>3, <2>4 DEF EnforceViolation, Points, TypeOK, AgentOK
  <1>7. CASE EnforceDegraded
    <2>1. session' \in Sessions
      <3>1. session.responses + 1 \in Nat /\ session \in Sessions
        BY <1>s, <1>a
      <3> QED
        BY <1>7, <3>1, ResponseType, Zenon DEF EnforceDegraded
    <2>2. AgentOK'
      BY <1>7, <1>5, ResponseAssumption DEF EnforceDegraded
    <2>3. out' \in Seq(Events) /\ seq' \in Nat
      BY <1>7, <1>4 DEF EnforceDegraded, NoticeRules
    <2> QED
      BY <1>7, <2>1, <2>2, <2>3 DEF EnforceDegraded, Points, TypeOK, AgentOK
  <1>8. CASE CheckStop
    <2>1. /\ pc' \in {"shutdown", "poll"} /\ polled' \in Nat
          /\ reason' \in {"none", "stopped", "exited"}
      BY <1>8, <1>n DEF CheckStop
    <2> QED
      BY <1>8, <2>1 DEF CheckStop, Points, TypeOK
  <1>9. ASSUME ReadRing
        PROVE  ring' \in Seq(Observations) /\ out' \in Seq(Events) /\ seq' \in Nat
    <2>1. Head(ring) \in Observations /\ Tail(ring) \in Seq(Observations)
      BY <1>9, <1>a, HeadTailProperties DEF ReadRing
    <2>2. /\ Process(Head(ring), seq) \in Seq(Events)
          /\ Len(Head(ring)) \in Nat
      BY <2>1, <1>a, ProcessType
    <2> QED
      BY <1>9, <1>a, <2>1, <2>2, ConcatProperties DEF ReadRing
  <1>10. CASE PollOne
    <2>1. ring' \in Seq(Observations) /\ out' \in Seq(Events) /\ seq' \in Nat
      BY <1>10, <1>9 DEF PollOne
    <2>2. polled' \in Nat
      BY <1>10, <1>n DEF PollOne
    <2> QED
      BY <1>10, <2>1, <2>2 DEF PollOne, ReadRing, TypeOK
  <1>11. CASE PollDone
    BY <1>11 DEF PollDone, Points, TypeOK
  <1>12. CASE ControlRead
    BY <1>12 DEF ControlRead, Points, TypeOK
  <1>13. CASE ControlAct
    <2>1. hand \in Actions
      BY <1>13 DEF ControlAct, TypeOK
    <2>2. PICK ok \in Outcomes :
            /\ Act(hand, ok)
            /\ session' = [session EXCEPT
                 !.frozen = IF ok /\ hand = "freeze" THEN TRUE
                            ELSE IF ok /\ hand = "resume" THEN FALSE
                            ELSE session.frozen,
                 !.responses =
                   session.responses + (IF hand = "stop" THEN 0 ELSE 1)]
      BY <1>13 DEF ControlAct
    <2>3. session' \in Sessions
      <3> DEFINE f == IF ok /\ hand = "freeze" THEN TRUE
                      ELSE IF ok /\ hand = "resume" THEN FALSE
                      ELSE session.frozen
                 k == session.responses + (IF hand = "stop" THEN 0 ELSE 1)
      <3>1. f \in BOOLEAN
        BY <1>s, Zenon
      <3>2. k \in Nat
        BY <1>s
      <3>3. session' = [session EXCEPT !.frozen = f, !.responses = k]
        BY <2>2
      <3> HIDE DEF f, k
      <3> QED
        BY <1>a, <3>1, <3>2, <3>3, ResponseType, Zenon
    <2>4. AgentOK'
      BY <2>1, <2>2, <1>5
    <2>5. OperatorRule[hand] \in NoticeRules
      BY <2>1 DEF OperatorRule, Actions, NoticeRules
    <2>6. out' \in Seq(Events) /\ seq' \in Nat
      BY <1>13, <2>5, <1>4 DEF ControlAct
    <2> QED
      BY <1>13, <2>3, <2>4, <2>6 DEF ControlAct, Points, TypeOK, AgentOK
  <1>14. CASE NoTick
    BY <1>14 DEF NoTick, Points, TypeOK
  <1>15. CASE Tick
    <2> DEFINE gone  == lost /\ "sensor" \notin session.degraded
               more  == SeenDrops > lastDrops
               notes == (IF gone THEN <<"monitor.sensor_lost">> ELSE <<>>) \o
                        (IF more THEN <<"monitor.events_dropped">> ELSE <<>>)
               beat  == [session EXCEPT !.age = 0]
               seen  == IF lost THEN Degrade(beat, "sensor") ELSE beat
               said  == [i \in 1..Len(notes) |-> Notice(seq + i, notes[i])]
    <2>1. notes \in Seq(NoticeRules)
      <3>1. /\ <<"monitor.sensor_lost">> \in Seq(NoticeRules)
            /\ <<"monitor.events_dropped">> \in Seq(NoticeRules)
            /\ <<>> \in Seq(NoticeRules)
        BY DEF NoticeRules
      <3> QED
        BY <3>1, ConcatProperties
    <2>2. seen \in Sessions
      BY <1>a, HeartbeatType, DegradeType DEF Reasons
    <2>3. SeenDrops \in Nat
      BY DEF SeenDrops, TypeOK
    <2> HIDE DEF notes, seen, more
    <2>4. said \in Seq(Events) /\ Len(notes) \in Nat
      <3>1. Len(notes) \in Nat
        BY <2>1, LenProperties
      <3>2. \A i \in 1..Len(notes) : Notice(seq + i, notes[i]) \in Events
        BY <1>n, <2>1, <3>1, ElementOfSeq, NoticeType
      <3> QED
        BY <3>1, <3>2
    <2> HIDE DEF said
    <2>5. /\ session' = IF more
                        THEN Degrade([seen EXCEPT !.dropped = SeenDrops], "drops")
                        ELSE seen
          /\ lastDrops' = IF more THEN SeenDrops ELSE lastDrops
          /\ out' = out \o said
          /\ seq' = seq + Len(notes)
      BY <1>15 DEF Tick, notes, seen, more, said
    <2>6. session' \in Sessions
      BY <2>2, <2>3, <2>5, ResponseType, DegradeType DEF Reasons
    <2>7. out' \in Seq(Events)
      BY <1>a, <2>4, <2>5, ConcatProperties
    <2>8. seq' \in Nat /\ lastDrops' \in Nat
      BY <1>n, <2>3, <2>4, <2>5
    <2> QED
      BY <1>15, <2>6, <2>7, <2>8 DEF Tick, Points, TypeOK
  <1>16. CASE TickFinalise
    <2> DEFINE due == {p \in pending : p.left = 0}
    <2>1. due \in SUBSET Pendings
      BY <1>a
    <2>2. /\ bundles' = Finalised(due, session.responses, Len(timeline))
          /\ pending' = pending \ due
      BY <1>16 DEF TickFinalise
    <2> HIDE DEF due
    <2>3. bundles' \in Seq(Bundles) /\ pending' \in SUBSET Pendings
      BY <1>a, <1>l, <1>s, <2>1, <2>2, FinalisedType
    <2> QED
      BY <1>16, <2>3 DEF TickFinalise, Points, TypeOK
  <1>17. CASE TickFlush
    BY <1>17, <1>l DEF TickFlush, Flush, Points, TypeOK
  <1>18. CASE TickSave
    BY <1>18, <1>a DEF TickSave, SaveSession, Points, TypeOK
  <1>19. CASE CheckAlive
    BY <1>19 DEF CheckAlive, Points, TypeOK
  <1>20. CASE DrainOne
    <2>1. ring' \in Seq(Observations) /\ out' \in Seq(Events) /\ seq' \in Nat
      BY <1>20, <1>9 DEF DrainOne
    <2> QED
      BY <1>20, <2>1 DEF DrainOne, ReadRing, TypeOK
  <1>21. CASE DrainDone
    <2>1. /\ pc' \in {"shutdown", "record"} /\ quiet' \in Nat
          /\ reason' \in {"none", "stopped", "exited"}
      BY <1>21, <1>n DEF DrainDone
    <2> QED
      BY <1>21, <2>1 DEF DrainDone, Points, TypeOK
  <1>22. CASE Shutdown
    <2> DEFINE ev == Notice(seq + 1, "monitor.stopped")
    <2>1. ev \in Events
      BY <1>a, NoticeType DEF NoticeRules
    <2>2. /\ session' = [Apply(session, ev) EXCEPT !.ended = TRUE, !.age = 0]
          /\ timeline' = Append(timeline, ev)
          /\ bundles' = Finalised(WithAfter(pending), session.responses,
                                  Len(timeline) + 1)
      BY <1>22 DEF Shutdown
    <2> HIDE DEF ev
    <2>3. session' \in Sessions
      BY <1>a, <2>2, ApplyType, HeartbeatType
    <2>4. timeline' \in Seq(Events)
      BY <2>1, <2>2, <1>c
    <2>5. bundles' \in Seq(Bundles)
      <3>1. WithAfter(pending) \in SUBSET Pendings
        BY <1>a, WithAfterType
      <3>2. Len(timeline) + 1 \in Nat
        BY <1>l
      <3>3. Finalised(WithAfter(pending), session.responses,
                      Len(timeline) + 1) \in Seq(Bundles)
        BY <1>a, <1>s, <3>1, <3>2, FinalisedType
      <3> QED
        BY <2>2, <3>3
    <2>6. flushed' \in Nat /\ seq' \in Nat
      BY <1>22, <1>n, <1>l DEF Shutdown
    <2> QED
      BY <1>22, <2>3, <2>4, <2>5, <2>6 DEF Shutdown, Points, TypeOK
  <1>23. CASE EndFlush
    BY <1>23, <1>l DEF EndFlush, Flush, Points, TypeOK
  <1>24. CASE EndSave
    BY <1>24, <1>a DEF EndSave, SaveSession, Points, TypeOK
  <1>25. ASSUME NEW o \in Observations, Emit(o) PROVE TypeOK'
    <2>1. Append(ring, o) \in Seq(Observations)
      BY <1>a, AppendProperties
    <2>2. ring' \in Seq(Observations)
      BY <1>25, <1>a, <2>1, Zenon DEF Emit
    <2>3. kdrops' \in Nat /\ emitted' \in Nat
      BY <1>25, <1>n DEF Emit
    <2> QED
      BY <1>25, <2>2, <2>3 DEF Emit, TypeOK
  <1>26. ASSUME NEW p \in Procs, ProcessExits(p) PROVE TypeOK'
    BY <1>26 DEF ProcessExits, TypeOK
  <1>27. ASSUME NEW a \in Actions, Request(a) PROVE TypeOK'
    BY <1>27 DEF Request, TypeOK
  <1>28. CASE SensorStops
    BY <1>28 DEF SensorStops, TypeOK
  <1>29. CASE Signal
    BY <1>29 DEF Signal, TypeOK
  <1>30. CASE Second
    <2>1. session' \in Sessions /\ disk' \in SUBSET Sessions
      BY <1>30, <1>a, OlderType DEF Second
    <2>2. \A p \in Pendings :
            [p EXCEPT !.left = IF p.left = 0 THEN 0 ELSE p.left - 1] \in Pendings
      BY BoundsAssumption DEF Pendings
    <2>3. pending' \in SUBSET Pendings
      BY <1>30, <1>a, <2>2 DEF Second
    <2> QED
      BY <1>30, <2>1, <2>3 DEF Second, TypeOK
  <1>31. CASE Crash
    BY <1>31, <1>a DEF Crash, Points, TypeOK
  <1>32. CASE UNCHANGED vars
    BY <1>32 DEF vars, TypeOK
  <1> QED
    BY <1>1, <1>2, <1>2b, <1>3, <1>6, <1>7, <1>8, <1>10, <1>11, <1>12, <1>13, <1>14,
       <1>15, <1>16, <1>17, <1>18, <1>19, <1>20, <1>21, <1>22, <1>23, <1>24,
       <1>25, <1>26, <1>27, <1>28, <1>29, <1>30, <1>31, <1>32
       DEF Next, Loop, Finished

(* Type correctness: whatever the agent, the operator, the clock and       *)
(* crashes do, the loop's variables keep their shapes.                     *)
THEOREM TypeCorrect == Spec => []TypeOK
  BY InitType, NextType, PTL DEF Spec

-----------------------------------------------------------------------------
(* The flight recorder has no gap.  NoGap is not inductive: that a `break' *)
(* is taken only when nothing waits to be recorded needs to be known where *)
(* the loop decides, so the invariant adds it for "enforce".               *)
NoGapInv ==
  /\ NoGap
  /\ pc = "enforce" => (out = <<>>)

(* Recording the first waiting event keeps the numbering.                  *)
LEMMA RecordNumbered ==
  ASSUME NEW s \in Seq(Events), NEW t \in Seq(Events), t # <<>>,
         \A i \in 1..Len(s) : s[i].seq = i,
         \A i \in 1..Len(t) : t[i].seq = Len(s) + i
  PROVE  /\ Len(Append(s, Head(t))) + Len(Tail(t)) = Len(s) + Len(t)
         /\ \A i \in 1..Len(Append(s, Head(t))) : Append(s, Head(t))[i].seq = i
         /\ \A i \in 1..Len(Tail(t)) :
              Tail(t)[i].seq = Len(Append(s, Head(t))) + i
  <1>1. /\ Len(s) \in Nat /\ Len(t) \in Nat /\ Len(t) > 0
        /\ Head(t) = t[1] /\ Head(t) \in Events
        /\ Len(Tail(t)) = Len(t) - 1
        /\ \A i \in 1..Len(Tail(t)) : Tail(t)[i] = t[i + 1]
    BY HeadTailProperties, LenProperties
  <1>2. /\ Len(Append(s, Head(t))) = Len(s) + 1
        /\ \A i \in 1..Len(s) : Append(s, Head(t))[i] = s[i]
        /\ Append(s, Head(t))[Len(s) + 1] = Head(t)
    BY <1>1, AppendProperties
  <1>3. Head(t).seq = Len(s) + 1
    BY <1>1
  <1>4. ASSUME NEW i \in 1..Len(s) + 1
        PROVE  Append(s, Head(t))[i].seq = i
    <2>1. CASE i \in 1..Len(s)
      BY <1>2, <2>1
    <2>2. CASE i = Len(s) + 1
      BY <1>2, <1>3, <2>2
    <2> QED
      BY <1>1, <2>1, <2>2
  <1>5. ASSUME NEW i \in 1..Len(Tail(t))
        PROVE  Tail(t)[i].seq = Len(s) + 1 + i
    <2>1. i + 1 \in 1..Len(t)
      BY <1>1
    <2>2. t[i + 1].seq = Len(s) + (i + 1)
      BY <2>1
    <2> QED
      BY <1>1, <2>2
  <1>6. Len(s) + 1 + Len(Tail(t)) = Len(s) + Len(t)
    BY <1>1
  <1> QED
    BY <1>2, <1>4, <1>5, <1>6

(* Queueing events numbered from where the queue ends keeps the numbering. *)
LEMMA QueueNumbered ==
  ASSUME NEW k \in Nat, NEW t \in Seq(Events), NEW u \in Seq(Events),
         \A i \in 1..Len(t) : t[i].seq = k + i,
         \A i \in 1..Len(u) : u[i].seq = k + Len(t) + i
  PROVE  /\ Len(t \o u) = Len(t) + Len(u)
         /\ \A i \in 1..Len(t \o u) : (t \o u)[i].seq = k + i
  <1>1. /\ Len(t) \in Nat /\ Len(u) \in Nat
        /\ Len(t \o u) = Len(t) + Len(u)
        /\ \A i \in 1..Len(t) + Len(u) :
             (t \o u)[i] = IF i <= Len(t) THEN t[i] ELSE u[i - Len(t)]
    BY ConcatProperties, LenProperties
  <1>2. ASSUME NEW i \in 1..Len(t) + Len(u)
        PROVE  (t \o u)[i].seq = k + i
    <2>1. CASE i <= Len(t)
      BY <1>1, <2>1
    <2>2. CASE i > Len(t)
      <3>1. i - Len(t) \in 1..Len(u)
        BY <1>1, <2>2
      <3>2. u[i - Len(t)].seq = k + Len(t) + (i - Len(t))
        BY <3>1
      <3> QED
        BY <1>1, <2>2, <3>2
    <2> QED
      BY <1>1, <2>1, <2>2
  <1> QED
    BY <1>1, <1>2

(* Nothing is recorded or waiting, or only the startup notices, numbered.  *)
LEMMA NoGapInit == Init => NoGapInv
  <1> SUFFICES ASSUME Init PROVE NoGapInv
    OBVIOUS
  <1>1. timeline = <<>> /\ pc = "record"
    BY DEF Init
  <1>2. CASE out = <<Notice(1, "monitor.started")>> /\ seq = 1
    BY <1>1, <1>2 DEF NoGapInv, NoGap, Notice, Ending
  <1>3. CASE /\ out = <<Notice(1, "monitor.coverage_gap"),
                       Notice(2, "monitor.started")>>
             /\ seq = 2
    BY <1>1, <1>3 DEF NoGapInv, NoGap, Notice, Ending
  <1> QED
    BY <1>2, <1>3 DEF Init

(* No step drops, duplicates, reorders or renumbers an event.              *)
LEMMA NoGapStep == TypeOK /\ NoGapInv /\ [Next]_vars => NoGapInv'
  <1> SUFFICES ASSUME TypeOK, NoGapInv, [Next]_vars PROVE NoGapInv'
    OBVIOUS
  <1> USE DEF sensorVars, agentVars, dashVars, storeVars, onceVars, loopVars,
              incidentVars
  <1>a. /\ timeline \in Seq(Events) /\ out \in Seq(Events)
        /\ ring \in Seq(Observations)
    BY DEF TypeOK
  <1>l. Len(timeline) \in Nat /\ Len(out) \in Nat
    BY <1>a, LenProperties
  <1>g. /\ seq = Len(timeline) + Len(out)
        /\ \A i \in 1..Len(timeline) : timeline[i].seq = i
        /\ \A i \in 1..Len(out) : out[i].seq = Len(timeline) + i
    BY DEF NoGapInv, NoGap
  <1>e. (Ending \/ pc = "enforce") => out = <<>>
    BY DEF NoGapInv, NoGap
  \* Steps that leave what is recorded and what waits alone.
  <1>1. ASSUME UNCHANGED <<timeline, out, seq>>,
               pc' \in {"record", "poll", "control", "act", "tick", "finalise",
                        "flush", "save", "alive", "drain", "crashed"}
               \/ out = <<>> \/ pc' = pc
        PROVE  NoGapInv'
    BY <1>1, <1>g, <1>e DEF NoGapInv, NoGap, Ending
  \* Steps that record the first waiting event.
  <1>2. ASSUME pc' \in {"record", "bundle"}, out # <<>>, UNCHANGED seq,
               timeline' = Append(timeline, Head(out)), out' = Tail(out)
        PROVE  NoGapInv'
    <2>1. /\ Len(timeline') + Len(out') = Len(timeline) + Len(out)
          /\ \A i \in 1..Len(timeline') : timeline'[i].seq = i
          /\ \A i \in 1..Len(out') : out'[i].seq = Len(timeline') + i
      BY <1>2, <1>a, <1>g, RecordNumbered
    <2> QED
      BY <1>2, <1>g, <2>1 DEF NoGapInv, NoGap, Ending
  \* Steps that queue events numbered on from seq.
  <1>3. ASSUME NEW u \in Seq(Events), UNCHANGED timeline, out' = out \o u,
               seq' = seq + Len(u),
               \A i \in 1..Len(u) : u[i].seq = seq + i,
               pc' \in {"record", "poll", "drain", "finalise"}
        PROVE  NoGapInv'
    <2>1. /\ Len(out') = Len(out) + Len(u)
          /\ \A i \in 1..Len(out') : out'[i].seq = Len(timeline) + i
      <3>1. \A i \in 1..Len(u) : u[i].seq = Len(timeline) + Len(out) + i
        BY <1>3, <1>g
      <3>2. /\ Len(out \o u) = Len(out) + Len(u)
            /\ \A i \in 1..Len(out \o u) : (out \o u)[i].seq = Len(timeline) + i
        BY <3>1, <1>a, <1>l, <1>g, QueueNumbered, Zenon
      <3> QED
        BY <1>3, <3>2
    <2>2. Len(u) \in Nat
      BY LenProperties
    <2> QED
      BY <1>3, <1>g, <1>l, <2>1, <2>2 DEF NoGapInv, NoGap, Ending
  <1>4. ASSUME NEW r \in NoticeRules, Announce(r), UNCHANGED timeline,
               pc' = "record"
        PROVE  NoGapInv'
    <2> DEFINE u == <<Notice(seq + 1, r)>>
    <2>1. Notice(seq + 1, r) \in Events
      BY NoticeType DEF TypeOK
    <2>2. out' = out \o u /\ u \in Seq(Events) /\ Len(u) = 1
      BY <1>4, <1>a, <2>1, AppendIsConcat DEF Announce
    <2>3. \A i \in 1..Len(u) : u[i].seq = seq + i
      BY DEF Notice
    <2>4. seq' = seq + Len(u)
      BY <1>4, <2>2 DEF Announce
    <2> HIDE DEF u
    <2> QED
      BY <1>3, <1>4, <2>2, <2>3, <2>4
  <1>5. ASSUME ReadRing, pc \in {"poll", "drain"} PROVE NoGapInv'
    <2> DEFINE u == Process(Head(ring), seq)
    <2>1. Head(ring) \in Observations /\ seq \in Nat
      BY <1>5, <1>a, HeadTailProperties DEF ReadRing, TypeOK
    <2>2. u \in Seq(Events) /\ Len(u) = Len(Head(ring)) /\ Len(u) \in Nat
      BY <2>1, ProcessType
    <2>3. \A i \in 1..Len(u) : u[i].seq = seq + i
      BY <2>2 DEF Process
    <2>4. UNCHANGED <<timeline, pc>> /\ out' = out \o u /\ seq' = seq + Len(u)
      BY <1>5, <2>2 DEF ReadRing
    <2> HIDE DEF u
    <2> QED
      BY <1>3, <1>5, <2>2, <2>3, <2>4
  <1>6. CASE RecordPlain
    BY <1>6, <1>2 DEF RecordPlain
  <1>7. CASE RecordIncident
    BY <1>7, <1>2 DEF RecordIncident
  <1>8. CASE EnforceViolation
    BY <1>8, <1>4 DEF EnforceViolation, NoticeRules
  <1>9. CASE EnforceDegraded
    BY <1>9, <1>4 DEF EnforceDegraded, NoticeRules
  <1>10. CASE ControlAct
    <2>1. OperatorRule[hand] \in NoticeRules
      BY <1>10 DEF ControlAct, TypeOK, OperatorRule, Actions, NoticeRules
    <2> QED
      BY <1>10, <2>1, <1>4 DEF ControlAct
  <1>11. CASE Tick
    <2> DEFINE gone  == lost /\ "sensor" \notin session.degraded
               more  == SeenDrops > lastDrops
               notes == (IF gone THEN <<"monitor.sensor_lost">> ELSE <<>>) \o
                        (IF more THEN <<"monitor.events_dropped">> ELSE <<>>)
               u     == [i \in 1..Len(notes) |-> Notice(seq + i, notes[i])]
    <2>1. notes \in Seq(NoticeRules)
      <3>1. /\ <<"monitor.sensor_lost">> \in Seq(NoticeRules)
            /\ <<"monitor.events_dropped">> \in Seq(NoticeRules)
            /\ <<>> \in Seq(NoticeRules)
        BY DEF NoticeRules
      <3> QED
        BY <3>1, ConcatProperties
    <2>2. UNCHANGED timeline /\ out' = out \o u /\ seq' = seq + Len(notes)
      BY <1>11 DEF Tick
    <2>3. Len(notes) \in Nat /\ seq \in Nat
      BY <2>1, LenProperties DEF TypeOK
    <2> HIDE DEF notes
    <2>4. \A i \in 1..Len(notes) : Notice(seq + i, notes[i]) \in Events
      BY <2>1, <2>3, ElementOfSeq, NoticeType
    <2>5. u \in Seq(Events) /\ Len(u) = Len(notes)
      BY <2>3, <2>4
    <2>6. \A i \in 1..Len(u) : u[i].seq = seq + i
      BY <2>5 DEF Notice
    <2>7. pc' = "finalise"
      BY <1>11 DEF Tick
    <2> HIDE DEF u
    <2> QED
      BY <1>3, <2>2, <2>5, <2>6, <2>7
  <1>12. CASE Shutdown
    <2> DEFINE ev == Notice(seq + 1, "monitor.stopped")
    <2>1. /\ timeline' = Append(timeline, ev) /\ seq' = seq + 1
          /\ out' = out /\ out = <<>> /\ pc' = "endflush"
      BY <1>12, <1>e DEF Shutdown, Ending
    <2>2. Len(out) = 0 /\ seq = Len(timeline)
      BY <2>1, <1>g, <1>l, EmptySeq
    <2>3. ev.seq = Len(timeline) + 1 /\ ev \in Events
      <3>1. ev.seq = seq + 1
        BY DEF Notice
      <3>2. seq + 1 \in Nat
        BY <1>l, <2>2
      <3>3. ev \in Events
        BY <3>2, NoticeType DEF NoticeRules
      <3> QED
        BY <2>2, <3>1, <3>3
    <2> HIDE DEF ev
    <2>4. /\ Len(timeline') = Len(timeline) + 1
          /\ \A i \in 1..Len(timeline) : timeline'[i] = timeline[i]
          /\ timeline'[Len(timeline) + 1] = ev
      BY <2>1, <2>3, <1>a, AppendProperties
    <2>5. ASSUME NEW i \in 1..Len(timeline') PROVE timeline'[i].seq = i
      <3>1. CASE i = Len(timeline) + 1
        BY <3>1, <2>3, <2>4
      <3>2. CASE i \in 1..Len(timeline)
        BY <3>2, <2>4, <1>g
      <3> QED
        BY <3>1, <3>2, <2>4, <1>l
    <2>6. seq' = Len(timeline') + Len(out')
      BY <2>1, <2>2, <2>4, <1>l
    <2>7. \A i \in 1..Len(out') : out'[i].seq = Len(timeline') + i
      BY <2>1, <2>2
    <2> QED
      BY <2>1, <2>5, <2>6, <2>7 DEF NoGapInv, NoGap, Ending
  <1>13. CASE RecordDone \/ WriteBundle \/ PollDone \/ ControlRead \/ NoTick
              \/ TickFinalise \/ TickFlush \/ TickSave \/ CheckAlive \/ Crash
    BY <1>13, <1>1 DEF RecordDone, WriteBundle, PollDone, ControlRead, NoTick,
       TickFinalise, TickFlush, Flush, TickSave, SaveSession, CheckAlive, Crash
  <1>14. CASE CheckStop \/ EndFlush \/ EndSave
    BY <1>14, <1>1, <1>e DEF CheckStop, EndFlush, Flush, EndSave, SaveSession,
       Ending
  <1>15. CASE DrainDone
    <2>1. CASE out = <<>>
      <3>1. UNCHANGED <<timeline, out, seq>>
        BY <1>15 DEF DrainDone
      <3> QED
        BY <2>1, <3>1, <1>1, Zenon
    <2>2. CASE out # <<>>
      <3>1. quiet' = 0 /\ ~(quiet' >= QuietTicks)
        BY <1>15, <2>2, BoundsAssumption DEF DrainDone
      <3> QED
        BY <1>15, <3>1, <1>1 DEF DrainDone
    <2> QED
      BY <2>1, <2>2
  <1>16. CASE PollOne
    BY <1>16, <1>5 DEF PollOne
  <1>17. CASE DrainOne
    BY <1>17, <1>5 DEF DrainOne
  <1>18. ASSUME NEW o \in Observations, Emit(o) PROVE NoGapInv'
    BY <1>18, <1>1 DEF Emit
  <1>19. ASSUME NEW p \in Procs, ProcessExits(p) PROVE NoGapInv'
    BY <1>19, <1>1 DEF ProcessExits
  <1>20. ASSUME NEW a \in Actions, Request(a) PROVE NoGapInv'
    BY <1>20, <1>1 DEF Request
  <1>21. CASE SensorStops \/ Signal \/ Second \/ UNCHANGED vars
    BY <1>21, <1>1 DEF SensorStops, Signal, Second, vars
  <1> QED
    BY <1>6, <1>7, <1>8, <1>9, <1>10, <1>11, <1>12, <1>13, <1>14, <1>15,
       <1>16, <1>17, <1>18, <1>19, <1>20, <1>21 DEF Next, Loop, Finished

(* The timeline is gapless: for every policy, agent and schedule, crashes  *)
(* included, each event the engine numbered is recorded in order or        *)
(* waiting, and none waits when the monitor ends.                          *)
THEOREM TimelineHasNoGap == Spec => []NoGap
  <1>1. NoGapInv => NoGap
    BY DEF NoGapInv
  <1> QED
    BY <1>1, NoGapInit, NoGapStep, TypeCorrect, PTL DEF Spec

-----------------------------------------------------------------------------
(* The session's status is the timeline's.  The status is a function of    *)
(* three counts, so the invariant says what each count means.              *)
StatusInv ==
  /\ session.status = StatusOf(session)
  /\ session.violations > 0 <=>
       \E i \in 1..Len(timeline) : IsBreach(timeline[i])
  /\ session.anomalies > 0 <=>
       \E i \in 1..Len(timeline) : Counted(timeline[i], "anomaly")

(* Session::recompute leaves a status that agrees with the counts, and the *)
(* counts as they were.                                                    *)
LEMMA RecomputeAgrees ==
  ASSUME NEW s \in Sessions
  PROVE  /\ Recompute(s).status = StatusOf(Recompute(s))
         /\ Recompute(s).violations = s.violations
         /\ Recompute(s).anomalies = s.anomalies
         /\ Recompute(s).degraded = s.degraded
  BY DEF Recompute, StatusOf, Sessions

(* Session::degrade recomputes the status and counts nothing.              *)
LEMMA DegradeAgrees ==
  ASSUME NEW s \in Sessions, NEW r \in Reasons
  PROVE  /\ Degrade(s, r).status = StatusOf(Degrade(s, r))
         /\ Degrade(s, r).violations = s.violations
         /\ Degrade(s, r).anomalies = s.anomalies
  <1> DEFINE d == [s EXCEPT !.degraded = s.degraded \cup {r}]
  <1>1. d \in Sessions /\ d.violations = s.violations /\ d.anomalies = s.anomalies
    BY DEF Sessions
  <1>2. Degrade(s, r) = Recompute(d)
    BY DEF Degrade
  <1> HIDE DEF d
  <1> QED
    BY <1>1, <1>2, RecomputeAgrees

(* Session::apply counts an event that confirms no other, and recomputes.  *)
LEMMA ApplyAgrees ==
  ASSUME NEW s \in Sessions, NEW ev
  PROVE  /\ Apply(s, ev).status = StatusOf(Apply(s, ev))
         /\ Apply(s, ev).violations =
              s.violations + (IF Counted(ev, "violation") THEN 1 ELSE 0)
         /\ Apply(s, ev).anomalies =
              s.anomalies + (IF Counted(ev, "anomaly") THEN 1 ELSE 0)
  <1> DEFINE v == s.violations + (IF Counted(ev, "violation") THEN 1 ELSE 0)
             a == s.anomalies + (IF Counted(ev, "anomaly") THEN 1 ELSE 0)
             c == [s EXCEPT !.violations = v, !.anomalies = a]
  <1>1. v \in Nat /\ a \in Nat
    BY DEF Sessions
  <1>2. Apply(s, ev) = Recompute(c)
    BY DEF Apply
  <1> HIDE DEF v, a
  <1>3. c \in Sessions /\ c.violations = v /\ c.anomalies = a
    BY <1>1 DEF Sessions
  <1> HIDE DEF c
  <1>4. /\ Apply(s, ev).status = StatusOf(Apply(s, ev))
        /\ Apply(s, ev).violations = v
        /\ Apply(s, ev).anomalies = a
    BY <1>2, <1>3, RecomputeAgrees
  <1> QED
    BY <1>4 DEF v, a

(* t has the counts of s, and a status that agrees with them if s has.     *)
SameCounts(t, s) ==
  /\ t.violations = s.violations
  /\ t.anomalies = s.anomalies
  /\ s.status = StatusOf(s) => t.status = StatusOf(t)

(* A response, an incident, a heartbeat, a drop counter or a second more   *)
(* changes nothing the status depends on.                                  *)
LEMMA OtherFields ==
  ASSUME NEW s \in Sessions, NEW f \in BOOLEAN, NEW k \in Nat
  PROVE  /\ SameCounts([s EXCEPT !.frozen = f, !.responses = k], s)
         /\ SameCounts([s EXCEPT !.responses = k], s)
         /\ SameCounts([s EXCEPT !.incidents = k], s)
         /\ SameCounts([s EXCEPT !.dropped = k], s)
         /\ SameCounts([s EXCEPT !.ended = f, !.age = 0], s)
         /\ SameCounts([s EXCEPT !.age = 0], s)
         /\ SameCounts(Older(s), s)
  BY DEF Sessions, StatusOf, Older, SameCounts

(* At startup the status agrees with an empty timeline.                    *)
LEMMA StatusInit == Init => StatusInv
  <1> SUFFICES ASSUME Init PROVE StatusInv
    OBVIOUS
  <1>1. NewSession \in Sessions
    BY DEF NewSession, Sessions, Statuses
  <1>2. /\ NewSession.status = StatusOf(NewSession)
        /\ NewSession.violations = 0 /\ NewSession.anomalies = 0
    BY DEF NewSession, StatusOf
  <1>3. LET d == Degrade(NewSession, "coverage")
        IN  d.status = StatusOf(d) /\ d.violations = 0 /\ d.anomalies = 0
    BY <1>1, <1>2, DegradeAgrees DEF Reasons
  <1>4. /\ session.status = StatusOf(session)
        /\ session.violations = 0 /\ session.anomalies = 0
    BY <1>2, <1>3 DEF Init
  <1>5. Len(timeline) = 0
    BY DEF Init
  <1> QED
    BY <1>4, <1>5 DEF StatusInv

(* No step makes the status and the timeline disagree.                     *)
LEMMA StatusStep == TypeOK /\ StatusInv /\ [Next]_vars => StatusInv'
  <1> SUFFICES ASSUME TypeOK, StatusInv, [Next]_vars PROVE StatusInv'
    OBVIOUS
  <1> USE DEF sensorVars, agentVars, dashVars, storeVars, onceVars, loopVars,
              incidentVars
  <1>a. /\ timeline \in Seq(Events) /\ out \in Seq(Events)
        /\ session \in Sessions
    BY DEF TypeOK
  <1>l. Len(timeline) \in Nat
    BY <1>a, LenProperties
  <1>s. /\ session.incidents \in Nat /\ session.responses \in Nat
        /\ session.frozen \in BOOLEAN
        /\ session.violations \in Nat /\ session.anomalies \in Nat
    BY DEF TypeOK, Sessions
  \* Steps that record nothing and count nothing.
  <1>1. ASSUME UNCHANGED timeline, SameCounts(session', session)
        PROVE  StatusInv'
    BY <1>1 DEF StatusInv, SameCounts
  <1>2. ASSUME UNCHANGED <<timeline, session>> PROVE StatusInv'
    BY <1>2 DEF StatusInv
  \* Steps that record ev.
  <1>3. ASSUME NEW ev \in Events, timeline' = Append(timeline, ev),
               SameCounts(session', Apply(session, ev))
        PROVE  StatusInv'
    <2>1. /\ Len(timeline') = Len(timeline) + 1
          /\ \A i \in 1..Len(timeline) : timeline'[i] = timeline[i]
          /\ timeline'[Len(timeline) + 1] = ev
      BY <1>3, <1>a, AppendProperties
    <2>2. /\ session'.status = StatusOf(session')
          /\ session'.violations =
               session.violations + (IF Counted(ev, "violation") THEN 1 ELSE 0)
          /\ session'.anomalies =
               session.anomalies + (IF Counted(ev, "anomaly") THEN 1 ELSE 0)
      BY <1>3, <1>a, ApplyAgrees DEF SameCounts
    <2>3. session'.violations > 0 <=>
            \E i \in 1..Len(timeline') : IsBreach(timeline'[i])
      BY <2>1, <2>2, <1>l, <1>s DEF StatusInv, IsBreach, Counted
    <2>4. session'.anomalies > 0 <=>
            \E i \in 1..Len(timeline') : Counted(timeline'[i], "anomaly")
      BY <2>1, <2>2, <1>l, <1>s DEF StatusInv, Counted
    <2> QED
      BY <2>2, <2>3, <2>4 DEF StatusInv
  <1>4. ASSUME out # <<>> PROVE Head(out) \in Events
    BY <1>4, <1>a, HeadTailProperties
  <1>5. CASE RecordPlain
    <2>1. SameCounts(session', Apply(session, Head(out)))
      BY <1>5 DEF RecordPlain, SameCounts
    <2> QED
      BY <1>5, <1>3, <1>4, <2>1 DEF RecordPlain
  <1>6. CASE RecordIncident
    <2>1. SameCounts(session', Apply(session, Head(out)))
      BY <1>6 DEF RecordIncident, SameCounts
    <2> QED
      BY <1>6, <1>3, <1>4, <2>1 DEF RecordIncident
  <1>6b. CASE WriteBundle
    <2>1. session.incidents + 1 \in Nat
      BY <1>s
    <2>2. SameCounts(session', session)
      BY <1>6b, <1>a, <2>1, OtherFields, Zenon DEF WriteBundle
    <2> QED
      BY <1>6b, <1>1, <2>2 DEF WriteBundle
  <1>7. CASE Shutdown
    <2> DEFINE ev == Notice(seq + 1, "monitor.stopped")
    <2>1. ev \in Events
      <3>1. seq + 1 \in Nat
        BY DEF TypeOK
      <3> QED
        BY <3>1, NoticeType DEF NoticeRules
    <2>2. /\ session' = [Apply(session, ev) EXCEPT !.ended = TRUE, !.age = 0]
          /\ timeline' = Append(timeline, ev)
      BY <1>7 DEF Shutdown
    <2> HIDE DEF ev
    <2>3. SameCounts(session', Apply(session, ev))
      BY <1>a, <2>2, ApplyType, OtherFields, Zenon
    <2> QED
      BY <2>1, <2>2, <2>3, <1>3
  <1>8. CASE EnforceViolation
    <2>1. PICK ok \in Outcomes :
            session' = [session EXCEPT
              !.frozen = session.frozen \/ (ok /\ Response = "freeze"),
              !.responses = session.responses + 1]
      BY <1>8 DEF EnforceViolation
    <2>2. /\ session.responses + 1 \in Nat
          /\ (session.frozen \/ (ok /\ Response = "freeze")) \in BOOLEAN
      BY <1>s
    <2>3. SameCounts(session', session)
      BY <1>a, <2>1, <2>2, OtherFields, Zenon
    <2> QED
      BY <1>8, <1>1, <2>3 DEF EnforceViolation
  <1>9. CASE EnforceDegraded
    <2>1. session.responses + 1 \in Nat
      BY <1>s
    <2>2. SameCounts(session', session)
      BY <1>9, <1>a, <2>1, OtherFields, Zenon DEF EnforceDegraded
    <2> QED
      BY <1>9, <1>1, <2>2 DEF EnforceDegraded
  <1>10. CASE ControlAct
    <2>1. PICK ok \in Outcomes :
            session' = [session EXCEPT
              !.frozen = IF ok /\ hand = "freeze" THEN TRUE
                         ELSE IF ok /\ hand = "resume" THEN FALSE
                         ELSE session.frozen,
              !.responses =
                session.responses + (IF hand = "stop" THEN 0 ELSE 1)]
      BY <1>10 DEF ControlAct
    <2> DEFINE f == IF ok /\ hand = "freeze" THEN TRUE
                    ELSE IF ok /\ hand = "resume" THEN FALSE
                    ELSE session.frozen
               k == session.responses + (IF hand = "stop" THEN 0 ELSE 1)
    <2>2. f \in BOOLEAN
      BY <1>s, Zenon
    <2>3. k \in Nat
      BY <1>s
    <2>4. session' = [session EXCEPT !.frozen = f, !.responses = k]
      BY <2>1
    <2> HIDE DEF f, k
    <2>5. SameCounts(session', session)
      BY <1>a, <2>2, <2>3, <2>4, OtherFields, Zenon
    <2> QED
      BY <1>10, <1>1, <2>5 DEF ControlAct
  <1>11. CASE Tick
    <2> DEFINE more == SeenDrops > lastDrops
               beat == [session EXCEPT !.age = 0]
               seen == IF lost THEN Degrade(beat, "sensor") ELSE beat
               told == [seen EXCEPT !.dropped = SeenDrops]
    <2>1. /\ session' = IF more THEN Degrade(told, "drops") ELSE seen
          /\ UNCHANGED timeline
      BY <1>11 DEF Tick
    <2>2. beat \in Sessions /\ SameCounts(beat, session)
      BY <1>a, HeartbeatType, OtherFields, Zenon
    <2>3. SeenDrops \in Nat
      BY DEF SeenDrops, TypeOK
    <2> HIDE DEF beat
    <2>4. seen \in Sessions /\ SameCounts(seen, beat)
      BY <2>2, DegradeType, DegradeAgrees DEF Reasons, SameCounts
    <2> HIDE DEF seen
    <2>5. told \in Sessions /\ SameCounts(told, seen)
      BY <2>3, <2>4, ResponseType, OtherFields, Zenon
    <2> HIDE DEF told, more
    <2>6. SameCounts(Degrade(told, "drops"), told)
      BY <2>5, DegradeAgrees DEF Reasons, SameCounts
    <2>7. SameCounts(session', session)
      BY <2>1, <2>2, <2>4, <2>5, <2>6 DEF SameCounts
    <2> QED
      BY <2>1, <2>7, <1>1
  <1>12. CASE Second
    <2>1. SameCounts(session', session)
      BY <1>12, <1>a, OtherFields, Zenon DEF Second
    <2> QED
      BY <1>12, <2>1, <1>1 DEF Second
  <1>13. CASE RecordDone \/ CheckStop \/ PollOne \/ PollDone \/ ControlRead
              \/ NoTick \/ TickFinalise \/ CheckAlive \/ DrainOne \/ DrainDone
    BY <1>13, <1>2 DEF RecordDone, CheckStop, PollOne, ReadRing, PollDone,
       ControlRead, NoTick, TickFinalise, CheckAlive, DrainOne, DrainDone
  <1>14. CASE TickFlush \/ TickSave \/ EndFlush \/ EndSave
    BY <1>14, <1>2 DEF TickFlush, TickSave, EndFlush, EndSave, Flush,
       SaveSession
  <1>15. ASSUME NEW o \in Observations, Emit(o) PROVE StatusInv'
    BY <1>15, <1>2 DEF Emit
  <1>16. ASSUME NEW p \in Procs, ProcessExits(p) PROVE StatusInv'
    BY <1>16, <1>2 DEF ProcessExits
  <1>17. ASSUME NEW a \in Actions, Request(a) PROVE StatusInv'
    BY <1>17, <1>2 DEF Request
  <1>18. CASE SensorStops \/ Signal \/ Crash \/ UNCHANGED vars
    BY <1>18, <1>2 DEF SensorStops, Signal, Crash, vars
  <1> QED
    BY <1>5, <1>6, <1>6b, <1>7, <1>8, <1>9, <1>10, <1>11, <1>12, <1>13, <1>14,
       <1>15, <1>16, <1>17, <1>18 DEF Next, Loop, Finished

(* The status is a verdict on the timeline: RED exactly when it records a  *)
(* breach, otherwise GREY exactly when visibility was degraded, never      *)
(* GREEN after an anomaly, whatever the agent, the operator and crashes do.*)
THEOREM StatusIsRight == Spec => []StatusIsTimelines
  <1>1. TypeOK /\ StatusInv => StatusIsTimelines
    <2> SUFFICES ASSUME TypeOK, StatusInv PROVE StatusIsTimelines
      OBVIOUS
    <2>1. session.violations \in Nat /\ session.anomalies \in Nat
      BY DEF TypeOK, Sessions
    <2> QED
      BY <2>1 DEF StatusInv, StatusOf, StatusIsTimelines
  <1> QED
    BY <1>1, StatusInit, StatusStep, TypeCorrect, PTL DEF Spec
=============================================================================

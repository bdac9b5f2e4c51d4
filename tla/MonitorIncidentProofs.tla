----------------------- MODULE MonitorIncidentProofs -----------------------
(* Proofs about the incidents and the responses of the monitoring loop,    *)
(* for every value of the constants.                                       *)
EXTENDS MonitorProofs

USE HeartbeatStaleAssumption

-----------------------------------------------------------------------------
(* Incidents.  The invariant is a conjunction of what holds of ...         *)

(* ... the numbers: what is flushed was recorded, and the session counts   *)
(* the bundles;                                                            *)
Counting ==
  /\ flushed <= Len(timeline)
  /\ session.incidents = Len(bundles)

(* ... the set of breaches already reported: those of the timeline;        *)
Reporting ==
  /\ \A r \in reported :
       \E i \in 1..Len(timeline) : IsBreach(timeline[i]) /\ timeline[i].rule = r
  /\ \A i \in 1..Len(timeline) :
       IsBreach(timeline[i]) => timeline[i].rule \in reported

(* ... a breach whose bundle is about to be written;                       *)
Triggered ==
  pc = "bundle" =>
    LET ev == timeline[Len(timeline)]
    IN /\ flushed = Len(timeline) /\ IsBreach(ev)
       /\ Len(bundles) < MaxIncidents
       /\ \A j \in 1..Len(bundles) : bundles[j].rule # ev.rule

(* ... and the open incidents, each of which knows its bundle.             *)
OpenOnes ==
  \A p \in pending :
    /\ p.id \in 1..Len(bundles)
    /\ bundles[p.id].trigger = p.trigger /\ bundles[p.id].rule = p.rule

IncidentInv ==
  /\ Counting /\ Reporting /\ Triggered /\ OpenOnes
  /\ OneIncidentPerBreach /\ TriggerDurable

-----------------------------------------------------------------------------
(* What each step does to the session, field by field.                     *)

Kept(t, s) ==
  /\ t.incidents = s.incidents /\ t.responses = s.responses
  /\ t.frozen = s.frozen /\ t.ended = s.ended /\ t.dropped = s.dropped

(* Session::recompute changes the status and nothing else.                 *)
LEMMA RecomputeKeeps ==
  ASSUME NEW s \in Sessions
  PROVE  Kept(Recompute(s), s)
  BY DEF Recompute, StatusOf, Sessions, Kept

(* Session::apply touches the counts and the status, nothing else.         *)
LEMMA ApplyKeeps ==
  ASSUME NEW s \in Sessions, NEW ev
  PROVE  Kept(Apply(s, ev), s)
  <1> DEFINE v == s.violations + (IF Counted(ev, "violation") THEN 1 ELSE 0)
             a == s.anomalies + (IF Counted(ev, "anomaly") THEN 1 ELSE 0)
             c == [s EXCEPT !.violations = v, !.anomalies = a]
  <1>1. v \in Nat /\ a \in Nat
    BY DEF Sessions
  <1>2. Apply(s, ev) = Recompute(c)
    BY DEF Apply
  <1> HIDE DEF v, a
  <1>3. c \in Sessions /\ Kept(c, s)
    BY <1>1 DEF Sessions, Kept
  <1> HIDE DEF c
  <1> QED
    BY <1>2, <1>3, RecomputeKeeps DEF Kept

(* Session::degrade touches the reasons and the status, nothing else.      *)
LEMMA DegradeKeeps ==
  ASSUME NEW s \in Sessions, NEW r \in Reasons
  PROVE  Kept(Degrade(s, r), s)
  <1> DEFINE d == [s EXCEPT !.degraded = s.degraded \cup {r}]
  <1>1. d \in Sessions /\ Kept(d, s)
    BY DEF Sessions, Kept
  <1>2. Degrade(s, r) = Recompute(d)
    BY DEF Degrade
  <1> HIDE DEF d
  <1> QED
    BY <1>1, <1>2, RecomputeKeeps DEF Kept

(* The fields of t are these.                                              *)
Fields(t, incidents, responses, frozen, ended, dropped) ==
  /\ t.incidents = incidents /\ t.responses = responses
  /\ t.frozen = frozen /\ t.ended = ended /\ t.dropped = dropped

(* An update of one field keeps the others.                                *)
LEMMA UpdateKeeps ==
  ASSUME NEW s \in Sessions, NEW f \in BOOLEAN, NEW k \in Nat
  PROVE  /\ Kept([s EXCEPT !.age = 0], s)
         /\ Kept(Older(s), s)
         /\ Fields([s EXCEPT !.dropped = k],
                   s.incidents, s.responses, s.frozen, s.ended, k)
         /\ Fields([s EXCEPT !.incidents = k],
                   k, s.responses, s.frozen, s.ended, s.dropped)
         /\ Fields([s EXCEPT !.responses = k],
                   s.incidents, k, s.frozen, s.ended, s.dropped)
         /\ Fields([s EXCEPT !.frozen = f, !.responses = k],
                   s.incidents, k, f, s.ended, s.dropped)
         /\ Fields([s EXCEPT !.ended = f, !.age = 0],
                   s.incidents, s.responses, s.frozen, f, s.dropped)
  BY DEF Sessions, Older, Kept, Fields

(* The steps that change the session, and what each leaves alone: only a   *)
(* bundle counts as an incident, only enforcement and the operator add a   *)
(* response or change the flag, only a tick sees drops, and only the end   *)
(* of run() ends the session.                                              *)
LEMMA SessionEffects ==
  ASSUME TypeOK
  PROVE  /\ RecordPlain \/ RecordIncident \/ Second => Kept(session', session)
         /\ WriteBundle =>
              /\ session'.incidents = session.incidents + 1
              /\ session'.responses = session.responses
              /\ session'.frozen = session.frozen
              /\ session'.ended = session.ended
              /\ session'.dropped = session.dropped
         /\ EnforceViolation \/ EnforceDegraded =>
              /\ session'.incidents = session.incidents
              /\ session'.responses = session.responses + 1
              /\ session'.ended = session.ended
              /\ session'.dropped = session.dropped
         /\ ControlAct =>
              /\ session'.incidents = session.incidents
              /\ session'.responses >= session.responses
              /\ session'.ended = session.ended
              /\ session'.dropped = session.dropped
         /\ Tick =>
              /\ session'.incidents = session.incidents
              /\ session'.responses = session.responses
              /\ session'.frozen = session.frozen
              /\ session'.ended = session.ended
              /\ session'.dropped =
                   IF SeenDrops > lastDrops THEN SeenDrops ELSE session.dropped
         /\ Shutdown =>
              /\ session'.incidents = session.incidents
              /\ session'.responses = session.responses
              /\ session'.frozen = session.frozen
              /\ session'.ended
              /\ session'.dropped = session.dropped
  <1>a. /\ session \in Sessions /\ session.responses \in Nat
        /\ session.responses + 1 \in Nat /\ session.incidents + 1 \in Nat
        /\ session.frozen \in BOOLEAN
    BY DEF TypeOK, Sessions
  <1>1. RecordPlain \/ RecordIncident \/ Second => Kept(session', session)
    BY <1>a, ApplyKeeps, UpdateKeeps, Zenon
       DEF RecordPlain, RecordIncident, Second
  <1>2. ASSUME WriteBundle
        PROVE  /\ session'.incidents = session.incidents + 1
               /\ session'.responses = session.responses
               /\ session'.frozen = session.frozen
               /\ session'.ended = session.ended
               /\ session'.dropped = session.dropped
    <2>1. Fields(session', session.incidents + 1, session.responses,
                 session.frozen, session.ended, session.dropped)
      BY <1>2, <1>a, UpdateKeeps, Zenon DEF WriteBundle
    <2> QED
      BY <2>1 DEF Fields
  <1>3. ASSUME EnforceViolation \/ EnforceDegraded
        PROVE  /\ session'.incidents = session.incidents
               /\ session'.responses = session.responses + 1
               /\ session'.ended = session.ended
               /\ session'.dropped = session.dropped
    <2>1. CASE EnforceViolation
      <3>1. PICK ok \in Outcomes :
              session' = [session EXCEPT
                !.frozen = session.frozen \/ (ok /\ Response = "freeze"),
                !.responses = session.responses + 1]
        BY <2>1 DEF EnforceViolation
      <3>2. (session.frozen \/ (ok /\ Response = "freeze")) \in BOOLEAN
        OBVIOUS
      <3>3. Fields(session', session.incidents, session.responses + 1,
                   session.frozen \/ (ok /\ Response = "freeze"),
                   session.ended, session.dropped)
        BY <1>a, <3>1, <3>2, UpdateKeeps, Zenon
      <3> QED
        BY <3>3 DEF Fields
    <2>2. CASE EnforceDegraded
      <3>1. Fields(session', session.incidents, session.responses + 1,
                   session.frozen, session.ended, session.dropped)
        BY <2>2, <1>a, UpdateKeeps, Zenon DEF EnforceDegraded
      <3> QED
        BY <3>1 DEF Fields
    <2> QED
      BY <1>3, <2>1, <2>2
  <1>4. ASSUME ControlAct
        PROVE  /\ session'.incidents = session.incidents
               /\ session'.responses >= session.responses
               /\ session'.ended = session.ended
               /\ session'.dropped = session.dropped
    <2>1. PICK ok \in Outcomes :
            session' = [session EXCEPT
              !.frozen = IF ok /\ hand = "freeze" THEN TRUE
                         ELSE IF ok /\ hand = "resume" THEN FALSE
                         ELSE session.frozen,
              !.responses =
                session.responses + (IF hand = "stop" THEN 0 ELSE 1)]
      BY <1>4 DEF ControlAct
    <2> DEFINE f == IF ok /\ hand = "freeze" THEN TRUE
                    ELSE IF ok /\ hand = "resume" THEN FALSE
                    ELSE session.frozen
               k == session.responses + (IF hand = "stop" THEN 0 ELSE 1)
    <2>2. f \in BOOLEAN
      BY <1>a, Zenon
    <2>3. k \in Nat /\ k >= session.responses
      BY <1>a
    <2>4. session' = [session EXCEPT !.frozen = f, !.responses = k]
      BY <2>1
    <2> HIDE DEF f, k
    <2>5. Fields(session', session.incidents, k, f, session.ended,
                 session.dropped)
      BY <1>a, <2>2, <2>3, <2>4, UpdateKeeps, Zenon
    <2> QED
      BY <2>3, <2>5 DEF Fields
  <1>5. ASSUME Tick
        PROVE  /\ session'.incidents = session.incidents
               /\ session'.responses = session.responses
               /\ session'.frozen = session.frozen
               /\ session'.ended = session.ended
               /\ session'.dropped =
                    IF SeenDrops > lastDrops THEN SeenDrops ELSE session.dropped
    <2> DEFINE more == SeenDrops > lastDrops
               beat == [session EXCEPT !.age = 0]
               seen == IF lost THEN Degrade(beat, "sensor") ELSE beat
               told == [seen EXCEPT !.dropped = SeenDrops]
    <2>1. session' = IF more THEN Degrade(told, "drops") ELSE seen
      BY <1>5 DEF Tick
    <2>2. SeenDrops \in Nat
      BY DEF TypeOK, SeenDrops
    <2>3. beat \in Sessions /\ Kept(beat, session)
      BY <1>a, HeartbeatType, UpdateKeeps, Zenon
    <2> HIDE DEF beat
    <2>4. seen \in Sessions /\ Kept(seen, beat)
      BY <2>3, DegradeType, DegradeKeeps DEF Reasons, Kept
    <2> HIDE DEF seen
    <2>5. /\ told \in Sessions
          /\ Fields(told, seen.incidents, seen.responses, seen.frozen,
                    seen.ended, SeenDrops)
      BY <2>2, <2>4, ResponseType, UpdateKeeps, Zenon
    <2> HIDE DEF told
    <2>6. Kept(Degrade(told, "drops"), told)
      BY <2>5, DegradeKeeps DEF Reasons
    <2> QED
      BY <2>1, <2>3, <2>4, <2>5, <2>6 DEF Kept, Fields
  <1>6. ASSUME Shutdown
        PROVE  /\ session'.incidents = session.incidents
               /\ session'.responses = session.responses
               /\ session'.frozen = session.frozen
               /\ session'.ended
               /\ session'.dropped = session.dropped
    <2> DEFINE t == Apply(session, Notice(seq + 1, "monitor.stopped"))
    <2>1. session' = [t EXCEPT !.ended = TRUE, !.age = 0]
      BY <1>6 DEF Shutdown
    <2>2. t \in Sessions /\ Kept(t, session)
      BY <1>a, ApplyType, ApplyKeeps
    <2> HIDE DEF t
    <2>3. Fields(session', t.incidents, t.responses, t.frozen, TRUE,
                 t.dropped)
      BY <2>1, <2>2, UpdateKeeps, Zenon
    <2> QED
      BY <2>2, <2>3 DEF Kept, Fields
  <1> QED
    BY <1>1, <1>2, <1>3, <1>4, <1>5, <1>6

-----------------------------------------------------------------------------
(* Incidents through the steps of the loop.                                *)

(* q is the open incident p after some time and k more events.             *)
SameIncident(q, p, k) ==
  q.id = p.id /\ q.trigger = p.trigger /\ q.rule = p.rule /\ q.after = p.after + k

(* An event is context for every open incident.                            *)
LEMMA WithAfterKeeps ==
  ASSUME NEW ps \in SUBSET Pendings, NEW q \in WithAfter(ps)
  PROVE  \E p \in ps : SameIncident(q, p, 1)
  BY DEF WithAfter, Pendings, SameIncident

(* b is bundle c, as far as the incident it reports is concerned.          *)
SameReport(b, c) == b.trigger = c.trigger /\ b.rule = c.rule

(* Rewriting the bundles of open incidents as final leaves what they       *)
(* report, and leaves every other bundle alone.                            *)
LEMMA FinalisedKeeps ==
  ASSUME bundles \in Seq(Bundles), NEW ps, NEW r, NEW h,
         \A p \in ps : /\ p.id \in 1..Len(bundles)
                       /\ bundles[p.id].trigger = p.trigger
                       /\ bundles[p.id].rule = p.rule,
         NEW i \in 1..Len(bundles)
  PROVE  /\ SameReport(Finalised(ps, r, h)[i], bundles[i])
         /\ (\E p \in ps : p.id = i) =>
              /\ Finalised(ps, r, h)[i].finalized
              /\ Finalised(ps, r, h)[i].responses = r
         /\ (\E p \in ps : p.id = i) \/ Finalised(ps, r, h)[i] = bundles[i]
  <1>1. CASE \E p \in ps : p.id = i
    <2> DEFINE p == CHOOSE q \in ps : q.id = i
    <2>1. p \in ps /\ p.id = i
      BY <1>1
    <2>2. Finalised(ps, r, h)[i] = BundleOf(p, r, h, TRUE)
      BY <1>1 DEF Finalised
    <2> HIDE DEF p
    <2>3. bundles[i].trigger = p.trigger /\ bundles[i].rule = p.rule
      BY <2>1
    <2> QED
      BY <1>1, <2>2, <2>3 DEF BundleOf, SameReport
  <1>2. CASE ~ \E p \in ps : p.id = i
    <2>1. Finalised(ps, r, h)[i] = bundles[i]
      BY <1>2 DEF Finalised
    <2> QED
      BY <1>2, <2>1 DEF SameReport
  <1> QED
    BY <1>1, <1>2

(* Nothing was recorded, filed or reported at startup.                     *)
LEMMA IncidentInit == Init => IncidentInv
  <1> SUFFICES ASSUME Init PROVE IncidentInv
    OBVIOUS
  <1>1. NewSession \in Sessions /\ NewSession.incidents = 0
    BY DEF NewSession, Sessions, Statuses
  <1>2. Degrade(NewSession, "coverage").incidents = 0
    BY <1>1, DegradeKeeps DEF Reasons, Kept
  <1>3. session.incidents = 0 /\ Len(timeline) = 0 /\ Len(bundles) = 0
    BY <1>1, <1>2 DEF Init
  <1>4. flushed = 0 /\ pending = {} /\ reported = {} /\ pc = "record"
    BY DEF Init
  <1> QED
    BY <1>3, <1>4, BoundsAssumption
       DEF IncidentInv, Counting, Reporting, Triggered, OpenOnes,
           OneIncidentPerBreach, TriggerDurable

(* Incidents are kept by a step that records nothing and files nothing: it *)
(* may only rewrite bundles with the same report, close incidents, flush.  *)
LEMMA IncidentFrame ==
  ASSUME TypeOK, IncidentInv, TypeOK',
         UNCHANGED <<timeline, reported>>,
         session'.incidents = session.incidents,
         flushed' \in {flushed, Len(timeline)},
         Len(bundles') = Len(bundles),
         \A i \in 1..Len(bundles) : SameReport(bundles'[i], bundles[i]),
         \A q \in pending' : \E p \in pending : SameIncident(q, p, 0),
         pc \in {"bundle", "crashed"} => pc' \in {"bundle", "crashed"},
         pc' = "bundle" => pc = "bundle"
  PROVE  IncidentInv'
  <1>a. /\ Len(timeline) \in Nat /\ flushed \in Nat /\ flushed <= Len(timeline)
        /\ Len(bundles) \in Nat
        /\ flushed' \in Nat /\ flushed <= flushed' /\ flushed' <= Len(timeline)
    <2>1. /\ timeline \in Seq(Events) /\ bundles \in Seq(Bundles)
          /\ flushed \in Nat
      BY Zenon DEF TypeOK
    <2>2. Len(timeline) \in Nat /\ Len(bundles) \in Nat
      BY <2>1, LenProperties
    <2>3. flushed <= Len(timeline)
      BY DEF IncidentInv, Counting
    <2> QED
      BY <2>1, <2>2, <2>3
  <1>b. \A i \in 1..Len(bundles) : /\ bundles'[i].trigger = bundles[i].trigger
                                   /\ bundles'[i].rule = bundles[i].rule
    BY DEF SameReport
  <1>1. Counting' /\ Reporting'
    BY <1>a DEF IncidentInv, Counting, Reporting
  <1>2. Triggered'
    BY <1>a, <1>b DEF IncidentInv, Triggered
  <1>3. OpenOnes'
    BY <1>b DEF IncidentInv, OpenOnes, SameIncident
  <1>4. OneIncidentPerBreach'
    BY <1>a, <1>b DEF IncidentInv, OneIncidentPerBreach
  <1>5. TriggerDurable'
    <2>1. ASSUME NEW j \in 1..Len(bundles')
          PROVE  /\ bundles'[j].trigger \in 1..flushed'
                 /\ IsBreach(timeline'[bundles'[j].trigger])
                 /\ timeline'[bundles'[j].trigger].rule = bundles'[j].rule
      BY <2>1, <1>a, <1>b DEF IncidentInv, TriggerDurable
    <2>2. ASSUME NEW q \in pending' PROVE q.trigger + q.after = Len(timeline')
      <3>1. PICK p \in pending : SameIncident(q, p, 0)
        BY <2>2
      <3>2. p.after \in Nat /\ p.trigger \in Nat
        BY DEF TypeOK, Pendings
      <3>3. p.trigger + p.after = Len(timeline)
        BY DEF IncidentInv, TriggerDurable
      <3> QED
        BY <3>1, <3>2, <3>3 DEF SameIncident
    <2> QED
      BY <2>1, <2>2 DEF TriggerDurable
  <1> QED
    BY <1>1, <1>2, <1>3, <1>4, <1>5 DEF IncidentInv

(* Incidents are kept by a step that records ev: a breach is either of a   *)
(* kind already reported, or beyond the limit, or about to get a bundle.   *)
LEMMA IncidentRecord ==
  ASSUME TypeOK, IncidentInv, TypeOK', NEW ev \in Events,
         timeline' = Append(timeline, ev),
         reported' = IF IsBreach(ev) THEN reported \cup {ev.rule} ELSE reported,
         session'.incidents = session.incidents,
         flushed' \in {flushed, Len(timeline), Len(timeline) + 1},
         Len(bundles') = Len(bundles),
         \A i \in 1..Len(bundles) : SameReport(bundles'[i], bundles[i]),
         \A q \in pending' : \E p \in pending : SameIncident(q, p, 1),
         pc \notin {"bundle", "crashed"},
         IsBreach(ev) => \/ pc' = "bundle" \/ ev.rule \in reported
                         \/ Len(bundles) >= MaxIncidents,
         pc' = "bundle" => /\ IsBreach(ev) /\ ev.rule \notin reported
                           /\ Len(bundles) < MaxIncidents
                           /\ flushed' = Len(timeline) + 1
  PROVE  IncidentInv'
  <1>t. /\ Len(timeline) \in Nat /\ flushed \in Nat /\ flushed <= Len(timeline)
        /\ Len(bundles) \in Nat /\ timeline \in Seq(Events)
    <2>1. /\ timeline \in Seq(Events) /\ bundles \in Seq(Bundles)
          /\ flushed \in Nat
      BY Zenon DEF TypeOK
    <2> QED
      BY <2>1, LenProperties DEF IncidentInv, Counting
  <1>a. /\ Len(timeline) \in Nat /\ flushed \in Nat /\ flushed <= Len(timeline)
        /\ Len(bundles) \in Nat /\ timeline \in Seq(Events)
        /\ flushed' \in Nat /\ flushed <= flushed'
        /\ flushed' <= Len(timeline) + 1
    BY <1>t
  <1>b. \A i \in 1..Len(bundles) : /\ bundles'[i].trigger = bundles[i].trigger
                                   /\ bundles'[i].rule = bundles[i].rule
    BY DEF SameReport
  <1>c. /\ Len(timeline') = Len(timeline) + 1
        /\ \A i \in 1..Len(timeline) : timeline'[i] = timeline[i]
        /\ timeline'[Len(timeline) + 1] = ev
    BY <1>a, AppendProperties
  <1>d. \A j \in 1..Len(bundles) :
          /\ bundles[j].trigger \in 1..flushed
          /\ bundles[j].trigger \in 1..Len(timeline)
          /\ IsBreach(timeline[bundles[j].trigger])
          /\ timeline[bundles[j].trigger].rule = bundles[j].rule
          /\ bundles[j].rule \in reported
    BY <1>a DEF IncidentInv, TriggerDurable, Reporting
  <1>1. Counting'
    BY <1>a, <1>c DEF IncidentInv, Counting
  <1>2. Reporting'
    <2>1. ASSUME NEW r \in reported'
          PROVE  \E i \in 1..Len(timeline') :
                   IsBreach(timeline'[i]) /\ timeline'[i].rule = r
      BY <1>a, <1>c DEF IncidentInv, Reporting
    <2>2. ASSUME NEW i \in 1..Len(timeline'), IsBreach(timeline'[i])
          PROVE  timeline'[i].rule \in reported'
      BY <2>2, <1>a, <1>c DEF IncidentInv, Reporting
    <2> QED
      BY <2>1, <2>2 DEF Reporting
  <1>3. Triggered'
    BY <1>a, <1>b, <1>c, <1>d DEF Triggered
  <1>4. OpenOnes'
    BY <1>b DEF IncidentInv, OpenOnes, SameIncident
  <1>5. OneIncidentPerBreach'
    <2>1. ASSUME NEW i \in 1..Len(timeline), IsBreach(timeline[i])
          PROVE  \/ Len(bundles) >= MaxIncidents
                 \/ \E j \in 1..Len(bundles) : bundles[j].rule = timeline[i].rule
      BY <2>1 DEF IncidentInv, OneIncidentPerBreach
    <2>2. ASSUME NEW i \in 1..Len(timeline'), IsBreach(timeline'[i])
          PROVE  \/ Len(bundles') >= MaxIncidents
                 \/ i = Len(timeline') /\ pc' \in {"bundle", "crashed"}
                 \/ \E j \in 1..Len(bundles') : bundles'[j].rule = timeline'[i].rule
      <3>1. CASE i \in 1..Len(timeline)
        BY <3>1, <2>1, <2>2, <1>b, <1>c
      <3>2. CASE i = Len(timeline) + 1
        <4>1. CASE ev.rule \in reported
          <5>1. PICK k \in 1..Len(timeline) :
                  IsBreach(timeline[k]) /\ timeline[k].rule = ev.rule
            BY <4>1 DEF IncidentInv, Reporting
          <5> QED
            BY <5>1, <2>1, <3>2, <1>b, <1>c
        <4> QED
          BY <4>1, <3>2, <2>2, <1>c
      <3> QED
        BY <3>1, <3>2, <1>a, <1>c
    <2>3. /\ \A i, j \in 1..Len(bundles') :
               bundles'[i].rule = bundles'[j].rule => i = j
          /\ Len(bundles') <= MaxIncidents
      BY <1>b DEF IncidentInv, OneIncidentPerBreach
    <2> QED
      BY <2>2, <2>3 DEF OneIncidentPerBreach
  <1>6. TriggerDurable'
    <2>1. ASSUME NEW j \in 1..Len(bundles')
          PROVE  /\ bundles'[j].trigger \in 1..flushed'
                 /\ IsBreach(timeline'[bundles'[j].trigger])
                 /\ timeline'[bundles'[j].trigger].rule = bundles'[j].rule
      BY <2>1, <1>a, <1>b, <1>c, <1>d
    <2>2. ASSUME NEW q \in pending' PROVE q.trigger + q.after = Len(timeline')
      <3>1. PICK p \in pending : SameIncident(q, p, 1)
        BY <2>2
      <3>2. p.after \in Nat /\ p.trigger \in Nat
        BY DEF TypeOK, Pendings
      <3>3. p.trigger + p.after = Len(timeline)
        BY DEF IncidentInv, TriggerDurable
      <3> QED
        BY <3>1, <3>2, <3>3, <1>c DEF SameIncident
    <2> QED
      BY <2>1, <2>2 DEF TriggerDurable
  <1> QED
    BY <1>1, <1>2, <1>3, <1>4, <1>5, <1>6 DEF IncidentInv

(* Every step keeps the incident invariant.                                *)
LEMMA IncidentStep ==
  TypeOK /\ NoGapInv /\ IncidentInv /\ TypeOK' /\ [Next]_vars => IncidentInv'
  <1> SUFFICES ASSUME TypeOK, NoGapInv, IncidentInv, TypeOK', [Next]_vars
               PROVE  IncidentInv'
    OBVIOUS
  <1> USE DEF sensorVars, agentVars, dashVars, storeVars, onceVars, loopVars,
              incidentVars
  <1>a. /\ timeline \in Seq(Events) /\ out \in Seq(Events)
        /\ bundles \in Seq(Bundles) /\ pending \in SUBSET Pendings
        /\ Len(bundles) \in Nat /\ Len(timeline) \in Nat
        /\ session.incidents = Len(bundles)
    <2>1. /\ timeline \in Seq(Events) /\ out \in Seq(Events)
          /\ bundles \in Seq(Bundles) /\ pending \in SUBSET Pendings
      BY Zenon DEF TypeOK
    <2> QED
      BY <2>1, LenProperties DEF IncidentInv, Counting
  <1>b. ASSUME UNCHANGED bundles
        PROVE  /\ Len(bundles') = Len(bundles)
               /\ \A i \in 1..Len(bundles) : SameReport(bundles'[i], bundles[i])
    BY <1>b DEF SameReport
  <1>p. \A p \in pending : SameIncident(p, p, 0)
    BY <1>a DEF SameIncident, Pendings
  <1>h. ASSUME out # <<>> PROVE Head(out) \in Events
    BY <1>h, <1>a, HeadTailProperties
  <1>w. \A q \in WithAfter(pending) : \E p \in pending : SameIncident(q, p, 1)
    BY <1>a, WithAfterKeeps
  \* What neither records nor files.
  <1>1. ASSUME UNCHANGED <<timeline, reported, bundles, pending>>,
               session'.incidents = session.incidents,
               flushed' \in {flushed, Len(timeline)},
               pc \in {"bundle", "crashed"} => pc' \in {"bundle", "crashed"},
               pc' = "bundle" => pc = "bundle"
        PROVE  IncidentInv'
    BY <1>1, <1>b, <1>p, IncidentFrame
  <1>2. CASE RecordPlain
    <2>1. /\ Head(out) \in Events /\ timeline' = Append(timeline, Head(out))
          /\ reported' = IF IsBreach(Head(out))
                         THEN reported \cup {Head(out).rule} ELSE reported
          /\ flushed' \in {flushed, Len(timeline)} /\ UNCHANGED <<bundles, pc>>
          /\ pending' = WithAfter(pending) /\ pc = "record"
      BY <1>2, <1>h DEF RecordPlain
    <2>2. session'.incidents = session.incidents
      BY <1>2, SessionEffects DEF Kept
    <2>3. IsBreach(Head(out)) => \/ Head(out).rule \in reported
                                 \/ Len(bundles) >= MaxIncidents
      BY <1>2, <1>a, BoundsAssumption DEF RecordPlain, NeedsIncident
    <2> QED
      BY <2>1, <2>2, <2>3, <1>b, <1>w, IncidentRecord
  <1>3. CASE RecordIncident
    <2>1. /\ Head(out) \in Events /\ timeline' = Append(timeline, Head(out))
          /\ IsBreach(Head(out)) /\ Head(out).rule \notin reported
          /\ reported' = reported \cup {Head(out).rule}
          /\ flushed' = Len(timeline) + 1 /\ UNCHANGED bundles
          /\ pending' = WithAfter(pending) /\ pc = "record" /\ pc' = "bundle"
      BY <1>3, <1>h DEF RecordIncident, NeedsIncident
    <2>2. session'.incidents = session.incidents
      BY <1>3, SessionEffects DEF Kept
    <2>3. Len(bundles) < MaxIncidents
      BY <1>3, <1>a DEF RecordIncident, NeedsIncident
    <2> QED
      BY <2>1, <2>2, <2>3, <1>b, <1>w, IncidentRecord
  <1>4. CASE Shutdown
    <2> DEFINE ev == Notice(seq + 1, "monitor.stopped")
    <2>1. ev \in Events /\ ~IsBreach(ev)
      <3>1. seq + 1 \in Nat
        BY DEF TypeOK
      <3> QED
        BY <3>1, NoticeType DEF NoticeRules, Notice, IsBreach
    <2>2. /\ timeline' = Append(timeline, ev) /\ UNCHANGED reported
          /\ bundles' = Finalised(WithAfter(pending), session.responses,
                                  Len(timeline) + 1)
          /\ flushed' \in {flushed, Len(timeline)} /\ pending' = {}
          /\ pc = "shutdown" /\ pc' = "endflush"
      BY <1>4 DEF Shutdown
    <2> HIDE DEF ev
    <2>3. session'.incidents = session.incidents
      BY <1>4, SessionEffects
    <2>4. Len(bundles') = Len(bundles)
      <3>1. WithAfter(pending) \in SUBSET Pendings /\ Len(timeline) + 1 \in Nat
        BY <1>a, WithAfterType
      <3>2. session.responses \in Nat
        BY DEF TypeOK, Sessions
      <3> QED
        BY <3>1, <3>2, <2>2, <1>a, FinalisedType
    <2>5. \A q \in WithAfter(pending) :
            /\ q.id \in 1..Len(bundles) /\ bundles[q.id].trigger = q.trigger
            /\ bundles[q.id].rule = q.rule
      BY <1>w DEF SameIncident, IncidentInv, OpenOnes
    <2>6. \A i \in 1..Len(bundles) : SameReport(bundles'[i], bundles[i])
      <3> DEFINE ps == WithAfter(pending)
                 h == Len(timeline) + 1
                 k == session.responses
      <3>1. /\ bundles' = Finalised(ps, k, h)
            /\ \A q \in ps :
                 /\ q.id \in 1..Len(bundles) /\ bundles[q.id].trigger = q.trigger
                 /\ bundles[q.id].rule = q.rule
        BY <2>2, <2>5
      <3> HIDE DEF ps, h, k
      <3>2. ASSUME NEW i \in 1..Len(bundles)
            PROVE  SameReport(Finalised(ps, k, h)[i], bundles[i])
        BY <3>1, <1>a, FinalisedKeeps
      <3> QED
        BY <3>1, <3>2
    <2> QED
      BY <2>1, <2>2, <2>3, <2>4, <2>6, IncidentRecord
  <1>5. CASE TickFinalise
    <2> DEFINE due == {p \in pending : p.left = 0}
    <2>1. /\ bundles' = Finalised(due, session.responses, Len(timeline))
          /\ pending' = pending \ due
          /\ UNCHANGED <<timeline, flushed, reported, session>>
          /\ pc = "finalise" /\ pc' = "flush"
      BY <1>5 DEF TickFinalise
    <2>2. due \in SUBSET Pendings /\ due \subseteq pending
      BY <1>a
    <2> HIDE DEF due
    <2>3. Len(bundles') = Len(bundles)
      <3>1. session.responses \in Nat
        BY DEF TypeOK, Sessions
      <3> QED
        BY <3>1, <2>1, <2>2, <1>a, FinalisedType
    <2>4. \A q \in due :
            /\ q.id \in 1..Len(bundles) /\ bundles[q.id].trigger = q.trigger
            /\ bundles[q.id].rule = q.rule
      BY <2>2 DEF IncidentInv, OpenOnes
    <2>5. \A i \in 1..Len(bundles) : SameReport(bundles'[i], bundles[i])
      BY <2>1, <2>4, <1>a, FinalisedKeeps
    <2> QED
      BY <2>1, <2>3, <2>5, <1>p, IncidentFrame
  <1>6. CASE Second
    <2>1. \A q \in pending' : \E p \in pending : SameIncident(q, p, 0)
      <3>1. \A p \in Pendings :
              SameIncident([p EXCEPT !.left = IF p.left = 0 THEN 0 ELSE p.left - 1],
                           p, 0)
        BY DEF Pendings, SameIncident
      <3> QED
        BY <1>6, <1>a, <3>1 DEF Second
    <2>2. session'.incidents = session.incidents
      BY <1>6, SessionEffects DEF Kept
    <2> QED
      BY <1>6, <2>1, <2>2, <1>b, IncidentFrame DEF Second
  <1>7. CASE WriteBundle
    <2> DEFINE n == Len(timeline)
               ev == timeline[n]
               p == NewPending(ev)
               b == BundleOf(p, session.responses, n, FALSE)
    <2>1. /\ pc = "bundle" /\ pc' = "record" /\ UNCHANGED <<timeline, flushed, reported>>
          /\ bundles' = Append(bundles, b) /\ pending' = pending \cup {p}
      BY <1>7 DEF WriteBundle
    <2>2. /\ flushed = n /\ IsBreach(ev) /\ Len(bundles) < MaxIncidents
          /\ \A j \in 1..Len(bundles) : bundles[j].rule # ev.rule
      BY <2>1 DEF IncidentInv, Triggered
    <2>3. n \in 1..n /\ ev \in Events
      <3>1. timeline # <<>>
        BY <2>1 DEF TypeOK
      <3> QED
        BY <3>1, <1>a, EmptySeq, ElementOfSeq
    <2>4. ev.seq = n
      BY <2>3 DEF NoGapInv, NoGap
    <2>5. /\ p.id = Len(bundles) + 1 /\ p.trigger = n /\ p.rule = ev.rule
          /\ p.after = 0 /\ b.trigger = n /\ b.rule = ev.rule
      BY <2>4 DEF NewPending, BundleOf
    <2>6. b \in Bundles
      <3>1. session.responses \in Nat
        BY DEF TypeOK, Sessions
      <3> QED
        BY <3>1, <1>a, <2>3, <2>4 DEF BundleOf, NewPending, Bundles, Events
    <2> HIDE DEF p, b, ev
    <2>7. /\ Len(bundles') = Len(bundles) + 1
          /\ \A j \in 1..Len(bundles) : bundles'[j] = bundles[j]
          /\ bundles'[Len(bundles) + 1] = b
      BY <2>1, <2>6, <1>a, AppendProperties
    <2>8. Counting'
      <3>1. session'.incidents = session.incidents + 1
        BY <1>7, SessionEffects
      <3> QED
        BY <3>1, <2>1, <2>7, <1>a DEF IncidentInv, Counting
    <2>9. Reporting' /\ Triggered'
      BY <2>1 DEF IncidentInv, Reporting, Triggered
    <2>10. OpenOnes'
      <3>1. ASSUME NEW q \in pending
            PROVE  /\ q.id \in 1..Len(bundles') /\ bundles'[q.id].trigger = q.trigger
                   /\ bundles'[q.id].rule = q.rule
        BY <1>a, <2>7 DEF IncidentInv, OpenOnes
      <3>2. /\ p.id \in 1..Len(bundles') /\ bundles'[p.id].trigger = p.trigger
            /\ bundles'[p.id].rule = p.rule
        BY <1>a, <2>5, <2>7
      <3> QED
        BY <2>1, <3>1, <3>2 DEF OpenOnes
    <2>11. OneIncidentPerBreach'
      <3>1. ASSUME NEW i \in 1..Len(timeline), IsBreach(timeline[i])
            PROVE  \/ Len(bundles') >= MaxIncidents
                   \/ \E j \in 1..Len(bundles') : bundles'[j].rule = timeline[i].rule
        <4>1. CASE i = n
          BY <4>1, <1>a, <2>5, <2>7 DEF ev
        <4>2. CASE i # n /\ \E j \in 1..Len(bundles) : bundles[j].rule = timeline[i].rule
          BY <4>2, <1>a, <2>7
        <4> QED
          <5>1. ~(Len(bundles) >= MaxIncidents)
            BY <2>2, <1>a, BoundsAssumption
          <5> QED
            BY <3>1, <4>1, <4>2, <5>1 DEF IncidentInv, OneIncidentPerBreach
      <3>2. ASSUME NEW i \in 1..Len(bundles'), NEW j \in 1..Len(bundles'),
                   bundles'[i].rule = bundles'[j].rule
            PROVE  i = j
        <4>1. \A k, l \in 1..Len(bundles) :
                bundles[k].rule = bundles[l].rule => k = l
          BY DEF IncidentInv, OneIncidentPerBreach
        <4>2. \A k \in 1..Len(bundles) : bundles[k].rule # b.rule
          BY <2>2, <2>5
        <4>3. \A k \in 1..Len(bundles') :
                k \in 1..Len(bundles) \/ k = Len(bundles) + 1
          BY <2>7, <1>a
        <4> QED
          BY <3>2, <4>1, <4>2, <4>3, <2>7
      <3>3. Len(bundles') <= MaxIncidents
        BY <1>a, <2>2, <2>7, BoundsAssumption
      <3> QED
        BY <2>1, <3>1, <3>2, <3>3 DEF OneIncidentPerBreach
    <2>12. TriggerDurable'
      <3>1. ASSUME NEW j \in 1..Len(bundles')
            PROVE  /\ bundles'[j].trigger \in 1..flushed
                   /\ IsBreach(timeline[bundles'[j].trigger])
                   /\ timeline[bundles'[j].trigger].rule = bundles'[j].rule
        <4>1. CASE j \in 1..Len(bundles)
          BY <4>1, <2>7 DEF IncidentInv, TriggerDurable
        <4>2. CASE j = Len(bundles) + 1
          BY <4>2, <2>2, <2>3, <2>5, <2>7 DEF ev
        <4> QED
          BY <4>1, <4>2, <2>7, <1>a
      <3>2. ASSUME NEW q \in pending' PROVE q.trigger + q.after = Len(timeline)
        BY <3>2, <1>a, <2>1, <2>5 DEF IncidentInv, TriggerDurable
      <3> QED
        BY <2>1, <3>1, <3>2 DEF TriggerDurable
    <2> QED
      BY <2>8, <2>9, <2>10, <2>11, <2>12 DEF IncidentInv
  <1>8. CASE EnforceViolation \/ EnforceDegraded \/ ControlAct \/ Tick
    <2>1. session'.incidents = session.incidents
      BY <1>8, SessionEffects
    <2> QED
      BY <1>8, <2>1, <1>1 DEF EnforceViolation, EnforceDegraded, ControlAct, Tick
  <1>9. CASE RecordDone \/ CheckStop \/ PollOne \/ PollDone \/ ControlRead
             \/ NoTick \/ CheckAlive \/ DrainOne \/ DrainDone
    BY <1>9, <1>1 DEF RecordDone, CheckStop, PollOne, ReadRing, PollDone,
       ControlRead, NoTick, CheckAlive, DrainOne, DrainDone
  <1>10. CASE TickFlush \/ TickSave \/ EndFlush \/ EndSave \/ Crash
    BY <1>10, <1>1 DEF TickFlush, TickSave, EndFlush, EndSave, Flush,
       SaveSession, Crash
  <1>11. ASSUME NEW o \in Observations, Emit(o) PROVE IncidentInv'
    BY <1>11, <1>1 DEF Emit
  <1>12. ASSUME NEW p \in Procs, ProcessExits(p) PROVE IncidentInv'
    BY <1>12, <1>1 DEF ProcessExits
  <1>13. ASSUME NEW a \in Actions, Request(a) PROVE IncidentInv'
    BY <1>13, <1>1 DEF Request
  <1>14. CASE SensorStops \/ Signal \/ UNCHANGED vars
    BY <1>14, <1>1 DEF SensorStops, Signal, vars
  <1> QED
    BY <1>2, <1>3, <1>4, <1>5, <1>6, <1>7, <1>8, <1>9, <1>10, <1>11, <1>12,
       <1>13, <1>14 DEF Next, Loop, Finished

(* The incident invariant holds of every state of the loop.                *)
LEMMA IncidentAlways == Spec => []IncidentInv
  <1> QED
    BY IncidentInit, IncidentStep, NoGapInit, NoGapStep, TypeCorrect, PTL
       DEF Spec

(* One bundle per distinct breach, up to the limit, for every number of    *)
(* breaches, every limit and every order of the loop's steps: no breach in *)
(* the timeline goes without one unless the monitor died right after it.   *)
THEOREM IncidentsAreOnePerBreach == Spec => []OneIncidentPerBreach
  <1>1. IncidentInv => OneIncidentPerBreach
    BY DEF IncidentInv
  <1> QED
    BY <1>1, IncidentAlways, PTL

(* A bundle on disk is supported by the timeline on disk: its trigger has  *)
(* been flushed, is a breach, and is of the bundle's kind, crashes         *)
(* included; an open incident has seen every event since its trigger.      *)
THEOREM TriggersAreDurable == Spec => []TriggerDurable
  <1>1. IncidentInv => TriggerDurable
    BY DEF IncidentInv
  <1> QED
    BY <1>1, IncidentAlways, PTL

-----------------------------------------------------------------------------
(* Responses.  What is owed can change only while events are recorded, or  *)
(* when a tick sees more drops; the tick then leaves a notice to record,   *)
(* and with it in out_events the loop goes back to enforcement before it   *)
(* can end.                                                                *)
EnforceInv ==
  /\ pc \notin {"record", "bundle", "enforce", "crashed"} => ~MustRespond
  /\ pc \in {"poll", "control", "act", "tick"} \/ Ending => ~MustFailClosed
  /\ pc \in {"finalise", "flush", "save", "alive", "drain"} =>
       ~MustFailClosed \/ out # <<>>

(* A tick, the clock and the end of run() count no violation.              *)
LEMMA CountEffects ==
  ASSUME TypeOK, Tick \/ Second \/ Shutdown
  PROVE  session'.violations = session.violations
  <1>a. session \in Sessions
    BY DEF TypeOK
  <1>1. CASE Tick
    <2> DEFINE more == SeenDrops > lastDrops
               beat == [session EXCEPT !.age = 0]
               seen == IF lost THEN Degrade(beat, "sensor") ELSE beat
               told == [seen EXCEPT !.dropped = SeenDrops]
    <2>1. session' = IF more THEN Degrade(told, "drops") ELSE seen
      BY <1>1 DEF Tick
    <2>2. SeenDrops \in Nat
      BY DEF TypeOK, SeenDrops
    <2>3. beat \in Sessions /\ SameCounts(beat, session)
      BY <1>a, HeartbeatType, OtherFields, Zenon
    <2> HIDE DEF beat
    <2>4. seen \in Sessions /\ seen.violations = beat.violations
      BY <2>3, DegradeType, DegradeAgrees DEF Reasons
    <2> HIDE DEF seen
    <2>5. told \in Sessions /\ SameCounts(told, seen)
      BY <2>2, <2>4, ResponseType, OtherFields, Zenon
    <2> HIDE DEF told
    <2>6. Degrade(told, "drops").violations = told.violations
      BY <2>5, DegradeAgrees DEF Reasons
    <2> QED
      BY <2>1, <2>3, <2>4, <2>5, <2>6 DEF SameCounts
  <1>2. CASE Second
    <2>1. SameCounts(session', session)
      BY <1>2, <1>a, OtherFields, Zenon DEF Second
    <2> QED
      BY <2>1 DEF SameCounts
  <1>3. CASE Shutdown
    <2> DEFINE ev == Notice(seq + 1, "monitor.stopped")
               t == Apply(session, ev)
    <2>1. session' = [t EXCEPT !.ended = TRUE, !.age = 0]
      BY <1>3 DEF Shutdown
    <2>2. ~Counted(ev, "violation")
      BY DEF Notice, Counted
    <2> HIDE DEF ev
    <2>3. /\ t \in Sessions /\ session.violations \in Nat
          /\ t.violations =
               session.violations + (IF Counted(ev, "violation") THEN 1 ELSE 0)
      <3>1. session.violations \in Nat
        BY <1>a DEF Sessions
      <3> QED
        BY <3>1, <1>a, ApplyType, ApplyAgrees
    <2>4. t.violations = session.violations
      BY <2>2, <2>3
    <2> HIDE DEF t
    <2>5. SameCounts(session', t)
      BY <2>1, <2>3, OtherFields, Zenon
    <2> QED
      BY <2>4, <2>5 DEF SameCounts
  <1> QED
    BY <1>1, <1>2, <1>3

(* Nothing is owed at startup.                                             *)
LEMMA EnforceInit == Init => EnforceInv
  BY DEF Init, EnforceInv, Ending

(* No step leaves a response owed where the loop would read on or end.     *)
LEMMA EnforceStep == TypeOK /\ EnforceInv /\ [Next]_vars => EnforceInv'
  <1> SUFFICES ASSUME TypeOK, EnforceInv, [Next]_vars PROVE EnforceInv'
    OBVIOUS
  <1> USE DEF sensorVars, agentVars, dashVars, storeVars, onceVars, loopVars,
              incidentVars
  <1>a. out \in Seq(Events) /\ session.dropped \in Nat /\ lastDrops \in Nat
    BY DEF TypeOK, Sessions
  \* What goes back to the top of the loop, or ends it by a crash.
  <1>1. ASSUME pc' \in {"record", "bundle", "enforce", "crashed"}
        PROVE  EnforceInv'
    BY <1>1 DEF EnforceInv, Ending
  \* What changes neither the counts nor what has been done.
  <1>2. ASSUME UNCHANGED <<responded, respondedDegraded>>,
               session'.violations = session.violations,
               session'.dropped = session.dropped
        PROVE  (MustRespond <=> MustRespond') /\ (MustFailClosed <=> MustFailClosed')
    BY <1>2 DEF MustRespond, MustFailClosed
  <1>3. CASE RecordPlain \/ RecordIncident \/ WriteBundle \/ RecordDone
             \/ EnforceViolation \/ EnforceDegraded \/ ControlAct \/ NoTick
             \/ Crash
    BY <1>3, <1>1 DEF RecordPlain, RecordIncident, WriteBundle, RecordDone,
       EnforceViolation, EnforceDegraded, ControlAct, NoTick, Crash
  <1>4. CASE CheckStop \/ PollDone \/ ControlRead \/ TickFinalise \/ TickFlush
             \/ TickSave \/ CheckAlive \/ EndFlush \/ EndSave
    <2>1. (MustRespond <=> MustRespond') /\ (MustFailClosed <=> MustFailClosed')
      BY <1>4, <1>2 DEF CheckStop, PollDone, ControlRead, TickFinalise,
         TickFlush, TickSave, Flush, SaveSession, CheckAlive, EndFlush, EndSave
    <2>2. CASE CheckStop
      BY <2>1, <2>2 DEF CheckStop, EnforceInv, Ending
    <2>3. CASE PollDone \/ ControlRead
      BY <2>1, <2>3 DEF PollDone, ControlRead, EnforceInv, Ending
    <2>4. CASE TickFinalise \/ TickFlush \/ TickSave \/ CheckAlive
      <3>1. /\ UNCHANGED out
            /\ pc \in {"finalise", "flush", "save", "alive"}
            /\ pc' \in {"flush", "save", "alive", "record", "drain"}
        BY <2>4 DEF TickFinalise, TickFlush, TickSave, Flush, SaveSession,
           CheckAlive
      <3> QED
        BY <2>1, <3>1 DEF EnforceInv, Ending
    <2>5. CASE EndFlush \/ EndSave
      BY <2>1, <2>5 DEF EndFlush, EndSave, Flush, SaveSession, EnforceInv, Ending
    <2> QED
      BY <1>4, <2>2, <2>3, <2>4, <2>5
  <1>5. CASE PollOne \/ DrainOne
    <2>1. (MustRespond <=> MustRespond') /\ (MustFailClosed <=> MustFailClosed')
      BY <1>5, <1>2 DEF PollOne, DrainOne, ReadRing
    <2>2. out # <<>> => out' # <<>>
      <3>1. ring # <<>> /\ out' = out \o Process(Head(ring), seq)
        BY <1>5 DEF PollOne, DrainOne, ReadRing
      <3>2. Head(ring) \in Observations
        BY <3>1, HeadTailProperties DEF TypeOK
      <3>3. Process(Head(ring), seq) \in Seq(Events)
        BY <3>2, ProcessType DEF TypeOK
      <3> HIDE DEF Process
      <3> QED
        BY <1>a, <3>1, <3>3, ConcatProperties, EmptySeq, LenProperties
    <2> QED
      BY <1>5, <2>1, <2>2 DEF PollOne, DrainOne, ReadRing, EnforceInv, Ending
  <1>6. CASE Tick
    <2> DEFINE gone  == lost /\ "sensor" \notin session.degraded
               more  == SeenDrops > lastDrops
               notes == (IF gone THEN <<"monitor.sensor_lost">> ELSE <<>>) \o
                        (IF more THEN <<"monitor.events_dropped">> ELSE <<>>)
               said  == [i \in 1..Len(notes) |-> Notice(seq + i, notes[i])]
    <2>1. /\ session'.violations = session.violations
          /\ session'.dropped = IF more THEN SeenDrops ELSE session.dropped
      BY <1>6, CountEffects, SessionEffects
    <2>2. /\ out' = out \o said /\ UNCHANGED <<responded, respondedDegraded>>
          /\ pc = "tick" /\ pc' = "finalise"
      BY <1>6 DEF Tick
    <2>3. MustRespond <=> MustRespond'
      BY <2>1, <2>2 DEF MustRespond
    <2>4. CASE ~more
      BY <2>1, <2>2, <2>3, <2>4, <1>2 DEF EnforceInv, Ending
    <2>5. CASE more
      <3>1. Len(notes) > 0 /\ Len(notes) \in Nat
        BY <2>5
      <3> HIDE DEF notes
      <3>2. Len(said) = Len(notes) /\ said \in Seq({Notice(seq + i, notes[i]) : i \in 1..Len(notes)})
        BY <3>1
      <3> HIDE DEF said
      <3>3. out' # <<>>
        BY <1>a, <2>2, <3>1, <3>2
      <3> QED
        BY <2>2, <2>3, <3>3 DEF EnforceInv, Ending
    <2> QED
      BY <2>4, <2>5
  <1>7. CASE DrainDone
    <2>1. (MustRespond <=> MustRespond') /\ (MustFailClosed <=> MustFailClosed')
      BY <1>7, <1>2 DEF DrainDone
    <2>2. CASE out = <<>>
      BY <1>7, <2>1, <2>2 DEF DrainDone, EnforceInv, Ending
    <2>3. CASE out # <<>>
      <3>1. quiet' = 0 /\ ~(quiet' >= QuietTicks)
        BY <1>7, <2>3, BoundsAssumption DEF DrainDone
      <3> QED
        BY <1>7, <1>1, <3>1 DEF DrainDone
    <2> QED
      BY <2>2, <2>3
  <1>8. CASE Shutdown
    <2>1. session'.violations = session.violations /\ session'.dropped = session.dropped
      BY <1>8, CountEffects, SessionEffects
    <2> QED
      BY <1>8, <2>1, <1>2 DEF Shutdown, EnforceInv, Ending
  <1>9. CASE Second
    <2>1. session'.violations = session.violations /\ session'.dropped = session.dropped
      BY <1>9, CountEffects, SessionEffects DEF Kept
    <2> QED
      BY <1>9, <2>1, <1>2 DEF Second, EnforceInv, Ending
  \* The agent, the operator and the sensor.
  <1>10. ASSUME UNCHANGED <<pc, out, session, responded, respondedDegraded>>
         PROVE  EnforceInv'
    BY <1>10, <1>2 DEF EnforceInv, Ending
  <1>11. ASSUME NEW o \in Observations, Emit(o) PROVE EnforceInv'
    BY <1>11, <1>10 DEF Emit
  <1>12. ASSUME NEW p \in Procs, ProcessExits(p) PROVE EnforceInv'
    BY <1>12, <1>10 DEF ProcessExits
  <1>13. ASSUME NEW a \in Actions, Request(a) PROVE EnforceInv'
    BY <1>13, <1>10 DEF Request
  <1>14. CASE SensorStops \/ Signal \/ UNCHANGED vars
    BY <1>14, <1>10 DEF SensorStops, Signal, vars
  <1> QED
    BY <1>3, <1>4, <1>5, <1>6, <1>7, <1>8, <1>9, <1>11, <1>12, <1>13, <1>14
       DEF Next, Loop, Finished

(* Enforcement comes first, whatever the policy, the sensor and the        *)
(* operator do: while a response is owed the loop neither reads another    *)
(* observation, nor serves an operator, nor ends.                          *)
THEOREM EnforcementComesFirst == Spec => []EnforcedFirst
  <1>1. EnforceInv => EnforcedFirst
    BY DEF EnforceInv, EnforcedFirst, Ending
  <1> QED
    BY <1>1, EnforceInit, EnforceStep, TypeCorrect, PTL DEF Spec

-----------------------------------------------------------------------------
(* session.frozen.                                                         *)

(* A longer queue or timeline keeps what it holds.                         *)
LEMMA StillIn ==
  ASSUME NEW a \in Seq(Events), NEW b \in Seq(Events), NEW r,
         \E i \in 1..Len(a) : a[i].rule = r
  PROVE  \E i \in 1..Len(a \o b) : (a \o b)[i].rule = r
  <1>1. PICK i \in 1..Len(a) : a[i].rule = r
    OBVIOUS
  <1>2. i \in 1..Len(a \o b) /\ (a \o b)[i] = a[i]
    BY ConcatProperties, LenProperties
  <1> QED
    BY <1>1, <1>2

(* A resume that was carried out stays recorded.                           *)
LEMMA ResumedStays ==
  ASSUME TypeOK, [Next]_vars, Resumed
  PROVE  Resumed'
  <1> USE DEF sensorVars, agentVars, dashVars, storeVars, onceVars, loopVars,
              incidentVars
  <1> DEFINE r == "operator.resume"
             In(s) == \E i \in 1..Len(s) : s[i].rule = r
  <1>a. timeline \in Seq(Events) /\ out \in Seq(Events) /\ seq \in Nat
        /\ ring \in Seq(Observations)
    BY DEF TypeOK
  <1>b. (In(timeline) \/ In(out)) /\ (In(timeline') \/ In(out') => Resumed')
    BY DEF Resumed
  <1>c. \A s, u \in Seq(Events) : In(s) => In(s \o u)
    BY StillIn
  <1> HIDE DEF In
  <1>1. ASSUME UNCHANGED <<timeline, out>> PROVE Resumed'
    BY <1>1, <1>b
  \* Steps that queue events.
  <1>2. ASSUME NEW u \in Seq(Events), UNCHANGED timeline, out' = out \o u
        PROVE  Resumed'
    BY <1>2, <1>a, <1>b, <1>c
  \* Steps that record the first waiting event.
  <1>3. ASSUME out # <<>>, timeline' = Append(timeline, Head(out)), out' = Tail(out)
        PROVE  Resumed'
    <2>1. Head(out) \in Events
      BY <1>3, <1>a, HeadTailProperties
    <2>2. /\ Append(timeline, Head(out)) = timeline \o <<Head(out)>>
          /\ <<Head(out)>> \in Seq(Events)
      BY <2>1, <1>a, AppendIsConcat
    <2>3. In(timeline) => In(timeline')
      BY <2>2, <1>3, <1>a, <1>c
    <2>4. ASSUME In(out) PROVE In(timeline') \/ In(out')
      <3>1. PICK i \in 1..Len(out) : out[i].rule = r
        BY <2>4 DEF In
      <3>2. CASE i = 1
        <4>1. Len(timeline') = Len(timeline) + 1 /\ timeline'[Len(timeline) + 1] = out[1]
          BY <1>3, <1>a
        <4>2. Len(timeline) + 1 \in 1..Len(timeline')
          BY <4>1, <1>a, LenProperties
        <4> QED
          BY <3>1, <3>2, <4>1, <4>2 DEF In
      <3>3. CASE i # 1
        <4>1. i - 1 \in 1..Len(out') /\ out'[i - 1] = out[i]
          BY <1>3, <1>a, <3>3, HeadTailProperties
        <4> QED
          BY <3>1, <4>1 DEF In
      <3> QED
        BY <3>2, <3>3
    <2> QED
      BY <1>b, <2>3, <2>4
  <1>4. ASSUME NEW n \in NoticeRules, Announce(n), UNCHANGED timeline PROVE Resumed'
    <2> DEFINE ev == Notice(seq + 1, n)
    <2>1. ev \in Events
      BY <1>a, NoticeType
    <2>2. out' = Append(out, ev)
      BY <1>4 DEF Announce
    <2> HIDE DEF ev
    <2>3. out' = out \o <<ev>> /\ <<ev>> \in Seq(Events)
      BY <1>a, <2>1, <2>2, AppendIsConcat
    <2> QED
      BY <1>2, <1>4, <2>3
  <1>5. ASSUME ReadRing PROVE Resumed'
    <2>1. Head(ring) \in Observations
      BY <1>5, <1>a, HeadTailProperties DEF ReadRing
    <2> QED
      BY <1>2, <1>5, <1>a, <2>1, ProcessType DEF ReadRing
  <1>6. CASE RecordPlain \/ RecordIncident
    BY <1>6, <1>3 DEF RecordPlain, RecordIncident
  <1>7. CASE EnforceViolation
    BY <1>7, <1>4 DEF EnforceViolation, NoticeRules
  <1>8. CASE EnforceDegraded
    BY <1>8, <1>4 DEF EnforceDegraded, NoticeRules
  <1>9. CASE ControlAct
    <2>1. hand \in Actions
      BY <1>9 DEF ControlAct, TypeOK
    <2>2. OperatorRule[hand] \in NoticeRules
      BY <2>1 DEF OperatorRule, Actions, NoticeRules
    <2> QED
      BY <1>9, <1>4, <2>2 DEF ControlAct
  <1>10. CASE PollOne \/ DrainOne
    BY <1>10, <1>5 DEF PollOne, DrainOne
  <1>11. CASE Tick
    <2>1. PICK notes \in Seq(NoticeRules) :
            out' = out \o [i \in 1..Len(notes) |-> Notice(seq + i, notes[i])]
      <3> DEFINE gone == lost /\ "sensor" \notin session.degraded
                 more == SeenDrops > lastDrops
                 g == IF gone THEN <<"monitor.sensor_lost">> ELSE <<>>
                 m == IF more THEN <<"monitor.events_dropped">> ELSE <<>>
      <3>1. g \in Seq(NoticeRules) /\ m \in Seq(NoticeRules)
        <4>1. /\ <<"monitor.sensor_lost">> \in Seq(NoticeRules)
              /\ <<"monitor.events_dropped">> \in Seq(NoticeRules)
          BY DEF NoticeRules
        <4>2. << >> \in Seq(NoticeRules)
          OBVIOUS
        <4> QED
          BY <4>1, <4>2, Zenon
      <3>2. out' = out \o [i \in 1..Len(g \o m) |-> Notice(seq + i, (g \o m)[i])]
        BY <1>11 DEF Tick
      <3> HIDE DEF g, m
      <3>3. g \o m \in Seq(NoticeRules)
        BY <3>1, ConcatProperties
      <3> QED
        BY <3>2, <3>3
    <2> DEFINE u == [i \in 1..Len(notes) |-> Notice(seq + i, notes[i])]
    <2>2. Len(notes) \in Nat /\ \A i \in 1..Len(notes) : u[i] \in Events
      BY <1>a, NoticeType
    <2>3. u \in Seq(Events)
      BY <2>2
    <2>4. UNCHANGED timeline
      BY <1>11 DEF Tick
    <2> QED
      BY <1>2, <2>1, <2>3, <2>4
  <1>12. CASE Shutdown
    <2> DEFINE ev == Notice(seq + 1, "monitor.stopped")
    <2>1. ev \in Events
      BY <1>a, NoticeType DEF NoticeRules
    <2>2. timeline' = Append(timeline, ev) /\ UNCHANGED out
      BY <1>12 DEF Shutdown
    <2> HIDE DEF ev
    <2>3. timeline' = timeline \o <<ev>> /\ <<ev>> \in Seq(Events)
      BY <1>a, <2>1, <2>2, AppendIsConcat
    <2> QED
      BY <1>a, <1>b, <1>c, <2>2, <2>3
  <1>13. CASE RecordDone \/ WriteBundle \/ CheckStop \/ PollDone \/ ControlRead
             \/ NoTick \/ TickFinalise \/ CheckAlive \/ DrainDone \/ Second \/ Crash
    BY <1>13, <1>1 DEF RecordDone, WriteBundle, CheckStop, PollDone, ControlRead,
       NoTick, TickFinalise, CheckAlive, DrainDone, Second, Crash
  <1>14. CASE TickFlush \/ TickSave \/ EndFlush \/ EndSave
    BY <1>14, <1>1 DEF TickFlush, TickSave, EndFlush, EndSave, Flush, SaveSession
  <1>15. ASSUME NEW o \in Observations, Emit(o) PROVE Resumed'
    BY <1>15, <1>1 DEF Emit
  <1>16. ASSUME NEW p \in Procs, ProcessExits(p) PROVE Resumed'
    BY <1>16, <1>1 DEF ProcessExits
  <1>17. ASSUME NEW a \in Actions, Request(a) PROVE Resumed'
    BY <1>17, <1>1 DEF Request
  <1>18. CASE SensorStops \/ Signal \/ UNCHANGED vars
    BY <1>18, <1>1 DEF SensorStops, Signal, vars
  <1> QED
    BY <1>6, <1>7, <1>8, <1>9, <1>10, <1>11, <1>12, <1>13, <1>14, <1>15, <1>16,
       <1>17, <1>18 DEF Next, Loop, Finished

(* Only Windows counts suspensions.                                        *)
FrozenInv ==
  /\ FrozenIsShown
  /\ platform # "windows" => \A p \in Procs : stopped[p] <= 1

(* What an action leaves suspended.                                        *)
LEMMA ActSuspends ==
  ASSUME TypeOK, FrozenInv, NEW action, NEW ok, Act(action, ok)
  PROVE  /\ platform' = platform
         /\ platform' # "windows" => \A p \in Procs : stopped'[p] <= 1
         /\ ok /\ action = "terminate" => Suspended' = {}
         /\ ok /\ action = "resume" /\ platform # "windows" => Suspended' = {}
         /\ (ok /\ action \in {"freeze", "resume", "terminate"}) \/ Suspended' = Suspended
  <1>1. /\ stopped \in [Procs -> Nat] /\ platform' = platform
        /\ platform # "windows" => \A p \in Procs : stopped[p] <= 1
    BY DEF TypeOK, FrozenInv, Act
  <1>2. CASE ok /\ action = "freeze" /\ Freeze
    <2>1. platform # "windows" => \A p \in Procs : stopped'[p] <= 1
      BY <1>2 DEF Freeze, Suspensions
    <2> QED
      BY <1>1, <1>2, <2>1
  <1>3. CASE ok /\ action = "resume" /\ Resume
    <2>1. platform # "windows" => \A p \in Procs : stopped'[p] = 0
      BY <1>1, <1>3 DEF Resume
    <2>2. platform # "windows" => Suspended' = {}
      BY <2>1 DEF Suspended
    <2> QED
      BY <1>1, <1>3, <2>1, <2>2
  <1>4. CASE ok /\ action = "terminate" /\ Terminate
    <2>1. \A p \in Procs : stopped'[p] = 0
      BY <1>4 DEF Terminate
    <2>2. Suspended' = {}
      BY <2>1 DEF Suspended
    <2> QED
      BY <1>1, <1>4, <2>1, <2>2
  <1>5. CASE (~ok \/ action = "stop") /\ UNCHANGED <<running, stopped>>
    BY <1>1, <1>5 DEF Suspended
  <1> QED
    BY <1>2, <1>3, <1>4, <1>5 DEF Act

(* Unless the policy freezes on lost visibility, the one branch that       *)
(* suspends processes and forgets to say so, no step suspends a process    *)
(* that the session does not show.                                         *)
LEMMA FrozenStep ==
  TypeOK /\ FrozenInv /\ OnDegraded # "freeze" /\ [Next]_vars => FrozenInv'
  <1> SUFFICES ASSUME TypeOK, FrozenInv, OnDegraded # "freeze", [Next]_vars
               PROVE  FrozenInv'
    OBVIOUS
  <1> USE DEF sensorVars, agentVars, dashVars, storeVars, onceVars, loopVars,
              incidentVars
  <1>r. Resumed => Resumed'
    BY ResumedStays
  <1>1. ASSUME UNCHANGED <<stopped, platform>>, session'.frozen = session.frozen
        PROVE  FrozenInv'
    <2>1. Suspended' = Suspended
      BY <1>1 DEF Suspended
    <2> QED
      BY <1>1, <1>r, <2>1 DEF FrozenInv, FrozenIsShown
  <1>s. session \in Sessions /\ session.frozen \in BOOLEAN
        /\ session.responses \in Nat
    BY DEF TypeOK, Sessions
  <1>2. CASE EnforceViolation
    <2>1. PICK ok \in Outcomes :
            /\ Act(Response, ok)
            /\ session' = [session EXCEPT
                 !.frozen = session.frozen \/ (ok /\ Response = "freeze"),
                 !.responses = session.responses + 1]
      BY <1>2 DEF EnforceViolation
    <2>2. /\ (session.frozen \/ (ok /\ Response = "freeze")) \in BOOLEAN
          /\ session.responses + 1 \in Nat
      BY <1>s
    <2>3. Fields(session', session.incidents, session.responses + 1,
                 session.frozen \/ (ok /\ Response = "freeze"),
                 session.ended, session.dropped)
      BY <1>s, <2>1, <2>2, UpdateKeeps, Zenon
    <2>4. session'.frozen = (session.frozen \/ (ok /\ Response = "freeze"))
      BY <2>3 DEF Fields
    <2>5. /\ platform' = platform
          /\ platform' # "windows" => \A p \in Procs : stopped'[p] <= 1
      BY <2>1, ActSuspends
    <2>6. CASE ok /\ Response = "freeze"
      BY <2>4, <2>5, <2>6 DEF FrozenInv, FrozenIsShown
    <2>7. CASE ok /\ Response = "terminate"
      BY <2>1, <2>5, <2>7, ActSuspends DEF FrozenInv, FrozenIsShown
    <2>8. CASE ~ok
      <3>1. Suspended' = Suspended
        BY <2>1, <2>8, ActSuspends
      <3> QED
        BY <1>r, <1>s, <2>4, <2>5, <2>8, <3>1 DEF FrozenInv, FrozenIsShown
    <2> QED
      BY <1>2, <2>6, <2>7, <2>8, ResponseAssumption
         DEF EnforceViolation, MustRespond, ResponseActions
  <1>3. CASE EnforceDegraded
    <2>1. PICK ok \in Outcomes : Act(OnDegraded, ok)
      BY <1>3 DEF EnforceDegraded
    <2>2. session.responses + 1 \in Nat
      BY <1>s
    <2>3. Fields(session', session.incidents, session.responses + 1,
                 session.frozen, session.ended, session.dropped)
      BY <1>3, <1>s, <2>2, UpdateKeeps, Zenon DEF EnforceDegraded
    <2> QED
      BY <1>r, <2>1, <2>3, ActSuspends, ResponseAssumption
         DEF Fields, FrozenInv, FrozenIsShown, ResponseActions
  <1>4. CASE ControlAct
    <2>1. PICK ok \in Outcomes :
            /\ Act(hand, ok)
            /\ session' = [session EXCEPT
                 !.frozen = IF ok /\ hand = "freeze" THEN TRUE
                            ELSE IF ok /\ hand = "resume" THEN FALSE
                            ELSE session.frozen,
                 !.responses =
                   session.responses + (IF hand = "stop" THEN 0 ELSE 1)]
      BY <1>4 DEF ControlAct
    <2> DEFINE f == IF ok /\ hand = "freeze" THEN TRUE
                    ELSE IF ok /\ hand = "resume" THEN FALSE
                    ELSE session.frozen
               k == session.responses + (IF hand = "stop" THEN 0 ELSE 1)
    <2>2. f \in BOOLEAN
      BY <1>s, Zenon
    <2>3. k \in Nat
      BY <1>s
    <2>4. session' = [session EXCEPT !.frozen = f, !.responses = k]
      BY <2>1
    <2> HIDE DEF f, k
    <2>5. Fields(session', session.incidents, k, f, session.ended,
                 session.dropped)
      BY <1>s, <2>2, <2>3, <2>4, UpdateKeeps, Zenon
    <2>6. session'.frozen = f
      BY <2>5 DEF Fields
    <2>7. hand = "resume" => Resumed'
      <3> DEFINE ev == Notice(seq + 1, OperatorRule[hand])
      <3>1. out' = Append(out, ev) /\ out \in Seq(Events)
        BY <1>4 DEF ControlAct, Announce, TypeOK
      <3>2. hand = "resume" => ev.rule = "operator.resume"
        BY DEF Notice, OperatorRule
      <3> HIDE DEF ev
      <3>3. Len(out) + 1 \in 1..Len(out') /\ out'[Len(out) + 1] = ev
        BY <3>1
      <3> QED
        BY <3>2, <3>3 DEF Resumed
    <2>8. hand \in Actions
      BY <1>4 DEF ControlAct, TypeOK
    <2>9. /\ platform' = platform
          /\ platform' # "windows" => \A p \in Procs : stopped'[p] <= 1
      BY <2>1, ActSuspends
    <2>10. CASE ok /\ hand = "freeze"
      BY <2>6, <2>9, <2>10 DEF FrozenInv, FrozenIsShown, f
    <2>11. CASE ok /\ hand = "resume"
      BY <2>1, <2>7, <2>9, <2>11, ActSuspends DEF FrozenInv, FrozenIsShown
    <2>12. CASE ok /\ hand = "terminate"
      BY <2>1, <2>9, <2>12, ActSuspends DEF FrozenInv, FrozenIsShown
    <2>13. CASE ~ok \/ hand = "stop"
      <3>1. Suspended' = Suspended
        BY <2>1, <2>13, ActSuspends
      <3>2. session'.frozen = session.frozen
        BY <2>6, <2>13 DEF f
      <3> QED
        BY <1>r, <2>9, <3>1, <3>2 DEF FrozenInv, FrozenIsShown
    <2> QED
      BY <2>8, <2>10, <2>11, <2>12, <2>13 DEF Actions
  <1>5. CASE RecordPlain \/ RecordIncident \/ WriteBundle \/ Tick \/ Second
             \/ Shutdown
    <2>1. session'.frozen = session.frozen
      BY <1>5, SessionEffects DEF Kept
    <2> QED
      BY <1>5, <2>1, <1>1
         DEF RecordPlain, RecordIncident, WriteBundle, Tick, Second, Shutdown
  <1>6. CASE RecordDone \/ CheckStop \/ PollOne \/ PollDone \/ ControlRead
             \/ NoTick \/ TickFinalise \/ CheckAlive \/ DrainOne \/ DrainDone
    BY <1>6, <1>1 DEF RecordDone, CheckStop, PollOne, ReadRing, PollDone,
       ControlRead, NoTick, TickFinalise, CheckAlive, DrainOne, DrainDone
  <1>7. CASE TickFlush \/ TickSave \/ EndFlush \/ EndSave \/ Crash
    BY <1>7, <1>1 DEF TickFlush, TickSave, EndFlush, EndSave, Flush,
       SaveSession, Crash
  <1>8. ASSUME NEW o \in Observations, Emit(o) PROVE FrozenInv'
    BY <1>8, <1>1 DEF Emit
  <1>9. ASSUME NEW p \in Procs, ProcessExits(p) PROVE FrozenInv'
    BY <1>9, <1>1 DEF ProcessExits
  <1>10. ASSUME NEW a \in Actions, Request(a) PROVE FrozenInv'
    BY <1>10, <1>1 DEF Request
  <1>11. CASE SensorStops \/ Signal \/ UNCHANGED vars
    BY <1>11, <1>1 DEF SensorStops, Signal, vars
  <1> QED
    BY <1>2, <1>3, <1>4, <1>5, <1>6, <1>7, <1>8, <1>9, <1>10, <1>11
       DEF Next, Loop, Finished

(* For every policy but one that freezes on lost visibility, the session   *)
(* shows the agent frozen whenever Kill Line has suspended any of its      *)
(* processes, whichever actions failed, except on Windows after a resume,  *)
(* which does not undo the two suspensions of a freeze.  (For that policy  *)
(* the run MonitorUnfrozen shows the opposite.)                            *)
THEOREM FrozenShows ==
  ASSUME OnDegraded # "freeze"
  PROVE  Spec => []FrozenIsShown
  <1>1. Init => FrozenInv
    <2> SUFFICES ASSUME Init PROVE FrozenInv
      OBVIOUS
    <2>1. \A p \in Procs : stopped[p] = 0
      BY DEF Init
    <2>2. Suspended = {}
      BY <2>1 DEF Suspended
    <2> QED
      BY <2>1, <2>2 DEF FrozenInv, FrozenIsShown
  <1>2. TypeOK /\ FrozenInv /\ [Next]_vars => FrozenInv'
    BY FrozenStep
  <1>3. FrozenInv => FrozenIsShown
    BY DEF FrozenInv
  <1> QED
    BY <1>1, <1>2, <1>3, TypeCorrect, PTL DEF Spec
=============================================================================

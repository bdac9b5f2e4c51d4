------------------------ MODULE MonitorRefinesProofs -----------------------
(* The monitoring loop implements module Recorder, for every value of the  *)
(* constants: each of its steps is a step of the recorder or changes       *)
(* nothing that a reader of the session's directory sees.                  *)
EXTENDS MonitorRefines, MonitorIncidentProofs

USE HeartbeatStaleAssumption

-----------------------------------------------------------------------------
(* What the directory shows, besides what the incident invariant says.     *)

HasBreach == \E i \in 1..Len(timeline) : IsBreach(timeline[i])

(* The first breach is flushed with its incident, so that a breach anywhere *)
(* in the timeline means that there is one in timeline.jsonl.              *)
BreachDurable == HasBreach => \E i \in 1..flushed : IsBreach(timeline[i])

(* Only the engine's verdicts are breaches.                                *)
BreachKeys ==
  /\ \A i \in 1..Len(timeline) :
       IsBreach(timeline[i]) => timeline[i].rule \in Breaches
  /\ \A i \in 1..Len(out) : IsBreach(out[i]) => out[i].rule \in Breaches

(* The tick and the end of run() save the session after a flush.           *)
SavesWhole == pc \in {"save", "endsave"} => flushed = Len(timeline)

(* The session ends last, and only its last save says so.                  *)
EndsLast ==
  /\ session.ended => pc \in {"endflush", "endsave", "done", "crashed"}
  /\ \A s \in disk : s.ended => pc = "done"
  /\ pc \in {"endflush", "endsave", "done"} => pending = {}

(* A saved RED is backed by the timeline.                                  *)
RedBacked == \A s \in disk : s.status = "red" => HasBreach

(* A bundle that is not final belongs to an open incident.                 *)
OpenAreKnown ==
  \A j \in 1..Len(bundles) : bundles[j].finalized \/ \E p \in pending : p.id = j

DirInv ==
  /\ BreachDurable /\ BreachKeys /\ SavesWhole /\ EndsLast /\ RedBacked
  /\ OpenAreKnown

(* Nothing is in the directory at startup.                                 *)
LEMMA DirInit == Init => DirInv
  <1> SUFFICES ASSUME Init PROVE DirInv
    OBVIOUS
  <1>1. NewSession \in Sessions /\ ~NewSession.ended
    BY DEF NewSession, Sessions, Statuses
  <1>2. ~Degrade(NewSession, "coverage").ended
    BY <1>1, DegradeKeeps DEF Reasons, Kept
  <1>3. ~session.ended
    BY <1>1, <1>2 DEF Init
  <1>4. /\ Len(timeline) = 0 /\ Len(bundles) = 0 /\ pc = "record" /\ disk = {}
        /\ pending = {}
    BY DEF Init
  <1>5. \A i \in 1..Len(out) : ~IsBreach(out[i])
    <2>1. \A n, r : ~IsBreach(Notice(n, r))
      BY DEF IsBreach, Notice
    <2> HIDE DEF Notice
    <2> QED
      BY <2>1 DEF Init
  <1> QED
    BY <1>3, <1>4, <1>5 DEF DirInv, BreachDurable, HasBreach, BreachKeys,
       SavesWhole, EndsLast, RedBacked, OpenAreKnown

(* A notice is no breach.                                                  *)
LEMMA NoticeIsNoBreach ==
  ASSUME NEW n, NEW r
  PROVE  ~IsBreach(Notice(n, r))
  BY DEF IsBreach, Notice

(* No step records or queues a breach under a notice's name.               *)
LEMMA KeysStep == TypeOK /\ BreachKeys /\ [Next]_vars => BreachKeys'
  <1> SUFFICES ASSUME TypeOK, BreachKeys, [Next]_vars PROVE BreachKeys'
    OBVIOUS
  <1> USE DEF sensorVars, agentVars, dashVars, storeVars, onceVars, loopVars,
              incidentVars
  <1>a. /\ timeline \in Seq(Events) /\ out \in Seq(Events) /\ seq \in Nat
        /\ ring \in Seq(Observations)
    BY Zenon DEF TypeOK
  <1>l. Len(timeline) \in Nat /\ Len(out) \in Nat
    BY <1>a, LenProperties
  <1>1. ASSUME UNCHANGED <<timeline, out>> PROVE BreachKeys'
    BY <1>1 DEF BreachKeys
  <1>2. CASE RecordPlain \/ RecordIncident
    <2>1. /\ out # <<>> /\ out' = Tail(out)
          /\ timeline' = Append(timeline, Head(out))
      BY <1>2 DEF RecordPlain, RecordIncident
    <2>2. /\ Head(out) = out[1] /\ Len(out) > 0 /\ Len(out') = Len(out) - 1
          /\ \A i \in 1..Len(out') : out'[i] = out[i + 1]
      BY <2>1, <1>a, <1>l
    <2>3. Head(out) \in Events
      BY <2>1, <1>a, HeadTailProperties
    <2>4. /\ Len(timeline') = Len(timeline) + 1
          /\ \A i \in 1..Len(timeline) : timeline'[i] = timeline[i]
          /\ timeline'[Len(timeline) + 1] = out[1]
      BY <2>1, <2>2, <2>3, <1>a, AppendProperties
    <2>5. \A i \in 1..Len(timeline') :
            IsBreach(timeline'[i]) => timeline'[i].rule \in Breaches
      BY <2>2, <2>4, <1>l DEF BreachKeys
    <2>6. \A i \in 1..Len(out') : IsBreach(out'[i]) => out'[i].rule \in Breaches
      BY <2>2, <1>l DEF BreachKeys
    <2> QED
      BY <2>5, <2>6 DEF BreachKeys
  \* Steps that queue more.
  <1>3. ASSUME NEW more \in Seq(Events), UNCHANGED timeline, out' = out \o more,
               \A i \in 1..Len(more) :
                 IsBreach(more[i]) => more[i].rule \in Breaches
        PROVE  BreachKeys'
    <2>1. /\ Len(out') = Len(out) + Len(more) /\ Len(more) \in Nat
          /\ \A i \in 1..Len(out') :
               out'[i] = IF i <= Len(out) THEN out[i] ELSE more[i - Len(out)]
      BY <1>3, <1>a, <1>l
    <2>2. \A i \in 1..Len(out') : IsBreach(out'[i]) => out'[i].rule \in Breaches
      BY <2>1, <1>3, <1>l DEF BreachKeys
    <2> QED
      BY <2>2, <1>3 DEF BreachKeys
  <1>4. ASSUME NEW r \in NoticeRules, Announce(r), UNCHANGED timeline
        PROVE  BreachKeys'
    <2> DEFINE ev == Notice(seq + 1, r)
    <2>1. ev \in Events /\ ~IsBreach(ev) /\ out' = Append(out, ev)
      BY <1>4, <1>a, NoticeType, NoticeIsNoBreach DEF Announce
    <2> HIDE DEF ev
    <2>2. /\ Len(out') = Len(out) + 1
          /\ \A i \in 1..Len(out) : out'[i] = out[i]
          /\ out'[Len(out) + 1] = ev
      BY <2>1, <1>a, AppendProperties
    <2> QED
      BY <1>4, <2>1, <2>2, <1>l DEF BreachKeys
  <1>5. CASE EnforceViolation
    BY <1>5, <1>4 DEF EnforceViolation, NoticeRules
  <1>6. CASE EnforceDegraded
    BY <1>6, <1>4 DEF EnforceDegraded, NoticeRules
  <1>7. CASE ControlAct
    <2>1. hand \in Actions
      BY <1>7 DEF ControlAct, TypeOK
    <2>2. OperatorRule[hand] \in NoticeRules
      BY <2>1 DEF OperatorRule, Actions, NoticeRules
    <2> QED
      BY <1>7, <2>2, <1>4 DEF ControlAct
  <1>8. CASE PollOne \/ DrainOne
    <2> DEFINE o == Head(ring)
    <2>1. /\ ring # <<>> /\ out' = out \o Process(o, seq) /\ UNCHANGED timeline
      BY <1>8 DEF PollOne, DrainOne, ReadRing
    <2>2. o \in Observations
      BY <2>1, <1>a, HeadTailProperties
    <2> HIDE DEF o
    <2>3. /\ Process(o, seq) \in Seq(Events) /\ Len(Process(o, seq)) = Len(o)
          /\ o \in Seq(Bodies)
      BY <2>2, <1>a, ProcessType, ObservationsAssumption
    <2>4. \A i \in 1..Len(o) : Process(o, seq)[i].rule \in Breaches
      <3>1. \A i \in 1..Len(o) : o[i] \in Bodies
        BY <2>3
      <3>2. \A i \in 1..Len(o) : o[i].rule \in Breaches
        BY <3>1 DEF Bodies
      <3> QED
        BY <3>2 DEF Process
    <2> HIDE DEF Process
    <2> QED
      BY <2>1, <2>3, <2>4, <1>3
  <1>9. CASE Tick
    <2> DEFINE gone  == lost /\ "sensor" \notin session.degraded
               more  == SeenDrops > lastDrops
               notes == (IF gone THEN <<"monitor.sensor_lost">> ELSE <<>>) \o
                        (IF more THEN <<"monitor.events_dropped">> ELSE <<>>)
               said  == [i \in 1..Len(notes) |-> Notice(seq + i, notes[i])]
    <2>1. notes \in Seq(NoticeRules)
      <3>1. /\ <<"monitor.sensor_lost">> \in Seq(NoticeRules)
            /\ <<"monitor.events_dropped">> \in Seq(NoticeRules)
            /\ <<>> \in Seq(NoticeRules)
        BY DEF NoticeRules
      <3> QED
        BY <3>1, ConcatProperties
    <2>2. out' = out \o said /\ UNCHANGED timeline
      BY <1>9 DEF Tick
    <2> HIDE DEF notes
    <2>3. Len(notes) \in Nat
      BY <2>1, LenProperties
    <2>4. \A i \in 1..Len(notes) : Notice(seq + i, notes[i]) \in Events
      BY <1>a, <2>1, <2>3, ElementOfSeq, NoticeType
    <2>5. /\ said \in Seq(Events) /\ Len(said) = Len(notes)
          /\ \A i \in 1..Len(notes) : said[i] = Notice(seq + i, notes[i])
      BY <2>3, <2>4
    <2> HIDE DEF said
    <2> QED
      BY <2>2, <2>5, <1>3, NoticeIsNoBreach
  <1>10. CASE Shutdown
    <2> DEFINE ev == Notice(seq + 1, "monitor.stopped")
    <2>1. /\ ev \in Events /\ ~IsBreach(ev) /\ timeline' = Append(timeline, ev)
          /\ UNCHANGED out
      <3>1. seq + 1 \in Nat
        BY <1>a
      <3> QED
        BY <1>10, <3>1, NoticeType, NoticeIsNoBreach DEF Shutdown, NoticeRules
    <2> HIDE DEF ev
    <2>2. /\ Len(timeline') = Len(timeline) + 1
          /\ \A i \in 1..Len(timeline) : timeline'[i] = timeline[i]
          /\ timeline'[Len(timeline) + 1] = ev
      BY <2>1, <1>a, AppendProperties
    <2> QED
      BY <2>1, <2>2, <1>l DEF BreachKeys
  <1>11. CASE RecordDone \/ WriteBundle \/ CheckStop \/ PollDone \/ ControlRead
              \/ NoTick \/ TickFinalise \/ CheckAlive \/ DrainDone
    BY <1>11, <1>1 DEF RecordDone, WriteBundle, CheckStop, PollDone,
       ControlRead, NoTick, TickFinalise, CheckAlive, DrainDone
  <1>12. CASE TickFlush \/ TickSave \/ EndFlush \/ EndSave
    BY <1>12, <1>1 DEF TickFlush, TickSave, EndFlush, EndSave, Flush,
       SaveSession
  <1>13. ASSUME NEW o \in Observations, Emit(o) PROVE BreachKeys'
    BY <1>13, <1>1 DEF Emit
  <1>14. ASSUME NEW p \in Procs, ProcessExits(p) PROVE BreachKeys'
    BY <1>14, <1>1 DEF ProcessExits
  <1>15. ASSUME NEW a \in Actions, Request(a) PROVE BreachKeys'
    BY <1>15, <1>1 DEF Request
  <1>16. CASE SensorStops \/ Signal \/ Second \/ Crash \/ UNCHANGED vars
    BY <1>16, <1>1 DEF SensorStops, Signal, Second, Crash, vars
  <1> QED
    BY <1>2, <1>5, <1>6, <1>7, <1>8, <1>9, <1>10, <1>11, <1>12, <1>13, <1>14,
       <1>15, <1>16 DEF Next, Loop, Finished

(* A second more changes neither the status nor the end of a session.      *)
LEMMA OlderReads ==
  ASSUME NEW s \in Sessions
  PROVE  Older(s).status = s.status /\ Older(s).ended = s.ended
  BY DEF Older, Sessions

(* Every step keeps the directory's invariant.                             *)
LEMMA DirStep ==
  TypeOK /\ IncidentInv /\ DirInv /\ TypeOK' /\ StatusInv' /\ [Next]_vars
    => DirInv'
  <1> SUFFICES ASSUME TypeOK, IncidentInv, DirInv, TypeOK', StatusInv',
                      [Next]_vars
               PROVE  DirInv'
    OBVIOUS
  <1> USE DEF sensorVars, agentVars, dashVars, storeVars, onceVars, loopVars,
              incidentVars
  <1>a. /\ timeline \in Seq(Events) /\ bundles \in Seq(Bundles)
        /\ pending \in SUBSET Pendings /\ flushed \in Nat
        /\ disk \in SUBSET Sessions /\ session \in Sessions
        /\ out \in Seq(Events) /\ session' \in Sessions
    BY Zenon DEF TypeOK
  <1>l. /\ Len(timeline) \in Nat /\ Len(bundles) \in Nat
        /\ flushed <= Len(timeline) /\ session.incidents = Len(bundles)
    BY <1>a, LenProperties DEF IncidentInv, Counting
  <1>k. BreachKeys'
    BY KeysStep DEF DirInv
  <1>d. /\ BreachDurable /\ SavesWhole /\ EndsLast /\ RedBacked /\ OpenAreKnown
    BY DEF DirInv
  \* The session is never saved RED without a breach in the timeline.
  <1>r. session'.status = "red" => HasBreach'
    <2>1. session'.violations \in Nat
      BY <1>a DEF Sessions
    <2> QED
      BY <2>1 DEF StatusInv, StatusOf, HasBreach
  \* Steps that leave the store, the bundles and the open incidents alone.
  <1>1. ASSUME UNCHANGED <<timeline, flushed, disk, bundles, pending>>,
               session'.ended = session.ended,
               \/ UNCHANGED pc
               \/ /\ pc \notin {"endflush", "endsave", "done", "crashed"}
                  /\ pc' \notin {"save", "endflush", "endsave", "done"}
        PROVE  DirInv'
    BY <1>1, <1>k, <1>d DEF DirInv, BreachDurable, HasBreach, SavesWhole,
       EndsLast, RedBacked, OpenAreKnown
  \* Steps that record an event that is no breach, or has one before it.
  <1>2. ASSUME NEW ev \in Events, timeline' = Append(timeline, ev),
               IsBreach(ev) => \/ flushed' = Len(timeline) + 1
                               \/ ev.rule \in reported \/ Len(bundles) > 0,
               flushed' \in {flushed, Len(timeline), Len(timeline) + 1},
               UNCHANGED disk
        PROVE  BreachDurable' /\ RedBacked'
    <2>1. /\ Len(timeline') = Len(timeline) + 1
          /\ \A i \in 1..Len(timeline) : timeline'[i] = timeline[i]
          /\ timeline'[Len(timeline) + 1] = ev
      BY <1>2, <1>a, AppendProperties
    <2>2. /\ flushed' \in Nat /\ flushed <= flushed'
          /\ flushed' <= Len(timeline) + 1
      BY <1>2, <1>a, <1>l
    <2>3. ASSUME HasBreach PROVE BreachDurable'
      <3>1. PICK i \in 1..flushed : IsBreach(timeline[i])
        BY <2>3, <1>d DEF BreachDurable
      <3>2. i \in 1..flushed' /\ IsBreach(timeline'[i])
        BY <3>1, <2>1, <2>2, <1>a, <1>l
      <3> QED
        BY <3>2 DEF BreachDurable
    <2>4. ASSUME ~HasBreach PROVE BreachDurable'
      <3>1. reported = {} /\ Len(bundles) = 0
        <4>1. reported = {}
          BY <2>4 DEF IncidentInv, Reporting, HasBreach
        <4>2. ASSUME Len(bundles) > 0 PROVE FALSE
          <5>1. bundles[1].trigger \in 1..flushed /\ IsBreach(timeline[bundles[1].trigger])
            BY <4>2, <1>l DEF IncidentInv, TriggerDurable
          <5> QED
            BY <5>1, <2>4, <1>a, <1>l DEF HasBreach
        <4> QED
          BY <4>1, <4>2, <1>l
      <3>2. CASE IsBreach(ev)
        <4>1. flushed' = Len(timeline) + 1
          BY <1>2, <3>1, <3>2
        <4> QED
          BY <4>1, <3>2, <2>1, <1>l DEF BreachDurable
      <3>3. CASE ~IsBreach(ev)
        <4>1. ~HasBreach'
          BY <3>3, <2>1, <2>4, <1>l DEF HasBreach
        <4> QED
          BY <4>1 DEF BreachDurable
      <3> QED
        BY <3>2, <3>3
    <2>5. HasBreach => HasBreach'
      BY <2>1, <1>l DEF HasBreach
    <2>6. RedBacked'
      BY <2>5, <1>2, <1>d DEF RedBacked
    <2> QED
      BY <2>3, <2>4, <2>6
  <1>h. ASSUME out # <<>> PROVE Head(out) \in Events
    BY <1>h, <1>a, HeadTailProperties
  <1>w. ASSUME pending' = WithAfter(pending), UNCHANGED bundles
        PROVE  OpenAreKnown'
    <2>1. \A p \in pending : \E q \in pending' : q.id = p.id
      <3>1. \A p \in Pendings : [p EXCEPT !.after = p.after + 1].id = p.id
        BY DEF Pendings
      <3> QED
        BY <3>1, <1>w, <1>a DEF WithAfter
    <2> QED
      BY <2>1, <1>w, <1>d DEF OpenAreKnown
  <1>3. CASE RecordPlain
    <2>1. /\ Head(out) \in Events /\ timeline' = Append(timeline, Head(out))
          /\ flushed' \in {flushed, Len(timeline)} /\ UNCHANGED <<bundles, pc, disk>>
          /\ pending' = WithAfter(pending) /\ pc = "record"
      BY <1>3, <1>h DEF RecordPlain
    <2>2. IsBreach(Head(out)) => Head(out).rule \in reported \/ Len(bundles) > 0
      BY <1>3, <1>l, BoundsAssumption DEF RecordPlain, NeedsIncident
    <2>3. session'.ended = session.ended
      BY <1>3, SessionEffects DEF Kept
    <2>4. BreachDurable' /\ RedBacked'
      BY <2>1, <2>2, <1>2
    <2>5. OpenAreKnown'
      BY <2>1, <1>w
    <2> QED
      BY <2>1, <2>3, <2>4, <2>5, <1>k, <1>d DEF DirInv, SavesWhole, EndsLast
  <1>4. CASE RecordIncident
    <2>1. /\ Head(out) \in Events /\ timeline' = Append(timeline, Head(out))
          /\ flushed' = Len(timeline) + 1 /\ UNCHANGED <<bundles, disk>>
          /\ pending' = WithAfter(pending) /\ pc = "record" /\ pc' = "bundle"
      BY <1>4, <1>h DEF RecordIncident
    <2>2. session'.ended = session.ended
      BY <1>4, SessionEffects DEF Kept
    <2>3. BreachDurable' /\ RedBacked'
      BY <2>1, <1>2
    <2>4. OpenAreKnown'
      BY <2>1, <1>w
    <2> QED
      BY <2>1, <2>2, <2>3, <2>4, <1>k, <1>d DEF DirInv, SavesWhole, EndsLast
  <1>5. CASE Shutdown
    <2> DEFINE ev == Notice(seq + 1, "monitor.stopped")
               ps == WithAfter(pending)
               h == Len(timeline) + 1
    <2>1. ev \in Events /\ ~IsBreach(ev)
      <3>1. seq + 1 \in Nat
        BY DEF TypeOK
      <3> QED
        BY <3>1, NoticeType, NoticeIsNoBreach DEF NoticeRules
    <2>2. /\ timeline' = Append(timeline, ev) /\ pending' = {}
          /\ bundles' = Finalised(ps, session.responses, h)
          /\ flushed' \in {flushed, Len(timeline)} /\ UNCHANGED disk
          /\ pc = "shutdown" /\ pc' = "endflush"
      BY <1>5 DEF Shutdown
    <2>3. \A p \in pending : \E q \in ps : q.id = p.id
      <3>1. \A p \in Pendings : [p EXCEPT !.after = p.after + 1].id = p.id
        BY DEF Pendings
      <3> QED
        BY <3>1, <1>a DEF WithAfter
    <2>4. /\ ps \in SUBSET Pendings /\ h \in Nat
          /\ \A q \in ps :
               /\ q.id \in 1..Len(bundles) /\ bundles[q.id].trigger = q.trigger
               /\ bundles[q.id].rule = q.rule
      BY <1>a, <1>l, WithAfterType, WithAfterKeeps
         DEF SameIncident, IncidentInv, OpenOnes
    <2>5. session.responses \in Nat
      BY <1>a DEF Sessions
    <2> HIDE DEF ev, ps, h
    <2>6. Len(bundles') = Len(bundles)
      BY <2>2, <2>4, <2>5, <1>a, FinalisedType
    <2>7. OpenAreKnown'
      <3>1. ASSUME NEW j \in 1..Len(bundles) PROVE bundles'[j].finalized
        <4>1. CASE \E q \in ps : q.id = j
          BY <4>1, <2>2, <2>4, <1>a, FinalisedKeeps
        <4>2. CASE ~ \E q \in ps : q.id = j
          <5>1. bundles'[j] = bundles[j]
            BY <4>2, <2>2, <2>4, <1>a, FinalisedKeeps
          <5>2. bundles[j].finalized
            BY <4>2, <2>3, <1>d DEF OpenAreKnown
          <5> QED
            BY <5>1, <5>2
        <4> QED
          BY <4>1, <4>2
      <3> QED
        BY <3>1, <2>6 DEF OpenAreKnown
    <2>8. BreachDurable' /\ RedBacked'
      BY <2>1, <2>2, <1>2
    <2> QED
      BY <2>2, <2>7, <2>8, <1>k, <1>d DEF DirInv, SavesWhole, EndsLast
  <1>6. CASE WriteBundle
    <2> DEFINE p == NewPending(timeline[Len(timeline)])
               b == BundleOf(p, session.responses, Len(timeline), FALSE)
    <2>1. /\ bundles' = Append(bundles, b) /\ pending' = pending \cup {p}
          /\ UNCHANGED <<timeline, flushed, disk>>
          /\ pc = "bundle" /\ pc' = "record"
      BY <1>6 DEF WriteBundle
    <2>2. p.id = Len(bundles) + 1
      BY DEF NewPending
    <2>3. session'.ended = session.ended
      BY <1>6, SessionEffects
    <2> HIDE DEF p, b
    <2>4. /\ Len(bundles') = Len(bundles) + 1
          /\ \A j \in 1..Len(bundles) : bundles'[j] = bundles[j]
      BY <2>1, <1>a
    <2>5. OpenAreKnown'
      BY <2>1, <2>2, <2>4, <1>l, <1>d DEF OpenAreKnown
    <2> QED
      BY <2>1, <2>3, <2>5, <1>k, <1>d DEF DirInv, BreachDurable, HasBreach,
         SavesWhole, EndsLast, RedBacked
  <1>7. CASE TickFinalise
    <2> DEFINE due == {p \in pending : p.left = 0}
    <2>1. /\ bundles' = Finalised(due, session.responses, Len(timeline))
          /\ pending' = pending \ due
          /\ UNCHANGED <<timeline, flushed, disk, session>>
          /\ pc = "finalise" /\ pc' = "flush"
      BY <1>7 DEF TickFinalise
    <2>2. due \in SUBSET Pendings /\ due \subseteq pending
      BY <1>a
    <2>3. \A q \in due :
            /\ q.id \in 1..Len(bundles) /\ bundles[q.id].trigger = q.trigger
            /\ bundles[q.id].rule = q.rule
      BY <2>2 DEF IncidentInv, OpenOnes
    <2>4. session.responses \in Nat
      BY <1>a DEF Sessions
    <2> HIDE DEF due
    <2>5. Len(bundles') = Len(bundles)
      BY <2>1, <2>2, <2>4, <1>a, <1>l, FinalisedType
    <2>6. OpenAreKnown'
      <3>1. ASSUME NEW j \in 1..Len(bundles)
            PROVE  bundles'[j].finalized \/ \E p \in pending' : p.id = j
        <4>1. CASE \E q \in due : q.id = j
          BY <4>1, <2>1, <2>3, <1>a, FinalisedKeeps
        <4>2. CASE ~ \E q \in due : q.id = j
          <5>1. bundles'[j] = bundles[j]
            BY <4>2, <2>1, <2>3, <1>a, FinalisedKeeps
          <5> QED
            BY <4>2, <5>1, <2>1, <1>d DEF OpenAreKnown
        <4> QED
          BY <4>1, <4>2
      <3> QED
        BY <3>1, <2>5 DEF OpenAreKnown
    <2> QED
      BY <2>1, <2>6, <1>k, <1>d DEF DirInv, BreachDurable, HasBreach,
         SavesWhole, EndsLast, RedBacked
  <1>8. CASE TickFlush \/ EndFlush \/ Crash
    <2>1. /\ UNCHANGED <<timeline, disk, bundles, pending, session>>
          /\ flushed' \in {flushed, Len(timeline)}
          /\ \/ pc = "flush" /\ pc' = "save" /\ flushed' = Len(timeline)
             \/ pc = "endflush" /\ pc' = "endsave" /\ flushed' = Len(timeline)
             \/ pc \notin {"done", "crashed"} /\ pc' = "crashed"
      BY <1>8 DEF TickFlush, EndFlush, Flush, Crash, Over
    <2>2. BreachDurable'
      BY <2>1, <1>a, <1>l, <1>d DEF BreachDurable, HasBreach
    <2> QED
      BY <2>1, <2>2, <1>k, <1>d DEF DirInv, HasBreach, SavesWhole, EndsLast,
         RedBacked, OpenAreKnown
  <1>9. CASE TickSave \/ EndSave
    <2>1. /\ UNCHANGED <<timeline, flushed, bundles, pending, session>>
          /\ disk' = {session'}
          /\ \/ pc = "save" /\ pc' = "alive"
             \/ pc = "endsave" /\ pc' = "done"
      BY <1>9 DEF TickSave, EndSave, SaveSession
    <2> QED
      BY <2>1, <1>r, <1>k, <1>d DEF DirInv, BreachDurable, HasBreach,
         SavesWhole, EndsLast, RedBacked, OpenAreKnown
  <1>10. CASE ControlAct
    <2>1. /\ UNCHANGED <<timeline, flushed, bundles, pending>>
          /\ disk' = {session'} /\ pc = "act" /\ pc' = "record"
      BY <1>10 DEF ControlAct
    <2>2. session'.ended = session.ended
      BY <1>10, SessionEffects
    <2> QED
      BY <2>1, <2>2, <1>r, <1>k, <1>d DEF DirInv, BreachDurable, HasBreach,
         SavesWhole, EndsLast, RedBacked, OpenAreKnown
  <1>11. CASE Second
    <2>1. /\ UNCHANGED <<timeline, flushed, bundles, pc>>
          /\ disk' = {Older(s) : s \in disk}
      BY <1>11 DEF Second
    <2>2. session'.ended = session.ended
      BY <1>11, SessionEffects DEF Kept
    <2>3. \A s \in disk' : \E t \in disk : s.status = t.status /\ s.ended = t.ended
      BY <2>1, <1>a, OlderReads
    <2>4. /\ \A p \in pending : \E q \in pending' : q.id = p.id
          /\ pending = {} => pending' = {}
      <3> DEFINE f(p) == [p EXCEPT !.left = IF p.left = 0 THEN 0 ELSE p.left - 1]
      <3>1. \A p \in Pendings : f(p).id = p.id
        BY DEF Pendings
      <3>2. pending' = {f(p) : p \in pending}
        BY <1>11 DEF Second
      <3> HIDE DEF f
      <3> QED
        BY <3>1, <3>2, <1>a
    <2> QED
      BY <2>1, <2>2, <2>3, <2>4, <1>k, <1>d DEF DirInv, BreachDurable,
         HasBreach, SavesWhole, EndsLast, RedBacked, OpenAreKnown
  <1>12. CASE EnforceViolation \/ EnforceDegraded \/ Tick
    <2>1. session'.ended = session.ended
      BY <1>12, SessionEffects
    <2> QED
      BY <1>12, <2>1, <1>1 DEF EnforceViolation, EnforceDegraded, Tick
  <1>13. CASE RecordDone \/ CheckStop \/ PollOne \/ PollDone \/ ControlRead
              \/ NoTick \/ CheckAlive \/ DrainOne \/ DrainDone
    BY <1>13, <1>1 DEF RecordDone, CheckStop, PollOne, ReadRing, PollDone,
       ControlRead, NoTick, CheckAlive, DrainOne, DrainDone
  <1>14. ASSUME NEW o \in Observations, Emit(o) PROVE DirInv'
    BY <1>14, <1>1 DEF Emit
  <1>15. ASSUME NEW p \in Procs, ProcessExits(p) PROVE DirInv'
    BY <1>15, <1>1 DEF ProcessExits
  <1>16. ASSUME NEW a \in Actions, Request(a) PROVE DirInv'
    BY <1>16, <1>1 DEF Request
  <1>17. CASE SensorStops \/ Signal \/ UNCHANGED vars
    BY <1>17, <1>1 DEF SensorStops, Signal, vars
  <1> QED
    BY <1>3, <1>4, <1>5, <1>6, <1>7, <1>8, <1>9, <1>10, <1>11, <1>12, <1>13,
       <1>14, <1>15, <1>16, <1>17 DEF Next, Loop, Finished

-----------------------------------------------------------------------------
(* The refinement mapping.                                                 *)

(* A reader reports RED exactly when the file says so, however old it is.  *)
LEMMA SeenIs ==
  ASSUME NEW s \in Sessions
  PROVE  /\ Seen(s) \in [red : BOOLEAN, ended : BOOLEAN]
         /\ Seen(s).red <=> s.status = "red"
         /\ Seen(s).ended = s.ended
         /\ Seen(Older(s)) = Seen(s)
  <1>1. ASSUME NEW t \in Sessions
        PROVE  Seen(t) = [red |-> t.status = "red", ended |-> t.ended]
    <2>1. EffectiveStatus(t) = "red" <=> t.status = "red"
      BY DEF EffectiveStatus
    <2> QED
      BY <2>1 DEF Seen
  <1>2. s.ended \in BOOLEAN
    BY DEF Sessions
  <1>3. Older(s) \in Sessions /\ Older(s).status = s.status /\ Older(s).ended = s.ended
    BY OlderType, OlderReads
  <1>4. /\ Seen(s) = [red |-> s.status = "red", ended |-> s.ended]
        /\ Seen(Older(s)) = [red |-> Older(s).status = "red",
                              ended |-> Older(s).ended]
    BY <1>1, <1>3
  <1> HIDE DEF Seen
  <1>5. Seen(Older(s)) = Seen(s)
    BY <1>3, <1>4
  <1>6. /\ Seen(s) \in [red : BOOLEAN, ended : BOOLEAN]
        /\ Seen(s).red <=> s.status = "red"
        /\ Seen(s).ended = s.ended
    <2> DEFINE r == s.status = "red"
    <2>1. r \in BOOLEAN /\ Seen(s) = [red |-> r, ended |-> s.ended]
      BY <1>4
    <2> HIDE DEF r
    <2>2. /\ Seen(s) \in [red : BOOLEAN, ended : BOOLEAN]
          /\ Seen(s).red = r /\ Seen(s).ended = s.ended
      BY <1>2, <2>1
    <2> QED
      BY <2>2 DEF r
  <1> QED
    BY <1>5, <1>6

(* The log has the timeline's length, and each of its entries.             *)
LEMMA LogIs ==
  ASSUME timeline \in Seq(Events)
  PROVE  /\ Len(Log) = Len(timeline)
         /\ \A i \in 1..Len(timeline) : Log[i] = Logged(timeline[i])
  BY DEF Log

(* Recording an event appends its entry to the log.                        *)
LEMMA LogGrows ==
  ASSUME timeline \in Seq(Events), NEW ev \in Events,
         timeline' = Append(timeline, ev)
  PROVE  Log' = Append(Log, Logged(ev)) /\ Len(Log') = Len(timeline) + 1
  <1>1. /\ Len(timeline') = Len(timeline) + 1
        /\ \A i \in 1..Len(timeline) : timeline'[i] = timeline[i]
        /\ timeline'[Len(timeline) + 1] = ev /\ Len(timeline) \in Nat
    BY AppendProperties, LenProperties
  <1> DEFINE n == Len(timeline)
             e(i) == Logged(timeline[i])
             f(i) == Logged(timeline'[i])
  <1>2. Log = [i \in 1..n |-> e(i)] /\ Log' = [i \in 1..(n + 1) |-> f(i)]
    BY <1>1 DEF Log
  <1>3. (\A i \in 1..n : f(i) = e(i)) /\ f(n + 1) = Logged(ev) /\ n \in Nat
    BY <1>1
  <1> HIDE DEF n, e, f
  <1>4. Log' = Append(Log, Logged(ev)) /\ Len(Log') = n + 1
    BY <1>2, <1>3
  <1> QED
    BY <1>4 DEF n

(* The evidence has one entry per bundle.                                  *)
LEMMA FiledIs ==
  ASSUME bundles \in Seq(Bundles)
  PROVE  /\ Len(Filed) = Len(bundles)
         /\ \A i \in 1..Len(bundles) :
              /\ Filed[i] = [rule |-> bundles[i].rule,
                             complete |-> bundles[i].finalized]
              /\ Filed[i].rule = bundles[i].rule
              /\ Filed[i].complete = bundles[i].finalized
  BY DEF Filed

(* Rewriting some bundles as final completes their evidence.               *)
LEMMA FiledCompletes ==
  ASSUME bundles \in Seq(Bundles), bundles' \in Seq(Bundles),
         Len(bundles') = Len(bundles), NEW now \in SUBSET (1..Len(bundles)),
         \A i \in 1..Len(bundles) :
           /\ bundles'[i].rule = bundles[i].rule
           /\ bundles'[i].finalized <=> (bundles[i].finalized \/ i \in now)
  PROVE  Filed' \in R!Completions
  <1> DEFINE n == Len(bundles)
             g(i) == [Filed[i] EXCEPT !.complete = @ \/ i \in now]
             h(i) == [rule |-> bundles'[i].rule,
                      complete |-> bundles'[i].finalized]
  <1>1. Filed' = [i \in 1..n |-> h(i)]
    BY DEF Filed
  <1>2. ASSUME NEW i \in 1..n PROVE g(i) = h(i)
    <2>1. bundles[i] \in Bundles /\ bundles'[i] \in Bundles
      BY ElementOfSeq
    <2>2. bundles[i].finalized \in BOOLEAN /\ bundles'[i].finalized \in BOOLEAN
      BY <2>1 DEF Bundles
    <2>3. Filed[i] = [rule |-> bundles[i].rule, complete |-> bundles[i].finalized]
      BY FiledIs
    <2>4. g(i) = [rule |-> bundles[i].rule,
                  complete |-> bundles[i].finalized \/ i \in now]
      BY <2>3
    <2>5. bundles'[i].finalized = (bundles[i].finalized \/ i \in now)
      BY <2>2
    <2> QED
      BY <2>4, <2>5
  <1>3. Filed' = [i \in 1..n |-> g(i)]
    BY <1>1, <1>2
  <1>4. Len(Filed) = n
    BY FiledIs
  <1> QED
    BY <1>3, <1>4 DEF R!Completions

(* At startup the directory is that of a recorder that has done nothing.   *)
LEMMA RefinesInit == Init => R!Init
  BY DEF Init, R!Init, Log, Filed, Shown

(* Every step of the loop and of its environment is a step of the recorder *)
(* or changes nothing of what it shows.                                    *)
LEMMA RefinesStep ==
  TypeOK /\ NoGapInv /\ IncidentInv /\ DirInv /\ TypeOK' /\ StatusInv'
    /\ [Next]_vars => [R!Next]_(R!rvars)
  <1> SUFFICES ASSUME TypeOK, NoGapInv, IncidentInv, DirInv, TypeOK',
                      StatusInv', [Next]_vars
               PROVE  R!Next \/ UNCHANGED R!rvars
    OBVIOUS
  <1> USE DEF sensorVars, agentVars, dashVars, storeVars, onceVars, loopVars,
              incidentVars
  <1>a. /\ timeline \in Seq(Events) /\ bundles \in Seq(Bundles)
        /\ pending \in SUBSET Pendings /\ flushed \in Nat
        /\ disk \in SUBSET Sessions /\ session \in Sessions
        /\ out \in Seq(Events)
    BY Zenon DEF TypeOK
  <1>b. session' \in Sessions /\ bundles' \in Seq(Bundles)
    BY Zenon DEF TypeOK
  <1>l. /\ Len(timeline) \in Nat /\ Len(bundles) \in Nat
        /\ flushed <= Len(timeline) /\ session.incidents = Len(bundles)
        /\ Len(Log) = Len(timeline) /\ Len(Filed) = Len(bundles)
    BY <1>a, LenProperties, LogIs, FiledIs DEF IncidentInv, Counting
  <1>e. ASSUME pc # "done" PROVE ~R!Ended
    <2>1. \A s \in disk : ~Seen(s).ended
      BY <1>e, <1>a, SeenIs DEF DirInv, EndsLast
    <2> QED
      BY <2>1 DEF R!Ended, Shown
  \* What the log's breaches are.
  <1>g. ASSUME NEW i \in 1..Len(timeline)
        PROVE  /\ Log[i] # "other" <=> IsBreach(timeline[i])
               /\ IsBreach(timeline[i]) => Log[i] = timeline[i].rule
    BY <1>a, LogIs, OtherAssumption DEF Logged, DirInv, BreachKeys
  \* Steps that leave the directory alone.
  <1>1. ASSUME UNCHANGED <<timeline, flushed, disk, bundles>>
        PROVE  UNCHANGED R!rvars
    BY <1>1 DEF R!rvars, Log, Filed, Shown
  \* Steps that rewrite bundles as final.
  <1>2. ASSUME NEW ps \in SUBSET Pendings, NEW h \in Nat,
               \A q \in ps : \E p \in pending :
                 q.id = p.id /\ q.trigger = p.trigger /\ q.rule = p.rule,
               bundles' = Finalised(ps, session.responses, h)
        PROVE  Filed' \in R!Completions
    <2> DEFINE now == {i \in 1..Len(bundles) : \E p \in ps : p.id = i}
    <2>1. \A q \in ps : /\ q.id \in 1..Len(bundles)
                        /\ bundles[q.id].trigger = q.trigger
                        /\ bundles[q.id].rule = q.rule
      BY <1>2 DEF IncidentInv, OpenOnes
    <2>2. session.responses \in Nat
      BY <1>a DEF Sessions
    <2>3. Len(bundles') = Len(bundles)
      BY <1>2, <1>a, <2>2, FinalisedType
    <2>4. ASSUME NEW i \in 1..Len(bundles)
          PROVE  /\ bundles'[i].rule = bundles[i].rule
                 /\ bundles'[i].finalized <=> (bundles[i].finalized \/ i \in now)
      <3>1. SameReport(bundles'[i], bundles[i])
        BY <1>2, <1>a, <2>1, FinalisedKeeps
      <3>2. CASE \E p \in ps : p.id = i
        <4>1. bundles'[i].finalized
          BY <3>2, <1>2, <1>a, <2>1, FinalisedKeeps
        <4> QED
          BY <3>1, <3>2, <4>1 DEF SameReport
      <3>3. CASE ~ \E p \in ps : p.id = i
        <4>1. bundles'[i] = bundles[i]
          BY <3>3, <1>2, <1>a, <2>1, FinalisedKeeps
        <4> QED
          BY <3>3, <4>1
      <3> QED
        BY <3>2, <3>3
    <2>5. now \in SUBSET (1..Len(bundles))
      OBVIOUS
    <2> HIDE DEF now
    <2> QED
      BY <1>a, <1>b, <2>3, <2>4, <2>5, FiledCompletes
  <1>3. ASSUME UNCHANGED bundles PROVE Filed' \in R!Completions
    <2>1. {} \in SUBSET (1..Len(bundles))
      OBVIOUS
    <2> QED
      BY <1>3, <1>a, <1>b, <2>1, FiledCompletes
  \* Steps that record an event.
  <1>4. ASSUME NEW ev \in Events, timeline' = Append(timeline, ev),
               IsBreach(ev) => ev.rule \in Breaches,
               flushed' \in {flushed, Len(timeline), Len(timeline) + 1},
               Filed' \in R!Completions, UNCHANGED disk, pc # "done"
        PROVE  R!Next
    <2>1. Log' = Append(Log, Logged(ev)) /\ Len(Log') = Len(timeline) + 1
      BY <1>4, <1>a, LogGrows
    <2>2. Logged(ev) \in Breaches \cup {"other"}
      BY <1>4 DEF Logged
    <2>3. flushed' \in flushed..Len(Log')
      BY <1>4, <1>a, <1>l, <2>1
    <2>4. UNCHANGED Shown
      BY <1>4 DEF Shown
    <2>5. R!Record
      BY <1>4, <1>e, <2>1, <2>2, <2>3, <2>4 DEF R!Record
    <2> QED
      BY <2>5 DEF R!Next
  <1>5. CASE RecordPlain \/ RecordIncident
    <2>1. /\ out # <<>> /\ timeline' = Append(timeline, Head(out))
          /\ flushed' \in {flushed, Len(timeline), Len(timeline) + 1}
          /\ UNCHANGED <<bundles, disk>> /\ pc # "done"
      BY <1>5 DEF RecordPlain, RecordIncident
    <2>2. Head(out) \in Events /\ Head(out) = out[1] /\ Len(out) > 0
          /\ Len(out) \in Nat
      BY <2>1, <1>a, HeadTailProperties
    <2>3. IsBreach(Head(out)) => Head(out).rule \in Breaches
      BY <2>2 DEF DirInv, BreachKeys
    <2> QED
      BY <2>1, <2>2, <2>3, <1>3, <1>4
  <1>6. CASE Shutdown
    <2> DEFINE ev == Notice(seq + 1, "monitor.stopped")
               ps == WithAfter(pending)
               h == Len(timeline) + 1
    <2>1. ev \in Events /\ ~IsBreach(ev)
      <3>1. seq + 1 \in Nat
        BY DEF TypeOK
      <3> QED
        BY <3>1, NoticeType, NoticeIsNoBreach DEF NoticeRules
    <2>2. /\ timeline' = Append(timeline, ev)
          /\ bundles' = Finalised(ps, session.responses, h)
          /\ flushed' \in {flushed, Len(timeline)} /\ UNCHANGED disk
          /\ pc # "done"
      BY <1>6 DEF Shutdown
    <2>3. /\ ps \in SUBSET Pendings /\ h \in Nat
          /\ \A q \in ps : \E p \in pending :
               q.id = p.id /\ q.trigger = p.trigger /\ q.rule = p.rule
      BY <1>a, <1>l, WithAfterType, WithAfterKeeps DEF SameIncident
    <2> HIDE DEF ev, ps, h
    <2>4. Filed' \in R!Completions
      BY <2>2, <2>3, <1>2
    <2> QED
      BY <2>1, <2>2, <2>4, <1>4
  <1>7. CASE TickFinalise
    <2> DEFINE due == {p \in pending : p.left = 0}
    <2>1. /\ bundles' = Finalised(due, session.responses, Len(timeline))
          /\ UNCHANGED <<timeline, flushed, disk>> /\ pc # "done"
      BY <1>7 DEF TickFinalise
    <2>2. due \in SUBSET Pendings /\ due \subseteq pending
      BY <1>a
    <2> HIDE DEF due
    <2>3. Filed' \in R!Completions
      BY <2>1, <2>2, <1>l, <1>2
    <2>4. UNCHANGED <<Log, Shown>>
      BY <2>1 DEF Log, Shown
    <2>5. R!Complete
      BY <2>1, <2>3, <2>4, <1>e DEF R!Complete
    <2> QED
      BY <2>5 DEF R!Next
  <1>8. CASE WriteBundle
    <2> DEFINE n == Len(timeline)
               ev == timeline[n]
               b == BundleOf(NewPending(ev), session.responses, n, FALSE)
    <2>1. /\ pc = "bundle" /\ UNCHANGED <<timeline, flushed, disk>>
          /\ bundles' = Append(bundles, b)
      BY <1>8 DEF WriteBundle
    <2>2. /\ flushed = n /\ IsBreach(ev)
          /\ \A j \in 1..Len(bundles) : bundles[j].rule # ev.rule
      BY <2>1 DEF IncidentInv, Triggered
    <2>3. n \in 1..n
      <3>1. timeline # <<>>
        BY <2>1 DEF TypeOK
      <3> QED
        BY <3>1, <1>a, EmptySeq
    <2>4. b.rule = ev.rule /\ b.finalized = FALSE
      BY DEF BundleOf, NewPending
    <2>5. Log[n] # "other" /\ Log[n] = ev.rule
      BY <2>2, <2>3, <1>g
    <2> HIDE DEF b, ev
    <2>6. /\ Len(bundles') = Len(bundles) + 1
          /\ \A j \in 1..Len(bundles) : bundles'[j] = bundles[j]
          /\ bundles'[Len(bundles) + 1] = b
      BY <2>1, <1>a
    <2>7. Filed' = Append(Filed, [rule |-> ev.rule, complete |-> FALSE])
      <3> DEFINE m == Len(bundles)
                 e(i) == [rule |-> bundles[i].rule,
                          complete |-> bundles[i].finalized]
                 f(i) == [rule |-> bundles'[i].rule,
                          complete |-> bundles'[i].finalized]
                 x == [rule |-> ev.rule, complete |-> FALSE]
      <3>1. Filed = [i \in 1..m |-> e(i)] /\ Filed' = [i \in 1..(m + 1) |-> f(i)]
        BY <2>6 DEF Filed
      <3>2. (\A i \in 1..m : f(i) = e(i)) /\ f(m + 1) = x /\ m \in Nat
        BY <2>4, <2>6, <1>l
      <3> HIDE DEF m, e, f, x
      <3>3. Filed' = Append(Filed, x)
        BY <3>1, <3>2
      <3> QED
        BY <3>3 DEF x
    <2>8. \A j \in 1..Len(Filed) : Filed[j].rule # Log[n]
      BY <2>2, <2>5, <1>a, <1>l, FiledIs
    <2>9. UNCHANGED <<Log, Shown>>
      BY <2>1 DEF Log, Shown
    <2>10. R!File
      <3>1. n \in 1..flushed
        BY <2>2, <2>3
      <3>2. Filed' = Append(Filed, [rule |-> Log[n], complete |-> FALSE])
        BY <2>5, <2>7
      <3> HIDE DEF n
      <3> QED
        BY <2>1, <2>5, <2>8, <2>9, <3>1, <3>2, <1>e DEF R!File
    <2> QED
      BY <2>10 DEF R!Next
  <1>9. CASE TickFlush \/ EndFlush \/ Crash
    <2>1. /\ UNCHANGED <<timeline, disk, bundles>>
          /\ flushed' \in {flushed, Len(timeline)}
      BY <1>9 DEF TickFlush, EndFlush, Flush, Crash
    <2>2. flushed' \in flushed..Len(Log)
      BY <2>1, <1>a, <1>l
    <2>3. UNCHANGED <<Log, Filed, Shown>>
      BY <2>1 DEF Log, Filed, Shown
    <2>4. R!Persist
      BY <2>2, <2>3 DEF R!Persist
    <2> QED
      BY <2>4 DEF R!Next
  <1>10. CASE TickSave \/ EndSave \/ ControlAct
    <2>1. /\ UNCHANGED <<timeline, flushed, bundles>>
          /\ disk' = {session'}
          /\ pc \in {"save", "endsave", "act"}
          /\ pc = "endsave" => UNCHANGED session
      BY <1>10 DEF TickSave, EndSave, SaveSession, ControlAct
    <2>2. UNCHANGED <<Log, Filed>> /\ Shown' = {Seen(session')}
      BY <2>1 DEF Log, Filed, Shown
    <2>3. session'.status = "red" <=> HasBreach
      <3>1. session'.violations \in Nat
        BY <1>b DEF Sessions
      <3> QED
        BY <3>1, <2>1 DEF StatusInv, StatusOf, HasBreach
    <2>4. HasBreach <=> R!Breached(flushed)
      <3>1. \A i \in 1..flushed : i \in 1..Len(timeline)
        BY <1>a, <1>l
      <3> QED
        BY <3>1, <1>g DEF R!Breached, DirInv, BreachDurable, HasBreach
    <2>5. (\E old \in Shown : old.red) => HasBreach
      BY <1>a, SeenIs DEF Shown, DirInv, RedBacked
    <2>6. session'.ended =>
            /\ flushed = Len(Log)
            /\ \A j \in 1..Len(Filed) : Filed[j].complete
      <3> SUFFICES ASSUME session'.ended
                   PROVE  /\ flushed = Len(Log)
                          /\ \A j \in 1..Len(Filed) : Filed[j].complete
        OBVIOUS
      <3>1. pc = "endsave"
        <4>1. session'.ended = session.ended
          BY <1>10, SessionEffects DEF TickSave, EndSave, SaveSession
        <4> QED
          BY <2>1, <4>1 DEF DirInv, EndsLast
      <3>2. flushed = Len(timeline) /\ pending = {}
        BY <3>1 DEF DirInv, SavesWhole, EndsLast
      <3>3. \A j \in 1..Len(bundles) : bundles[j].finalized
        BY <3>2 DEF DirInv, OpenAreKnown
      <3> QED
        BY <3>2, <3>3, <1>a, <1>l, FiledIs
    <2> DEFINE s == Seen(session')
    <2>7. /\ s \in [red : BOOLEAN, ended : BOOLEAN]
          /\ s.red <=> HasBreach
          /\ s.ended = session'.ended
      BY <1>b, <2>3, SeenIs
    <2> HIDE DEF s
    <2>8. R!Publish(s)
      BY <2>1, <2>2, <2>4, <2>5, <2>6, <2>7, <1>e DEF R!Publish, s
    <2> QED
      BY <2>7, <2>8 DEF R!Next
  <1>11. CASE Second
    <2>1. /\ UNCHANGED <<timeline, flushed, bundles>>
          /\ disk' = {Older(s) : s \in disk}
      BY <1>11 DEF Second
    <2>2. \A s \in disk : Seen(Older(s)) = Seen(s)
      BY <1>a, SeenIs
    <2> HIDE DEF Seen, Older
    <2>3. Shown' = Shown
      BY <2>1, <2>2 DEF Shown
    <2> QED
      BY <2>1, <2>3 DEF R!rvars, Log, Filed
  <1>12. CASE RecordDone \/ EnforceViolation \/ EnforceDegraded \/ CheckStop
              \/ PollOne \/ PollDone \/ ControlRead \/ NoTick \/ Tick
              \/ CheckAlive \/ DrainOne \/ DrainDone
    BY <1>12, <1>1 DEF RecordDone, EnforceViolation, EnforceDegraded,
       CheckStop, PollOne, ReadRing, PollDone, ControlRead, NoTick, Tick,
       CheckAlive, DrainOne, DrainDone
  <1>13. ASSUME NEW o \in Observations, Emit(o) PROVE UNCHANGED R!rvars
    BY <1>13, <1>1 DEF Emit
  <1>14. ASSUME NEW p \in Procs, ProcessExits(p) PROVE UNCHANGED R!rvars
    BY <1>14, <1>1 DEF ProcessExits
  <1>15. ASSUME NEW a \in Actions, Request(a) PROVE UNCHANGED R!rvars
    BY <1>15, <1>1 DEF Request
  <1>16. CASE SensorStops \/ Signal \/ UNCHANGED vars
    BY <1>16, <1>1 DEF SensorStops, Signal, vars
  <1> QED
    BY <1>5, <1>6, <1>7, <1>8, <1>9, <1>10, <1>11, <1>12, <1>13, <1>14, <1>15,
       <1>16 DEF Next, Loop, Finished

(* The monitoring loop implements the recorder: for every policy, agent,   *)
(* operator and schedule, with crashes at every point, the session's       *)
(* directory only ever changes as a flight recorder's may.                 *)
THEOREM MonitorIsRecorder == Spec => IsRecorder
  <1>1. Spec => []DirInv
    BY DirInit, DirStep, IncidentAlways, StatusInit, StatusStep, TypeCorrect,
       PTL DEF Spec
  <1>2. Spec => [][R!Next]_(R!rvars)
    BY <1>1, RefinesStep, IncidentAlways, NoGapInit, NoGapStep, StatusInit,
       StatusStep, TypeCorrect, PTL DEF Spec
  <1> QED
    BY <1>2, RefinesInit, PTL DEF Spec, IsRecorder, R!Spec
============================================================================

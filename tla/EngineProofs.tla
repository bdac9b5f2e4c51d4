---------------------------- MODULE EngineProofs ----------------------------
(***************************************************************************)
(* Proofs about Engine: what process() records of the observations of any  *)
(* number of threads, under any policy and for any order in which they     *)
(* arrive.                                                                 *)
(***************************************************************************)
EXTENDS Engine, SequenceTheorems, FiniteSetTheorems, TLAPS

-----------------------------------------------------------------------------
(* The inductive invariant, part by part.                                  *)

NetworkCategories == {"network", "dns", "metadata"}

Categories == NetworkCategories \cup
  {"process", "filesystem", "escape", "runtime", "credential", "privilege", "tamper",
   "anomaly"}
Notes == {"", "runtime_read", "attributed", "unlisted", "remembered", "benign"}

Decisions == [verdict : Verdicts, category : Categories, note : Notes]

Evs ==
  [call : Nat, tid : Tids, ts : Nat, kind : Kinds \cup Windows, path : Names,
   facts : SUBSET Facts, op : STRING, res : STRING, setup : BOOLEAN,
   hooked : BOOLEAN, verdict : Verdicts, category : Categories, note : Notes, confirms : Nat,
   related : SUBSET Nat]

(* An open, observed or recorded, is one that some call of the agent makes.*)
Known(a, o) ==
  \E s \in Shapes[a] : \E i \in 1..Len(s) :
    s[i].kind = "open" /\ s[i].path = o.path /\ s[i].facts = o.facts

Observed(a, now, made, o) ==
  /\ o \in Observations /\ o.ts <= now /\ o.call <= made
  /\ o.res = "kernel" => o.kind = "open"
  /\ o.kind = "open" => Known(a, o)

InboxOK ==
  /\ agent \in Agents
  /\ clock \in 0..MaxTime[agent] /\ calls \in 0..MaxCalls[agent] /\ drops \in Nat
  /\ inbox \in [Tids -> Seq(Observations)]
  /\ \A t \in Tids : \A i \in 1..Len(inbox[t]) :
       Observed(agent, clock, calls, inbox[t][i])

(* What is recorded of an open is what the policy said of it.              *)
Recorded(a, now, made, e) ==
  /\ e \in Evs /\ e.ts <= now /\ e.call <= made
  /\ e.kind \in Windows => e.verdict = "anomaly" /\ e.note = ""
  /\ e.kind = "open" =>
       /\ Known(a, e) /\ e.verdict \in {"allowed", "violation"}
       /\ e.verdict = "allowed" /\ ~e.setup /\ e.note # "benign" =>
            DecideFile(e.facts, e.op, e.res).verdict = "allowed"

EventsOK ==
  /\ events \in Seq(Evs)
  /\ \A i \in 1..Len(events) : Recorded(agent, clock, calls, events[i])

(* last_open is the record of the thread's latest open.                    *)
OpenOf(evs, t, lo) ==
  /\ \A l, m \in lo : l = m
  /\ \A l \in lo :
       /\ l.seq \in 1..Len(evs)
       /\ evs[l.seq].tid = t /\ evs[l.seq].path = l.path
       /\ evs[l.seq].kind = "open" /\ evs[l.seq].res # "kernel"
       /\ evs[l.seq].verdict = l.verdict

LastOpenOK ==
  /\ lastOpen = [t \in Tids |-> lastOpen[t]]
  /\ \A t \in Tids : OpenOf(events, t, lastOpen[t])

(* The kernel's account o is of the open just recorded, or has no entry.   *)
JustDone(evs, lo, o) ==
  \/ \E l \in lo : evs[l.seq].call = o.call /\ evs[l.seq].setup = o.setup
  \/ ~o.hooked /\ \A l \in lo : evs[l.seq].call < o.call

(* Observation i of the queue follows the entry of its own call.           *)
Follows(q, i) == q[i - 1].call = q[i].call /\ Account(q[i - 1], q[i])

(* Observation i of the queue is the first of its call.                    *)
Begins(evs, lo, q, i) ==
  /\ \A j \in 1..(i - 1) : q[j].call < q[i].call
  /\ \A l \in lo : evs[l.seq].call < q[i].call

(* The observations of a thread are in the order of its calls.             *)
PairedAt(evs, lo, q, i) ==
  /\ q[i].res = "kernel" /\ i > 1 =>
       Follows(q, i) \/ (~q[i].hooked /\ Begins(evs, lo, q, i))
  /\ q[i].res = "kernel" /\ i = 1 => JustDone(evs, lo, q[i])
  /\ q[i].res # "kernel" => Begins(evs, lo, q, i)

Paired(evs, lo, q) == \A i \in 1..Len(q) : PairedAt(evs, lo, q, i)

PairsOK == drops = 0 => \A t \in Tids : Paired(events, lastOpen[t], inbox[t])

(* The history is what is recorded last.                                   *)
Recents ==
  [seq : Nat, ts : Nat, verdict : Verdicts, untrusted : BOOLEAN,
   credential : BOOLEAN, read : BOOLEAN]

HistoryOf(evs, h) ==
  /\ h \in Seq(Recents)
  /\ Len(h) = IF Len(evs) < History THEN Len(evs) ELSE History
  /\ \A i \in 1..Len(h) :
       h[i] = Recent(Len(evs) - Len(h) + i, evs[Len(evs) - Len(h) + i])

HistoryOK == HistoryOf(events, history)

(* The remembered queries are those recorded last.                         *)
Asked(evs) == {j \in 1..Len(evs) : evs[j].note = "remembered"}

QueriesAt(evs, ds, p) ==
  /\ p \in [1..Len(ds) -> Asked(evs)]
  /\ \A i, j \in 1..Len(ds) : i < j => p[i] < p[j]
  /\ \A i \in 1..Len(ds) : ds[i] = evs[p[i]].ts
  /\ \A j \in Asked(evs) :
       (\E i \in 1..Len(ds) : j = p[i]) \/ (Len(ds) = MaxDns /\ j < p[1])

Remembers(evs, ds) ==
  \E p \in [1..Len(ds) -> Asked(evs)] : QueriesAt(evs, ds, p)

DnsOK ==
  /\ dns \in Seq(Nat) /\ Len(dns) <= MaxDns
  /\ Remembers(events, dns)

(* The detector's files are counted and its reports are recorded.          *)
DetectorOf(d) ==
  /\ d = [queue |-> d.queue, counts |-> d.counts, fired |-> d.fired]
  /\ d.queue \in [Windows -> Seq(Entries)]
  /\ d.counts = [x \in Names |-> Occurrences(d.queue["files"], x)]
  /\ Len(d.queue["files"]) <= MaxFiles

DetectorOK ==
  /\ DetectorOf(detector)
  /\ detector.fired \in [Windows -> 0..clock \cup {Never}]
  /\ \A i \in 1..Len(events) : events[i].kind \in Windows =>
       events[i].ts <= detector.fired[events[i].kind]

(* Every open of the latest window is in the detector's window of files.   *)
Opens(evs) ==
  {i \in 1..Len(evs) : /\ evs[i].kind = "open" /\ ~evs[i].setup
                       /\ "runtime_read" \notin evs[i].facts}
Burst(evs) ==
  {i \in Opens(evs) : \A j \in Opens(evs) : evs[i].ts >= evs[j].ts - WindowSecs}

Held(evs, q) ==
  /\ Len(q) <= Cardinality(Opens(evs))
  /\ \A i \in Burst(evs) :
       \E k \in 1..Len(q) : q[k] = [ts |-> evs[i].ts, name |-> evs[i].path]

BurstOK ==
  AnomalyEnabled /\ Cardinality(Opens(events)) <= MaxFiles =>
    Held(events, detector.queue["files"])

SilencedOK == \A s \in silenced : s.of.kind = "open"

Inv == /\ InboxOK /\ EventsOK /\ LastOpenOK /\ PairsOK /\ HistoryOK /\ DnsOK
       /\ DetectorOK /\ BurstOK /\ SilencedOK

-----------------------------------------------------------------------------
(* Decisions.                                                              *)

LEMMA FileDecision ==
  ASSUME NEW f, NEW a, NEW r
  PROVE  /\ DecideFile(f, a, r) \in Decisions
         /\ DecideFile(f, a, r).verdict \in {"allowed", "violation"}
         /\ DecideFile(f, a, r).category \notin NetworkCategories
         /\ DecideFile(f, a, r).note \in {"", "runtime_read"}
  BY DEF DecideFile, Allow, Violate, AllowIf, Decision, Decisions, Verdicts,
         NetworkCategories, Categories, Notes

LEMMA MutationDecision ==
  ASSUME NEW f
  PROVE  /\ DecideMutation(f) \in Decisions
         /\ DecideMutation(f).note \in {"", "runtime_read"}
<1> DEFINE d == DecideFile(f, "write", "lexical")
<1>1. d \in Decisions /\ d.note \in {"", "runtime_read"} BY FileDecision
<1>2. DecideMutation(f) = IF d.verdict = "violation" THEN d ELSE Allow("filesystem")
  BY DEF DecideMutation
<1> HIDE DEF d
<1>3. Allow("filesystem") \in Decisions /\ Allow("filesystem").note = ""
  BY DEF Allow, Decision, Decisions, Verdicts, NetworkCategories, Categories, Notes
<1> QED BY <1>1, <1>2, <1>3

LEMMA ExecDecision ==
  ASSUME NEW o
  PROVE  DecideExec(o) \in Decisions /\ DecideExec(o).note = ""
  BY DEF DecideExec, Allow, Violate, AllowIf, Decision, Decisions, Verdicts,
         NetworkCategories, Categories, Notes

LEMMA NetDecision ==
  ASSUME NEW o
  PROVE  /\ DecideNet(o) \in Decisions
         /\ DecideNet(o).note \in {"", "attributed", "unlisted"}
         /\ DecideNet(o).note = "attributed" => Attributed(o.ts)
         /\ DecideNet(o).note = "unlisted" => ~Attributed(o.ts)
  BY DEF DecideNet, Allow, Violate, AllowIf, Decision, Decisions, Verdicts,
         NetworkCategories, Categories, Notes

LEMMA DnsDecision ==
  ASSUME NEW o
  PROVE  DecideDns(o) \in Decisions /\ DecideDns(o).note \in {"", "remembered"}
  BY DEF DecideDns, Allow, Violate, AllowIf, Decision, Decisions, Verdicts,
         NetworkCategories, Categories, Notes

(* The notes of decide(): a connection is said to be attributed or         *)
(* unlisted according to what is remembered.                               *)
LEMMA Decided ==
  ASSUME NEW o
  PROVE  /\ Decide(o) \in Decisions
         /\ Decide(o).note \in {"attributed", "unlisted"} =>
              (Decide(o).note = "attributed" <=> Attributed(o.ts))
<1> DEFINE Good(d) == d \in Decisions /\ d.note \in {"", "runtime_read", "remembered"}
<1>1. /\ Good(Allow("process")) /\ Good(Allow("privilege")) /\ Good(Violate("privilege"))
      /\ Good(Decision("anomaly", "privilege", "")) /\ Good(Violate("tamper"))
      /\ Good(Decision("anomaly", "process", "")) /\ Good(Allow("runtime"))
      /\ Good(Violate("runtime"))
  BY DEF Allow, Violate, Decision, Decisions, Verdicts, NetworkCategories, Categories,
         Notes
<1>2. Good(DecideExec(o)) /\ Good(DecideDns(o)) BY ExecDecision, DnsDecision
<1>3. \A f : Good(DecideMutation(f)) BY MutationDecision
<1>4. \A f, a, r : Good(DecideFile(f, a, r)) BY FileDecision
<1>5. o.kind # "net" => Good(Decide(o))
  <2> HIDE DEF Good
  <2> SUFFICES ASSUME o.kind # "net", ~o.setup PROVE Good(Decide(o))
    BY <1>1 DEF Decide
  <2>1. CASE o.kind \in {"exec", "open", "unlink", "dns"}
    BY <2>1, <1>2, <1>3, <1>4 DEF Decide
  <2>2. CASE o.kind = "rename" BY <2>2, <1>3 DEF Decide
  <2>3. CASE o.kind = "chmod" BY <2>3, <1>1, <1>3 DEF Decide
  <2>4. CASE o.kind = "unix" BY <2>4, <1>1 DEF Decide, AllowIf
  <2>5. CASE o.kind \in {"privileged", "capset"} BY <2>5, <1>1 DEF Decide, Privileged
  <2>6. CASE o.kind = "kill" BY <2>6, <1>1 DEF Decide
  <2>7. CASE o.kind \notin {"exec", "open", "unlink", "dns", "rename", "chmod", "unix",
                            "privileged", "capset", "kill"}
    BY <2>7, <1>1 DEF Decide
  <2> QED BY <2>1, <2>2, <2>3, <2>4, <2>5, <2>6, <2>7
<1>6. ASSUME o.kind = "net"
      PROVE  Decide(o) = Allow("process") \/ Decide(o) = DecideNet(o)
  BY <1>6 DEF Decide
<1> QED
  <2>1. CASE o.kind # "net" BY <2>1, <1>5
  <2>2. CASE o.kind = "net" /\ Decide(o) = DecideNet(o) BY <2>2, NetDecision
  <2>3. CASE o.kind = "net" /\ Decide(o) = Allow("process") BY <1>1, <2>3
  <2> QED BY <2>1, <2>2, <2>3, <1>6

(* What is made of an open.                                                *)
LEMMA OpenJudged ==
  ASSUME NEW o, o.kind = "open"
  PROVE  /\ Judged(o).verdict \in {"allowed", "violation"}
         /\ Judged(o).category \notin NetworkCategories
         /\ Judged(o).verdict = "allowed" /\ ~o.setup /\ Judged(o).note # "benign" =>
              DecideFile(o.facts, o.op, o.res).verdict = "allowed"
         /\ o.outcome \notin {"failed", "enoent"} => Judged(o).note # "benign"
<1> DEFINE d == DecideFile(o.facts, o.op, o.res)
<1>1. /\ d.verdict \in {"allowed", "violation"} /\ d.category \notin NetworkCategories
      /\ d.note \in {"", "runtime_read"}
  BY FileDecision
<1>2. Decide(o) = IF o.setup THEN Allow("process") ELSE d BY DEF Decide
<1> HIDE DEF d
<1>3. Judged(o) = Decision("allowed", "filesystem", "benign") \/ Judged(o) = Decide(o)
  BY DEF Judged
<1>4. o.outcome \notin {"failed", "enoent"} => Judged(o) = Decide(o) BY DEF Judged
<1>5. /\ Decision("allowed", "filesystem", "benign").verdict = "allowed"
      /\ Decision("allowed", "filesystem", "benign").category = "filesystem"
      /\ Decision("allowed", "filesystem", "benign").note = "benign"
      /\ Allow("process").verdict = "allowed" /\ Allow("process").category = "process"
      /\ Allow("process").note = ""
  BY DEF Allow, Decision
<1>6. /\ Decide(o).verdict \in {"allowed", "violation"}
      /\ Decide(o).category \notin NetworkCategories
      /\ Decide(o).note # "benign" /\ (~o.setup => Decide(o) = d)
  BY <1>1, <1>2, <1>5 DEF NetworkCategories
<1> QED BY <1>3, <1>4, <1>5, <1>6 DEF d, NetworkCategories

LEMMA JudgedWell ==
  ASSUME NEW o
  PROVE  /\ Judged(o) \in Decisions
         /\ Judged(o).note \in {"attributed", "unlisted"} =>
              (Judged(o).note = "attributed" <=> Attributed(o.ts))
<1> DEFINE b == Decision("allowed", "filesystem", "benign")
<1>1. b \in Decisions /\ b.note = "benign" BY DEF Decision, Decisions, Verdicts,
         NetworkCategories, Categories, Notes
<1>2. Judged(o) = b \/ Judged(o) = Decide(o) BY DEF Judged
<1> HIDE DEF b
<1> QED BY <1>1, <1>2, Decided

(* When a file's access is allowed.                                        *)
Refuses(f, r) ==
  \/ "escape" \in f \/ ("escape_proc" \in f /\ ProcRule(f, r))
  \/ "runtime_socket" \in f /\ "runtime" \in Denied
  \/ /\ "credentials" \in Denied /\ "credential_allow" \notin f
     /\ "credential" \in f \/ ("credential_proc" \in f /\ ProcRule(f, r))
  \/ "deny" \in f

Permits(f, a) ==
  IF a = "write" THEN "write" \in f \/ "runtime_write" \in f
  ELSE "read" \in f \/ (WindowsHost /\ "ancestor" \in f) \/ "runtime_read" \in f

LEMMA FileAllowed ==
  ASSUME NEW f, NEW a, NEW r
  PROVE  DecideFile(f, a, r).verdict = "allowed" <=>
           \/ "unresolved" \in Compiled(f)
           \/ ~Refuses(Compiled(f), r) /\ Permits(Compiled(f), a)
<1>1. /\ \A c : Allow(c).verdict = "allowed" /\ Violate(c).verdict = "violation"
      /\ Decision("allowed", "filesystem", "runtime_read").verdict = "allowed"
  BY DEF Allow, Violate, Decision
<1>2. CASE "unresolved" \in Compiled(f) BY <1>1, <1>2 DEF DecideFile
<1>3. CASE "unresolved" \notin Compiled(f) /\ Refuses(Compiled(f), r)
  BY <1>1, <1>3 DEF DecideFile, Refuses
<1>4. CASE "unresolved" \notin Compiled(f) /\ ~Refuses(Compiled(f), r) /\ a = "write"
  BY <1>1, <1>4 DEF DecideFile, Refuses, Permits, AllowIf
<1>5. CASE "unresolved" \notin Compiled(f) /\ ~Refuses(Compiled(f), r) /\ a # "write"
  BY <1>1, <1>5 DEF DecideFile, Refuses, Permits
<1> QED BY <1>2, <1>3, <1>4, <1>5

(* What the policy allows of a path as it was named, it allows of the file *)
(* that the kernel opened there; what may be written may be read, devices  *)
(* excepted.                                                               *)
LEMMA AllowedByKernel ==
  ASSUME NEW f \in SUBSET Facts, NEW g \in SUBSET Facts, NEW a, NEW b, NEW r,
         r # "kernel", f \ {"other_proc"} = g \ {"other_proc"},
         DecideFile(f, a, r).verdict = "allowed",
         b = "write" => a = "write",
         a # "write" \/ b = "write" \/ "runtime_write" \notin g
  PROVE  DecideFile(g, b, "kernel").verdict = "allowed"
<1>1. \A x : x # "other_proc" => (x \in f <=> x \in g) OBVIOUS
<1>2. \A x \in {"read", "write"} : x \in Compiled(f) <=> x \in Compiled(g)
  BY <1>1 DEF Compiled
<1>3. \A x : x \notin {"read", "write", "other_proc"} =>
        (x \in Compiled(f) <=> x \in Compiled(g))
  BY <1>1 DEF Compiled
<1>4. "write" \in Compiled(g) => "read" \in Compiled(g)
  <2>1. "write" \notin g BY DEF Facts
  <2> QED BY <2>1 DEF Compiled
<1>5. "runtime_write" \in Compiled(g) => "runtime_write" \in g BY DEF Compiled
<1>6. CASE "unresolved" \in Compiled(f) BY <1>3, <1>6, FileAllowed
<1>7. CASE ~Refuses(Compiled(f), r) /\ Permits(Compiled(f), a)
  <2>1. ~Refuses(Compiled(g), "kernel")
    BY <1>3, <1>7 DEF Refuses, ProcRule
  <2>2. Permits(Compiled(g), b) BY <1>2, <1>3, <1>4, <1>5, <1>7 DEF Permits
  <2> QED BY <2>1, <2>2, FileAllowed
<1> QED BY <1>6, <1>7, FileAllowed

-----------------------------------------------------------------------------
(* What Process makes of the next observation of thread t: the event, the  *)
(* event with its links, the history with it, and the report of an anomaly.*)

Coming(t) == Head(inbox[t])
Own(t) == LastOpen(Coming(t), t)
Event(t) ==
  EventOf(Coming(t), t, Judged(Coming(t)),
          IF Own(t) = {} THEN 0 ELSE (CHOOSE l \in Own(t) : TRUE).seq)
Linked(t) ==
  IF Event(t).verdict = "violation" /\ Own(t) = {}
  THEN [Event(t) EXCEPT !.related = Correlate(history, Event(t))] ELSE Event(t)
Remembered(t) == Remember(history, Recent(Len(events) + 1, Linked(t)))
Window(t) == WindowOf(Coming(t))
Seen(t) == Observe(detector, Window(t), Coming(t).path, Coming(t).ts)
Reports(t) == Window(t) # "none" /\ Seen(t).report
Report(t) == AnomalyOf(Event(t), Window(t))
LinkedReport(t) == [Report(t) EXCEPT !.related = Correlate(Remembered(t), Report(t))]

LEMMA ProcessDoes ==
  ASSUME NEW t \in Tids, Process(t)
  PROVE  /\ inbox[t] # <<>> /\ \A l \in Own(t) : l.verdict # "allowed"
         /\ lastOpen' = [lastOpen EXCEPT ![t] =
              IF Coming(t).kind = "open" /\ Coming(t).res # "kernel"
              THEN {[path |-> Coming(t).path, seq |-> Len(events) + 1,
                     verdict |-> Event(t).verdict]}
              ELSE IF Coming(t).kind = "exit" THEN {} ELSE lastOpen[t]]
         /\ dns' = IF Judged(Coming(t)).note # "remembered" THEN dns
                   ELSE IF Len(dns) < MaxDns THEN Append(dns, Coming(t).ts)
                   ELSE Append(Tail(dns), Coming(t).ts)
         /\ IF Reports(t)
            THEN /\ events' = events \o <<Linked(t), LinkedReport(t)>>
                 /\ history' = Remember(Remembered(t), Recent(Len(events) + 2, Report(t)))
            ELSE events' = Append(events, Linked(t)) /\ history' = Remembered(t)
         /\ detector' = IF Window(t) = "none" THEN detector ELSE Seen(t).detector
         /\ inbox' = [inbox EXCEPT ![t] = Tail(inbox[t])]
         /\ agent' = agent /\ clock' = clock /\ calls' = calls /\ drops' = drops
         /\ silenced' = silenced
<1>1. Len(events) + 1 + 1 = Len(events) + 2 OBVIOUS
<1> QED
  BY <1>1 DEF Process, Own, Event, Linked, Remembered, Window, Seen, Reports, Report,
              LinkedReport, Coming

LEMMA EventFields ==
  ASSUME NEW t \in Tids
  PROVE  /\ Event(t) = EventOf(Coming(t), t, Judged(Coming(t)), Event(t).confirms)
         /\ Event(t).confirms = IF Own(t) = {} THEN 0 ELSE (CHOOSE l \in Own(t) : TRUE).seq
         /\ Linked(t).call = Coming(t).call /\ Linked(t).tid = t
         /\ Linked(t).ts = Coming(t).ts /\ Linked(t).kind = Coming(t).kind
         /\ Linked(t).path = Coming(t).path /\ Linked(t).facts = Coming(t).facts
         /\ Linked(t).op = Coming(t).op /\ Linked(t).res = Coming(t).res
         /\ Linked(t).setup = Coming(t).setup /\ Linked(t).hooked = Coming(t).hooked
         /\ Linked(t).verdict = Judged(Coming(t)).verdict
         /\ Linked(t).category = Judged(Coming(t)).category
         /\ Linked(t).note = Judged(Coming(t)).note
         /\ Linked(t).confirms = Event(t).confirms
         /\ Linked(t).related =
              IF Event(t).verdict = "violation" /\ Own(t) = {}
              THEN Correlate(history, Event(t)) ELSE {}
         /\ DOMAIN Linked(t) = {"call", "tid", "ts", "kind", "path", "facts", "op", "res",
              "setup", "hooked", "verdict", "category", "note", "confirms", "related"}
<1> DEFINE c == IF Own(t) = {} THEN 0 ELSE (CHOOSE l \in Own(t) : TRUE).seq
           o == Coming(t)
           d == Judged(Coming(t))
           x == Correlate(history, Event(t))
<1>1. Event(t) = EventOf(o, t, d, c) BY DEF Event
<1>2. Linked(t) = IF Event(t).verdict = "violation" /\ Own(t) = {}
                  THEN [Event(t) EXCEPT !.related = x] ELSE Event(t)
  BY DEF Linked
<1> HIDE DEF c, o, d, x
<1> QED BY <1>1, <1>2 DEF EventOf, c, o, d, x

LEMMA ReportFields ==
  ASSUME NEW t \in Tids
  PROVE  /\ LinkedReport(t).call = Coming(t).call /\ LinkedReport(t).tid = t
         /\ LinkedReport(t).ts = Coming(t).ts /\ LinkedReport(t).kind = Window(t)
         /\ LinkedReport(t).path = Coming(t).path /\ LinkedReport(t).facts = {}
         /\ LinkedReport(t).op = Coming(t).op /\ LinkedReport(t).res = Coming(t).res
         /\ LinkedReport(t).setup = Coming(t).setup
         /\ LinkedReport(t).hooked = Coming(t).hooked
         /\ LinkedReport(t).verdict = "anomaly" /\ LinkedReport(t).category = "anomaly"
         /\ LinkedReport(t).note = "" /\ LinkedReport(t).confirms = 0
         /\ LinkedReport(t).related = Correlate(Remembered(t), Report(t))
         /\ DOMAIN LinkedReport(t) =
              {"call", "tid", "ts", "kind", "path", "facts", "op", "res", "setup",
               "hooked", "verdict", "category", "note", "confirms", "related"}
         /\ Report(t).ts = Coming(t).ts /\ Report(t).verdict = "anomaly"
         /\ \A n : Recent(n, Report(t)) = Recent(n, LinkedReport(t))
<1> DEFINE x == Correlate(Remembered(t), Report(t))
           c == Event(t).confirms
           o == Coming(t)
           d == Judged(Coming(t))
<1>1. Event(t) = EventOf(o, t, d, c) BY EventFields
<1>2. Report(t) = AnomalyOf(Event(t), Window(t)) BY DEF Report
<1>3. LinkedReport(t) = [Report(t) EXCEPT !.related = x] BY DEF LinkedReport
<1> HIDE DEF x, c, o, d
<1>4. /\ Report(t).call = o.call /\ Report(t).tid = t /\ Report(t).ts = o.ts
      /\ Report(t).kind = Window(t) /\ Report(t).path = o.path /\ Report(t).facts = {}
      /\ Report(t).op = o.op /\ Report(t).res = o.res /\ Report(t).setup = o.setup
      /\ Report(t).hooked = o.hooked
      /\ Report(t).verdict = "anomaly" /\ Report(t).category = "anomaly"
      /\ Report(t).note = "" /\ Report(t).confirms = 0
      /\ DOMAIN Report(t) =
           {"call", "tid", "ts", "kind", "path", "facts", "op", "res", "setup",
            "hooked", "verdict", "category", "note", "confirms", "related"}
  BY <1>1, <1>2 DEF AnomalyOf, EventOf
<1>5. /\ LinkedReport(t).related = x /\ DOMAIN LinkedReport(t) = DOMAIN Report(t)
      /\ \A f \in DOMAIN Report(t) \ {"related"} : LinkedReport(t)[f] = Report(t)[f]
  BY <1>3, <1>4
<1>6. \A n : Recent(n, Report(t)) = Recent(n, LinkedReport(t)) BY <1>4, <1>5 DEF Recent
<1> QED BY <1>4, <1>5, <1>6 DEF o, x

(* The fields most steps are about.                                        *)
LEMMA LinkedIs ==
  ASSUME NEW t \in Tids
  PROVE  /\ Linked(t).call = Coming(t).call /\ Linked(t).tid = t
         /\ Linked(t).ts = Coming(t).ts /\ Linked(t).kind = Coming(t).kind
         /\ Linked(t).path = Coming(t).path /\ Linked(t).facts = Coming(t).facts
         /\ Linked(t).res = Coming(t).res /\ Linked(t).setup = Coming(t).setup
         /\ Linked(t).verdict = Judged(Coming(t)).verdict
         /\ Linked(t).note = Judged(Coming(t)).note
  BY EventFields, Zenon

LEMMA ReportIs ==
  ASSUME NEW t \in Tids
  PROVE  /\ LinkedReport(t).ts = Report(t).ts /\ LinkedReport(t).kind = Window(t)
         /\ LinkedReport(t).verdict = "anomaly"
         /\ LinkedReport(t).note = "" /\ LinkedReport(t).confirms = 0
         /\ LinkedReport(t).related = Correlate(Remembered(t), Report(t))
<1>1. LinkedReport(t).ts = Coming(t).ts /\ Report(t).ts = Coming(t).ts BY ReportFields, Zenon
<1>2. LinkedReport(t).related = Correlate(Remembered(t), Report(t)) BY ReportFields, Zenon
<1>3. LinkedReport(t).kind = Window(t) /\ LinkedReport(t).verdict = "anomaly"
  BY ReportFields, Zenon
<1>4. LinkedReport(t).note = "" /\ LinkedReport(t).confirms = 0 BY ReportFields, Zenon
<1> QED BY <1>1, <1>2, <1>3, <1>4, Zenon

(* The next observation, when there is one.                                *)
LEMMA ComingOK ==
  ASSUME NEW t \in Tids, InboxOK, inbox[t] # <<>>
  PROVE  /\ Coming(t) = inbox[t][1] /\ Observed(agent, clock, calls, Coming(t))
         /\ inbox[t] \in Seq(Observations) /\ Len(inbox[t]) \in Nat \ {0}
         /\ Tail(inbox[t]) \in Seq(Observations) /\ Len(Tail(inbox[t])) = Len(inbox[t]) - 1
         /\ \A i \in 1..(Len(inbox[t]) - 1) : Tail(inbox[t])[i] = inbox[t][i + 1]
<1>1. inbox[t] \in Seq(Observations) BY DEF InboxOK
<1>2. Len(inbox[t]) \in Nat \ {0} /\ Coming(t) = inbox[t][1]
  BY <1>1 DEF Coming
<1>3. Observed(agent, clock, calls, inbox[t][1]) BY <1>2 DEF InboxOK
<1> QED BY <1>1, <1>2, <1>3, HeadTailProperties

LEMMA Windowed ==
  ASSUME NEW o, WindowOf(o) # "none"
  PROVE  WindowOf(o) \in Windows /\ AnomalyEnabled /\ ~o.setup
         /\ (WindowOf(o) = "files" => o.kind = "open" /\ "runtime_read" \notin o.facts)
  BY DEF WindowOf, Windows

(* What correlate() links is in the history and recent.                    *)
LEMMA Correlated ==
  ASSUME NEW h \in Seq(Recents), NEW ev, NEW s \in Correlate(h, ev)
  PROVE  \E i \in 1..Len(h) : s = h[i].seq /\ h[i].ts >= ev.ts - CorrelationSecs
<1> DEFINE all == {h[i] : i \in 1..Len(h)}
           recent == {r \in all : r.ts >= ev.ts - CorrelationSecs}
<1>1. PICK r \in recent : s = r.seq BY DEF Correlate, Latest, Earliest
<1> QED BY <1>1

LEMMA CredentialsCorrelated ==
  ASSUME NEW h \in Seq(Recents), NEW ev, ev.category \in NetworkCategories,
         NEW i \in 1..Len(h), h[i].ts >= ev.ts - CorrelationSecs, h[i].credential
  PROVE  h[i].seq \in Correlate(h, ev)
  BY DEF Correlate, NetworkCategories

LEMMA Remembering ==
  ASSUME NEW h \in Seq(Recents), NEW r \in Recents
  PROVE  /\ Remember(h, r) \in Seq(Recents)
         /\ Len(h) < History =>
              /\ Len(Remember(h, r)) = Len(h) + 1 /\ Remember(h, r)[Len(h) + 1] = r
              /\ \A i \in 1..Len(h) : Remember(h, r)[i] = h[i]
         /\ Len(h) = History =>
              /\ Len(Remember(h, r)) = History /\ Remember(h, r)[History] = r
              /\ \A i \in 1..(History - 1) : Remember(h, r)[i] = h[i + 1]
<1> DEFINE g == Append(h, r)
<1>1. /\ g \in Seq(Recents) /\ Len(g) = Len(h) + 1 /\ g[Len(h) + 1] = r
      /\ \A i \in 1..Len(h) : g[i] = h[i]
  BY AppendProperties
<1>2. Remember(h, r) = IF Len(g) > History THEN Tail(g) ELSE g BY DEF Remember
<1> HIDE DEF g
<1>3. /\ Tail(g) \in Seq(Recents) /\ Len(Tail(g)) = Len(g) - 1
      /\ \A i \in 1..(Len(g) - 1) : Tail(g)[i] = g[i + 1]
  BY <1>1, HeadTailProperties
<1>4. History \in Nat \ {0} BY EngineBounds
<1>5. CASE Len(h) < History BY <1>1, <1>2, <1>4, <1>5
<1>6. CASE Len(h) = History
  <2>1. Remember(h, r) = Tail(g) BY <1>1, <1>2, <1>4, <1>6
  <2> QED BY <2>1, <1>1, <1>3, <1>4, <1>6
<1>7. CASE Len(h) > History BY <1>1, <1>2, <1>3, <1>4, <1>7
<1> QED BY <1>5, <1>6, <1>7, <1>4

LEMMA RecentOK ==
  ASSUME NEW n \in Nat, NEW e \in Evs
  PROVE  /\ Recent(n, e) \in Recents
         /\ Recent(n, e).seq = n /\ Recent(n, e).ts = e.ts
         /\ Recent(n, e).credential = (e.category = "credential")
  BY DEF Recent, Recents, Evs

LEMMA HistoryGrows ==
  ASSUME NEW evs \in Seq(Evs), NEW e \in Evs, NEW h, HistoryOf(evs, h)
  PROVE  HistoryOf(Append(evs, e), Remember(h, Recent(Len(evs) + 1, e)))
<1> DEFINE n == Len(evs)
           r == Recent(n + 1, e)
           g == Remember(h, r)
           longer == Append(evs, e)
<1>1. /\ longer \in Seq(Evs) /\ Len(longer) = n + 1 /\ longer[n + 1] = e
      /\ \A i \in 1..n : longer[i] = evs[i]
  BY AppendProperties
<1>2. n \in Nat /\ History \in Nat \ {0} BY EngineBounds
<1>3. r \in Recents BY <1>2, RecentOK
<1>4. h \in Seq(Recents) /\ Len(h) = IF n < History THEN n ELSE History
  BY DEF HistoryOf
<1>5. \A i \in 1..Len(h) : h[i] = Recent(n - Len(h) + i, evs[n - Len(h) + i])
  BY DEF HistoryOf
<1> HIDE DEF longer, n
<1>6. CASE Len(h) < History
  <2>1. Len(h) = n BY <1>4, <1>2, <1>6
  <2> HIDE DEF r
  <2>2. /\ g \in Seq(Recents) /\ Len(g) = n + 1 /\ g[n + 1] = r
        /\ \A i \in 1..n : g[i] = h[i]
    BY <1>3, <1>4, <1>6, <2>1, Remembering
  <2> HIDE DEF g
  <2>3. Len(g) = IF Len(longer) < History THEN Len(longer) ELSE History
    BY <1>1, <1>2, <1>6, <2>1, <2>2
  <2>4. ASSUME NEW i \in 1..Len(g)
        PROVE  g[i] = Recent(Len(longer) - Len(g) + i, longer[Len(longer) - Len(g) + i])
    <3>1. Len(longer) - Len(g) + i = i BY <1>1, <1>2, <2>2
    <3>2. CASE i = n + 1 BY <3>1, <3>2, <1>1, <2>2 DEF r
    <3>3. CASE i \in 1..n
      <4>1. n - Len(h) + i = i BY <1>2, <2>1, <3>3
      <4>2. h[i] = Recent(i, evs[i]) BY <4>1, <2>1, <1>5, <3>3
      <4> QED BY <4>2, <3>1, <3>3, <1>1, <2>2
    <3> QED BY <3>2, <3>3, <2>2, <1>2
  <2> QED BY <2>2, <2>3, <2>4 DEF HistoryOf, g, n, longer, r
<1>7. CASE Len(h) = History
  <2>1. n >= History BY <1>4, <1>2, <1>7
  <2> HIDE DEF r
  <2>2. /\ g \in Seq(Recents) /\ Len(g) = History /\ g[History] = r
        /\ \A i \in 1..(History - 1) : g[i] = h[i + 1]
    BY <1>3, <1>4, <1>7, Remembering
  <2> HIDE DEF g
  <2>3. Len(g) = IF Len(longer) < History THEN Len(longer) ELSE History
    BY <1>1, <1>2, <2>1, <2>2
  <2>4. ASSUME NEW i \in 1..Len(g)
        PROVE  g[i] = Recent(Len(longer) - Len(g) + i, longer[Len(longer) - Len(g) + i])
    <3>1. Len(longer) - Len(g) + i = n - History + (i + 1) BY <1>1, <1>2, <2>2
    <3>2. CASE i = History
      <4>1. n - History + (i + 1) = n + 1 BY <3>2, <1>2
      <4> QED BY <3>1, <3>2, <4>1, <1>1, <2>2 DEF r
    <3>3. CASE i \in 1..(History - 1)
      <4>1. i + 1 \in 1..Len(h) /\ n - History + (i + 1) \in 1..n
        BY <1>2, <1>7, <2>1, <3>3
      <4>2. h[i + 1] = Recent(n - History + (i + 1), evs[n - History + (i + 1)])
        BY <4>1, <1>7, <1>5
      <4> QED BY <4>1, <4>2, <3>1, <3>3, <1>1, <2>2
    <3> QED BY <3>2, <3>3, <2>2, <1>2
  <2> QED BY <2>2, <2>3, <2>4 DEF HistoryOf, g, n, longer, r
<1> QED BY <1>4, <1>2, <1>6, <1>7

LEMMA CorrelateType ==
  ASSUME NEW h \in Seq(Recents), NEW ev
  PROVE  Correlate(h, ev) \in SUBSET Nat
<1>1. ASSUME NEW s \in Correlate(h, ev) PROVE s \in Nat
  <2>1. PICK i \in 1..Len(h) : s = h[i].seq BY Correlated
  <2>2. h[i] \in Recents OBVIOUS
  <2> QED BY <2>1, <2>2 DEF Recents
<1> QED BY <1>1

LEMMA EventOK ==
  ASSUME NEW t \in Tids, InboxOK, LastOpenOK, inbox[t] # <<>>
  PROVE  Event(t) \in Evs
<1> DEFINE o == Coming(t)
           d == Judged(o)
           c == Event(t).confirms
<1>1. Event(t) = EventOf(o, t, d, c) BY EventFields
<1>2. o \in Observations BY ComingOK DEF Observed
<1>3. d \in Decisions BY JudgedWell
<1>4. c \in Nat
  <2>1. CASE Own(t) = {} BY <2>1, EventFields
  <2>2. CASE Own(t) # {}
    <3> DEFINE l == CHOOSE l \in Own(t) : TRUE
    <3>1. l \in Own(t) BY <2>2
    <3>2. Own(t) \subseteq lastOpen[t] BY DEF Own, LastOpen
    <3>3. c = l.seq BY <2>2, EventFields
    <3> HIDE DEF l
    <3>4. l.seq \in 1..Len(events) BY <3>1, <3>2 DEF LastOpenOK, OpenOf
    <3> QED BY <3>3, <3>4
  <2> QED BY <2>1, <2>2
<1> HIDE DEF o, d, c
<1> QED BY <1>1, <1>2, <1>3, <1>4 DEF EventOf, Evs, Observations, Decisions

LEMMA LinkedOK ==
  ASSUME NEW t \in Tids, InboxOK, LastOpenOK, HistoryOK, inbox[t] # <<>>
  PROVE  Linked(t) \in Evs /\ Recorded(agent, clock, calls, Linked(t))
<1> DEFINE x == Correlate(history, Event(t))
           o == Coming(t)
<1>1. Event(t) \in Evs BY EventOK
<1>2. x \in SUBSET Nat BY CorrelateType DEF HistoryOK, HistoryOf
<1>3. Linked(t) = [Event(t) EXCEPT !.related = x] \/ Linked(t) = Event(t) BY DEF Linked
<1> HIDE DEF x
<1>4. Linked(t) \in Evs BY <1>1, <1>2, <1>3 DEF Evs
<1>5. Observed(agent, clock, calls, o) BY ComingOK
<1>6. o.kind \in Kinds BY <1>5 DEF Observed, Observations
<1>7. Linked(t).ts <= clock /\ Linked(t).call <= calls /\ Linked(t).kind \notin Windows
  BY <1>5, <1>6, EventFields DEF Observed, Kinds, Windows
<1>8. ASSUME Linked(t).kind = "open"
      PROVE  /\ Known(agent, Linked(t)) /\ Linked(t).verdict \in {"allowed", "violation"}
             /\ Linked(t).verdict = "allowed" /\ ~Linked(t).setup
                /\ Linked(t).note # "benign" =>
                  DecideFile(Linked(t).facts, Linked(t).op, Linked(t).res).verdict
                    = "allowed"
  <2>1. o.kind = "open" BY <1>8, EventFields
  <2>2. Known(agent, o) BY <2>1, <1>5 DEF Observed
  <2>3. Linked(t).path = o.path /\ Linked(t).facts = o.facts BY EventFields
  <2>4. Known(agent, Linked(t)) BY <2>2, <2>3 DEF Known
  <2> QED BY <2>1, <2>4, OpenJudged, EventFields
<1> QED BY <1>4, <1>7, <1>8 DEF Recorded

LEMMA RememberedOK ==
  ASSUME NEW t \in Tids, InboxOK, EventsOK, LastOpenOK, HistoryOK, inbox[t] # <<>>
  PROVE  HistoryOf(Append(events, Linked(t)), Remembered(t))
<1>1. Linked(t) \in Evs BY LinkedOK
<1> QED BY <1>1, HistoryGrows DEF EventsOK, HistoryOK, Remembered

LEMMA ReportOK ==
  ASSUME NEW t \in Tids, InboxOK, EventsOK, LastOpenOK, HistoryOK, inbox[t] # <<>>,
         Reports(t)
  PROVE  LinkedReport(t) \in Evs /\ Recorded(agent, clock, calls, LinkedReport(t))
<1> DEFINE x == Correlate(Remembered(t), Report(t))
           e == Event(t)
           w == Window(t)
           o == Coming(t)
<1>1. e \in Evs BY EventOK
<1>2. x \in SUBSET Nat BY RememberedOK, CorrelateType DEF HistoryOf
<1>3. w \in Windows BY Windowed DEF Reports, Window
<1>4. LinkedReport(t) = [AnomalyOf(e, w) EXCEPT !.related = x] BY DEF LinkedReport, Report
<1> HIDE DEF x, e, w
<1>5. AnomalyOf(e, w) \in Evs
  BY <1>1, <1>3 DEF AnomalyOf, Evs, Verdicts, Categories, Notes
<1>6. LinkedReport(t) \in Evs BY <1>2, <1>4, <1>5 DEF Evs
<1>7. Observed(agent, clock, calls, o) BY ComingOK
<1>8. LinkedReport(t).ts <= clock /\ LinkedReport(t).call <= calls
  BY <1>7, ReportFields DEF Observed
<1>9. LinkedReport(t).kind # "open" BY <1>3, ReportFields DEF Windows, w
<1> QED BY <1>6, <1>8, <1>9, ReportFields DEF Recorded

(* The record after an observation: one event more, or two.                *)
LEMMA EventsGrow ==
  ASSUME NEW t \in Tids, InboxOK, EventsOK, LastOpenOK, HistoryOK, Process(t)
  PROVE  /\ events' \in Seq(Evs) /\ Len(events) \in Nat /\ Len(events') \in Nat
         /\ Len(events') = IF Reports(t) THEN Len(events) + 2 ELSE Len(events) + 1
         /\ \A i \in 1..Len(events) : events'[i] = events[i]
         /\ events'[Len(events) + 1] = Linked(t)
         /\ Reports(t) => /\ events'[Len(events) + 2] = LinkedReport(t)
                          /\ events' = Append(Append(events, Linked(t)), LinkedReport(t))
<1> DEFINE e == Linked(t)
           r == LinkedReport(t)
<1>1. inbox[t] # <<>> BY ProcessDoes
<1>2. events \in Seq(Evs) /\ e \in Evs BY <1>1, LinkedOK DEF EventsOK
<1>3. Reports(t) => r \in Evs BY <1>1, ReportOK
<1>4. /\ Reports(t) => events' = events \o <<e, r>>
      /\ ~Reports(t) => events' = Append(events, e)
  BY ProcessDoes
<1> HIDE DEF e, r
<1> DEFINE u == Append(events, e)
<1>5. /\ u \in Seq(Evs) /\ Len(u) = Len(events) + 1 /\ u[Len(events) + 1] = e
      /\ \A i \in 1..Len(events) : u[i] = events[i]
      /\ Len(events) \in Nat
  BY <1>2, AppendProperties
<1>6. CASE Reports(t)
  <2>1. events \o <<e, r>> = Append(u, r)
    <3> DEFINE w == <<e, r>>
    <3>1. w \in Seq(Evs) /\ Len(w) = 2 /\ w[1] = e /\ w[2] = r BY <1>2, <1>3, <1>6
    <3> HIDE DEF w, u
    <3>2. /\ events \o w \in Seq(Evs) /\ Len(events \o w) = Len(events) + 2
          /\ \A i \in 1..(Len(events) + 2) :
               (events \o w)[i] = IF i <= Len(events) THEN events[i] ELSE w[i - Len(events)]
      <4>1. /\ events \o w \in Seq(Evs) /\ Len(events \o w) = Len(events) + Len(w)
            /\ \A i \in 1..(Len(events) + Len(w)) :
                 (events \o w)[i] = IF i <= Len(events) THEN events[i]
                                    ELSE w[i - Len(events)]
        BY <1>2, <3>1, ConcatProperties
      <4> QED BY <3>1, <4>1
    <3>3. /\ Append(u, r) \in Seq(Evs) /\ Len(Append(u, r)) = Len(events) + 2
          /\ Append(u, r)[Len(events) + 2] = r
          /\ \A i \in 1..(Len(events) + 1) : Append(u, r)[i] = u[i]
      <4>1. u \in Seq(Evs) /\ r \in Evs BY <1>3, <1>5, <1>6
      <4>2. /\ Append(u, r) \in Seq(Evs) /\ Len(Append(u, r)) = Len(u) + 1
            /\ Append(u, r)[Len(u) + 1] = r
            /\ \A i \in 1..Len(u) : Append(u, r)[i] = u[i]
        BY <4>1, AppendProperties
      <4> QED BY <4>2, <1>5
    <3>4. ASSUME NEW i \in 1..(Len(events) + 2) PROVE (events \o w)[i] = Append(u, r)[i]
      <4>1. CASE i \in 1..Len(events) BY <4>1, <3>2, <3>3, <1>5
      <4>2. CASE i = Len(events) + 1
        <5>1. i - Len(events) = 1 BY <4>2, <1>5
        <5> QED BY <4>2, <5>1, <3>1, <3>2, <3>3, <1>5
      <4>3. CASE i = Len(events) + 2
        <5>1. i - Len(events) = 2 BY <4>3, <1>5
        <5> QED BY <4>3, <5>1, <3>1, <3>2, <3>3, <1>5
      <4>4. Len(events) \in Nat BY <1>5
      <4>5. i \in 1..Len(events) \/ i = Len(events) + 1 \/ i = Len(events) + 2 BY <4>4
      <4> QED BY <4>1, <4>2, <4>3, <4>5, Zenon
    <3>5. events \o w = Append(u, r) BY <3>2, <3>3, <3>4, SeqEqual
    <3> QED BY <3>5 DEF w
  <2> HIDE DEF u
  <2> DEFINE v == Append(u, r)
  <2>2. /\ v \in Seq(Evs) /\ Len(v) = Len(u) + 1 /\ v[Len(u) + 1] = r
        /\ \A i \in 1..Len(u) : v[i] = u[i]
    BY <1>3, <1>5, <1>6, AppendProperties
  <2>3. events' = v BY <1>4, <1>6, <2>1
  <2> HIDE DEF v
  <2> QED BY <1>5, <1>6, <2>2, <2>3 DEF e, r, u, v
<1>7. CASE ~Reports(t)
  <2>1. events' = u BY <1>4, <1>7
  <2> HIDE DEF u
  <2> QED BY <1>5, <1>7, <2>1 DEF e
<1> QED BY <1>6, <1>7

-----------------------------------------------------------------------------
(* A call's observations arrive.                                           *)

LEMMA ShapeFacts ==
  ASSUME NEW a \in Agents, NEW shape \in Shapes[a]
  PROVE  /\ shape \in Seq(Observations)
         /\ Len(shape) = 1 \/ Len(shape) = 2
         /\ \A i \in 1..Len(shape) :
              /\ shape[i] \in Observations
              /\ shape[i].res = "kernel" => shape[i].kind = "open"
              /\ shape[i].kind = "open" => Known(a, shape[i])
         /\ Len(shape) = 1 /\ shape[1].res = "kernel" => ~shape[1].hooked
         /\ Len(shape) = 2 => Account(shape[1], shape[2])
<1>1. shape \in Seq(Observations) /\ ShapeOfCall(shape) BY EngineShapes
<1>2. \A i \in 1..Len(shape) : shape[i] \in Observations BY <1>1
<1>3. ASSUME NEW i \in 1..Len(shape), shape[i].res = "kernel"
      PROVE  shape[i].kind = "open"
  BY <1>1, <1>3 DEF ShapeOfCall, Account
<1>4. ASSUME NEW i \in 1..Len(shape), shape[i].kind = "open" PROVE Known(a, shape[i])
  BY <1>4 DEF Known
<1> QED BY <1>1, <1>2, <1>3, <1>4 DEF ShapeOfCall

(* The observation i of a call, as it arrives.                             *)
Arrives(shape, i) == [shape[i] EXCEPT !.call = calls + 1, !.ts = clock]

LEMMA ArrivesOK ==
  ASSUME InboxOK, NEW shape \in Shapes[agent], NEW i \in 1..Len(shape)
  PROVE  /\ Arrives(shape, i) \in Observations
         /\ Observed(agent, clock, calls + 1, Arrives(shape, i))
         /\ Arrives(shape, i).call = calls + 1
         /\ Arrives(shape, i).res = shape[i].res
         /\ Arrives(shape, i).hooked = shape[i].hooked
<1> DEFINE a == Arrives(shape, i)
           s == shape[i]
<1>0. agent \in Agents /\ clock \in Nat /\ calls \in Nat BY EngineBounds DEF InboxOK
<1>1. /\ s \in Observations /\ (s.res = "kernel" => s.kind = "open")
      /\ (s.kind = "open" => Known(agent, s))
  BY <1>0, ShapeFacts
<1>2. a = [s EXCEPT !.call = calls + 1, !.ts = clock] BY DEF Arrives
<1> HIDE DEF a, s
<1>3. /\ a \in Observations /\ a.ts = clock /\ a.call = calls + 1 /\ a.res = s.res
      /\ a.kind = s.kind /\ a.path = s.path /\ a.facts = s.facts /\ a.hooked = s.hooked
  <2> DEFINE b == [s EXCEPT !.call = calls + 1]
  <2>1. /\ b \in Observations /\ b.call = calls + 1 /\ b.res = s.res /\ b.kind = s.kind
        /\ b.path = s.path /\ b.facts = s.facts /\ b.hooked = s.hooked
    BY <1>0, <1>1 DEF Observations
  <2>2. a = [b EXCEPT !.ts = clock] BY <1>1, <1>2 DEF Observations
  <2> HIDE DEF b
  <2> QED BY <1>0, <2>1, <2>2 DEF Observations
<1>4. a.kind = "open" => Known(agent, a) BY <1>1, <1>3 DEF Known
<1>5. Observed(agent, clock, calls + 1, a) BY <1>0, <1>1, <1>3, <1>4 DEF Observed
<1> QED BY <1>3, <1>5 DEF a, s

(* What a call adds to the observations of its thread: all of them when    *)
(* none is dropped.                                                        *)
LEMMA CallDoes ==
  ASSUME InboxOK, NEW t \in Tids, NEW shape \in Shapes[agent], Call(t, shape)
  PROVE  \E new \in Seq(Observations) :
           /\ calls < MaxCalls[agent] /\ calls' = calls + 1
           /\ inbox' = [inbox EXCEPT ![t] = inbox[t] \o new]
           /\ drops' \in Nat
           /\ \A i \in 1..Len(new) : Observed(agent, clock, calls + 1, new[i])
           /\ drops' = 0 =>
                /\ drops = 0 /\ Len(new) = Len(shape)
                /\ \A i \in 1..Len(shape) : new[i] = Arrives(shape, i)
           /\ UNCHANGED <<agent, clock, events, lastOpen, dns, history, detector, silenced>>
<1>0. agent \in Agents /\ drops \in Nat /\ inbox[t] \in Seq(Observations) BY DEF InboxOK
<1>1. Len(shape) = 1 \/ Len(shape) = 2 BY <1>0, ShapeFacts
<1> DEFINE Sent(kept, i) == IF i \in kept THEN <<Arrives(shape, i)>> ELSE <<>>
<1>2. PICK kept \in SUBSET (1..Len(shape)) :
        /\ inbox' = [inbox EXCEPT ![t] =
             IF Len(shape) = 1 THEN inbox[t] \o Sent(kept, 1)
             ELSE inbox[t] \o Sent(kept, 1) \o Sent(kept, 2)]
        /\ drops' = drops + Len(shape) - Cardinality(kept)
  <2>1. PICK kept \in SUBSET (1..Len(shape)) :
          LET obs(i) == [shape[i] EXCEPT !.call = calls + 1, !.ts = clock]
              sent == [i \in 1..Len(shape) |->
                         IF i \in kept THEN <<obs(i)>> ELSE <<>>]
          IN /\ inbox' = [inbox EXCEPT ![t] =
                  IF Len(shape) = 1 THEN inbox[t] \o sent[1]
                  ELSE inbox[t] \o sent[1] \o sent[2]]
             /\ drops' = drops + Len(shape) - Cardinality(kept)
    BY DEF Call
  <2> DEFINE sent == [i \in 1..Len(shape) |-> Sent(kept, i)]
  <2>2. /\ inbox' = [inbox EXCEPT ![t] =
             IF Len(shape) = 1 THEN inbox[t] \o sent[1]
             ELSE inbox[t] \o sent[1] \o sent[2]]
        /\ drops' = drops + Len(shape) - Cardinality(kept)
    BY <2>1 DEF Arrives
  <2>3. sent[1] = Sent(kept, 1) /\ (Len(shape) = 2 => sent[2] = Sent(kept, 2)) BY <1>1
  <2> HIDE DEF sent, Sent
  <2>4. inbox' = [inbox EXCEPT ![t] =
             IF Len(shape) = 1 THEN inbox[t] \o Sent(kept, 1)
             ELSE inbox[t] \o Sent(kept, 1) \o Sent(kept, 2)]
    BY <1>1, <2>2, <2>3
  <2> QED BY <2>2, <2>4
<1>3. /\ IsFiniteSet(kept) /\ Cardinality(kept) \in Nat
      /\ Cardinality(kept) <= Len(shape)
      /\ Cardinality(kept) = Len(shape) => kept = 1..Len(shape)
  <2>1. IsFiniteSet(1..Len(shape)) /\ Cardinality(1..Len(shape)) = Len(shape)
    BY <1>1, FS_Interval
  <2> QED BY <2>1, FS_Subset, FS_CardinalityType
<1>4. drops' \in Nat /\ (drops' = 0 => drops = 0 /\ kept = 1..Len(shape))
  BY <1>0, <1>1, <1>2, <1>3
<1>5. \A i \in 1..Len(shape) : /\ Arrives(shape, i) \in Observations
                               /\ Observed(agent, clock, calls + 1, Arrives(shape, i))
  BY ArrivesOK
<1>6. /\ calls < MaxCalls[agent] /\ calls' = calls + 1
      /\ UNCHANGED <<agent, clock, events, lastOpen, dns, history, detector, silenced>>
  BY DEF Call
<1> DEFINE a1 == Arrives(shape, 1)
           a2 == Arrives(shape, 2)
           s1 == Sent(kept, 1)
           s2 == Sent(kept, 2)
           new == IF Len(shape) = 1 THEN s1 ELSE s1 \o s2
<1>7. /\ s1 \in Seq(Observations) /\ Len(s1) = (IF 1 \in kept THEN 1 ELSE 0)
      /\ 1 \in kept => s1 = <<a1>>
  BY <1>1, <1>5
<1>8. /\ Len(shape) = 2 => s2 \in Seq(Observations)
      /\ Len(s2) = (IF 2 \in kept THEN 1 ELSE 0) /\ (2 \in kept => s2 = <<a2>>)
  BY <1>5
<1>9. /\ inbox' = [inbox EXCEPT ![t] = IF Len(shape) = 1 THEN inbox[t] \o s1
                                        ELSE inbox[t] \o s1 \o s2]
      /\ s1 = IF 1 \in kept THEN <<a1>> ELSE <<>>
      /\ s2 = IF 2 \in kept THEN <<a2>> ELSE <<>>
  BY <1>2
<1>10. /\ Observed(agent, clock, calls + 1, a1)
       /\ Len(shape) = 2 => Observed(agent, clock, calls + 1, a2)
  BY <1>1, <1>5
<1> HIDE DEF a1, a2, s1, s2
<1>11. /\ new \in Seq(Observations)
       /\ inbox' = [inbox EXCEPT ![t] = inbox[t] \o new]
  <2>1. CASE Len(shape) = 1 BY <2>1, <1>7, <1>9
  <2>2. CASE Len(shape) = 2
    <3>1. new = s1 \o s2 /\ s2 \in Seq(Observations) BY <2>2, <1>8
    <3> DEFINE q == inbox[t]
    <3>2. (q \o s1) \o s2 = q \o (s1 \o s2)
      <4>1. q \in Seq(Observations) /\ s1 \in Seq(Observations) BY <1>0, <1>7
      <4> HIDE DEF q
      <4> QED BY <3>1, <4>1, ConcatAssociative
    <3>3. new \in Seq(Observations) BY <3>1, <1>7, ConcatProperties
    <3> HIDE DEF new
    <3> QED BY <3>1, <3>2, <3>3, <2>2, <1>9
  <2> QED BY <1>1, <2>1, <2>2
<1>12. \A i \in 1..Len(new) : Observed(agent, clock, calls + 1, new[i])
  <2>1. CASE Len(shape) = 1 BY <2>1, <1>7, <1>9, <1>10
  <2>2. CASE Len(shape) = 2 BY <2>2, <1>7, <1>8, <1>9, <1>10
  <2> QED BY <1>1, <2>1, <2>2
<1>13. ASSUME kept = 1..Len(shape)
       PROVE  /\ Len(new) = Len(shape)
              /\ \A i \in 1..Len(shape) : new[i] = Arrives(shape, i)
  <2>1. CASE Len(shape) = 1
    <3>1. new = <<a1>> BY <2>1, <1>13, <1>9
    <3> HIDE DEF new
    <3> QED BY <3>1, <2>1 DEF a1
  <2>2. CASE Len(shape) = 2
    <3>1. new = <<a1>> \o <<a2>> BY <2>2, <1>13, <1>9
    <3> HIDE DEF new
    <3> QED BY <3>1, <2>2 DEF a1, a2
  <2> QED BY <1>1, <2>1, <2>2
<1> HIDE DEF new
<1> QED BY <1>4, <1>6, <1>11, <1>12, <1>13

-----------------------------------------------------------------------------
(* Each part of the invariant is kept by every step.                       *)

LEMMA SilentlyDoes ==
  ASSUME NEW t \in Tids, ProcessSilently(t)
  PROVE  /\ inbox[t] # <<>> /\ \E l \in LastOpen(Coming(t), t) : l.verdict = "allowed"
         /\ silenced' = silenced \cup {[tid |-> t, of |-> Coming(t)]}
         /\ inbox' = [inbox EXCEPT ![t] = Tail(inbox[t])]
         /\ agent' = agent /\ clock' = clock /\ calls' = calls /\ drops' = drops
         /\ events' = events /\ lastOpen' = lastOpen /\ dns' = dns
         /\ history' = history /\ detector' = detector
  BY DEF ProcessSilently, Coming

LEMMA Later ==
  ASSUME NEW now \in Int, NEW later \in Int, now <= later,
         NEW made \in Int, NEW more \in Int, made <= more, NEW a
  PROVE  /\ \A o : Observed(a, now, made, o) => Observed(a, later, more, o)
         /\ \A e : Recorded(a, now, made, e) => Recorded(a, later, more, e)
<1>1. ASSUME NEW o, Observed(a, now, made, o) PROVE Observed(a, later, more, o)
  BY <1>1 DEF Observed, Observations
<1>2. ASSUME NEW e, Recorded(a, now, made, e) PROVE Recorded(a, later, more, e)
  <2>1. e \in Evs /\ e.ts <= now /\ e.call <= made BY <1>2 DEF Recorded
  <2>2. e.ts \in Nat /\ e.call \in Nat BY <2>1 DEF Evs
  <2>3. e.ts <= later /\ e.call <= more BY <2>1, <2>2
  <2> QED BY <1>2, <2>3 DEF Recorded
<1> QED BY <1>1, <1>2

LEMMA InboxStep ==
  ASSUME InboxOK, [Next]_vars
  PROVE  InboxOK'
<1>0. /\ agent \in Agents /\ clock \in Nat /\ calls \in Nat /\ drops \in Nat
      /\ MaxTime[agent] \in Nat /\ MaxCalls[agent] \in Nat
      /\ clock <= MaxTime[agent] /\ calls <= MaxCalls[agent]
      /\ inbox \in [Tids -> Seq(Observations)]
      /\ \A u \in Tids : \A i \in 1..Len(inbox[u]) :
           Observed(agent, clock, calls, inbox[u][i])
  BY EngineBounds DEF InboxOK
<1>1. ASSUME NEW t \in Tids, NEW shape \in Shapes[agent], Call(t, shape) PROVE InboxOK'
  <2>1. PICK new \in Seq(Observations) :
           /\ calls < MaxCalls[agent] /\ calls' = calls + 1
           /\ inbox' = [inbox EXCEPT ![t] = inbox[t] \o new]
           /\ drops' \in Nat
           /\ \A i \in 1..Len(new) : Observed(agent, clock, calls + 1, new[i])
           /\ agent' = agent /\ clock' = clock
    BY <1>1, CallDoes
  <2> DEFINE q == inbox[t] \o new
  <2>2. /\ q \in Seq(Observations) /\ Len(q) = Len(inbox[t]) + Len(new)
        /\ \A i \in 1..(Len(inbox[t]) + Len(new)) :
             q[i] = IF i <= Len(inbox[t]) THEN inbox[t][i] ELSE new[i - Len(inbox[t])]
    BY <1>0, ConcatProperties
  <2> HIDE DEF q
  <2>3. \A o : Observed(agent, clock, calls, o) => Observed(agent, clock, calls + 1, o)
    <3>1. /\ clock \in Int /\ calls \in Int /\ calls + 1 \in Int /\ clock <= clock
          /\ calls <= calls + 1
      BY <1>0
    <3> QED BY <3>1, Later, Zenon
  <2>4. ASSUME NEW i \in 1..Len(q) PROVE Observed(agent, clock, calls + 1, q[i])
    <3>1. Len(inbox[t]) \in Nat /\ Len(new) \in Nat BY <1>0
    <3>2. CASE i <= Len(inbox[t]) BY <1>0, <2>2, <2>3, <3>1, <3>2
    <3>3. CASE i > Len(inbox[t])
      <4>1. i - Len(inbox[t]) \in 1..Len(new) BY <2>2, <3>1, <3>3
      <4>2. q[i] = new[i - Len(inbox[t])] BY <2>2, <3>1, <3>3
      <4> QED BY <2>1, <4>1, <4>2
    <3> QED BY <3>1, <3>2, <3>3
  <2>5. inbox' = [inbox EXCEPT ![t] = q] BY <2>1 DEF q
  <2>6. inbox' \in [Tids -> Seq(Observations)] BY <1>0, <2>2, <2>5
  <2>7. ASSUME NEW u \in Tids, NEW i \in 1..Len(inbox'[u])
        PROVE  Observed(agent, clock, calls + 1, inbox'[u][i])
    BY <1>0, <2>3, <2>4, <2>5
  <2>8. clock' \in 0..MaxTime[agent'] /\ calls' \in 0..MaxCalls[agent']
    BY <1>0, <2>1
  <2> QED BY <1>0, <2>1, <2>6, <2>7, <2>8 DEF InboxOK
<1>2. ASSUME Elapse PROVE InboxOK'
  <2>1. /\ clock < MaxTime[agent] /\ clock' = clock + 1 /\ inbox' = inbox
        /\ calls' = calls /\ drops' = drops /\ agent' = agent
    BY <1>2 DEF Elapse
  <2>2. \A o : Observed(agent, clock, calls, o) => Observed(agent, clock + 1, calls, o)
    <3>1. /\ clock \in Int /\ calls \in Int /\ clock + 1 \in Int /\ calls <= calls
          /\ clock <= clock + 1
      BY <1>0
    <3> QED BY <3>1, Later, Zenon
  <2> QED BY <1>0, <2>1, <2>2 DEF InboxOK
<1>3. ASSUME NEW t \in Tids, inbox[t] # <<>>, inbox' = [inbox EXCEPT ![t] = Tail(inbox[t])],
             agent' = agent, clock' = clock, calls' = calls, drops' = drops
      PROVE  InboxOK'
  <2> DEFINE q == Tail(inbox[t])
  <2>1. /\ q \in Seq(Observations) /\ Len(q) = Len(inbox[t]) - 1 /\ Len(inbox[t]) \in Nat
        /\ \A i \in 1..(Len(inbox[t]) - 1) : q[i] = inbox[t][i + 1]
    BY <1>3, ComingOK
  <2>2. inbox' = [inbox EXCEPT ![t] = q] BY <1>3
  <2> HIDE DEF q
  <2>3. ASSUME NEW i \in 1..Len(q) PROVE Observed(agent, clock, calls, q[i])
    <3>1. i + 1 \in 1..Len(inbox[t]) BY <2>1
    <3> QED BY <1>0, <2>1, <3>1
  <2>4. inbox' \in [Tids -> Seq(Observations)] BY <1>0, <2>1, <2>2
  <2>5. ASSUME NEW u \in Tids, NEW i \in 1..Len(inbox'[u])
        PROVE  Observed(agent, clock, calls, inbox'[u][i])
    BY <1>0, <2>2, <2>3
  <2> QED BY <1>0, <1>3, <2>4, <2>5 DEF InboxOK
<1>4. ASSUME NEW t \in Tids, ProcessSilently(t) PROVE InboxOK' BY <1>3, <1>4, SilentlyDoes
<1>5. ASSUME NEW t \in Tids, Process(t) PROVE InboxOK' BY <1>3, <1>5, ProcessDoes
<1>6. CASE UNCHANGED vars BY <1>6 DEF vars, InboxOK
<1> QED BY <1>1, <1>2, <1>4, <1>5, <1>6 DEF Next

(* Only Process changes what is recorded.                                  *)
LEMMA OnlyProcess ==
  ASSUME InboxOK, [Next]_vars, ~ \E t \in Tids : Process(t)
  PROVE  /\ events' = events /\ lastOpen' = lastOpen /\ dns' = dns /\ history' = history
         /\ detector' = detector /\ agent' = agent /\ clock <= clock' /\ calls <= calls'
         /\ clock \in Nat /\ clock' \in Nat /\ calls \in Nat /\ calls' \in Nat
<1>0. clock \in Nat /\ calls \in Nat BY EngineBounds DEF InboxOK
<1>1. ASSUME NEW t \in Tids, NEW shape \in Shapes[agent], Call(t, shape)
      PROVE  /\ UNCHANGED <<events, lastOpen, dns, history, detector, agent, clock>>
             /\ calls' = calls + 1
  BY <1>1 DEF Call
<1>2. CASE Elapse BY <1>0, <1>2 DEF Elapse
<1>3. ASSUME NEW t \in Tids, ProcessSilently(t)
      PROVE  UNCHANGED <<events, lastOpen, dns, history, detector, agent, clock, calls>>
  BY <1>3, SilentlyDoes
<1>4. CASE UNCHANGED vars BY <1>0, <1>4 DEF vars
<1>5. CASE \E t \in Tids, shape \in Shapes[agent] : Call(t, shape) BY <1>0, <1>1, <1>5
<1>6. CASE \E t \in Tids : ProcessSilently(t) BY <1>0, <1>3, <1>6
<1> QED BY <1>2, <1>4, <1>5, <1>6 DEF Next

LEMMA EventsStep ==
  ASSUME InboxOK, EventsOK, LastOpenOK, HistoryOK, [Next]_vars
  PROVE  EventsOK'
<1>1. ASSUME NEW t \in Tids, Process(t) PROVE EventsOK'
  <2>1. inbox[t] # <<>> /\ agent' = agent /\ clock' = clock /\ calls' = calls
    BY <1>1, ProcessDoes
  <2>2. /\ events' \in Seq(Evs) /\ Len(events) \in Nat
        /\ Len(events') = IF Reports(t) THEN Len(events) + 2 ELSE Len(events) + 1
        /\ \A i \in 1..Len(events) : events'[i] = events[i]
        /\ events'[Len(events) + 1] = Linked(t)
        /\ Reports(t) => events'[Len(events) + 2] = LinkedReport(t)
    BY <1>1, EventsGrow
  <2>3. Recorded(agent, clock, calls, Linked(t)) BY <2>1, LinkedOK
  <2>4. Reports(t) => Recorded(agent, clock, calls, LinkedReport(t)) BY <2>1, ReportOK
  <2>5. ASSUME NEW i \in 1..Len(events') PROVE Recorded(agent, clock, calls, events'[i])
    <3>1. CASE i \in 1..Len(events) BY <2>2, <3>1 DEF EventsOK
    <3>2. CASE i = Len(events) + 1 BY <2>2, <2>3, <3>2
    <3>3. CASE i = Len(events) + 2 /\ Reports(t) BY <2>2, <2>4, <3>3
    <3> QED BY <2>2, <3>1, <3>2, <3>3
  <2> QED BY <2>1, <2>2, <2>5 DEF EventsOK
<1>2. CASE ~ \E t \in Tids : Process(t)
  <2>1. /\ events' = events /\ agent' = agent /\ clock <= clock' /\ calls <= calls'
        /\ clock \in Nat /\ clock' \in Nat /\ calls \in Nat /\ calls' \in Nat
    BY <1>2, OnlyProcess
  <2>2. \A e : Recorded(agent, clock, calls, e) => Recorded(agent, clock', calls', e)
    BY <2>1, Later
  <2> QED BY <2>1, <2>2 DEF EventsOK
<1> QED BY <1>1, <1>2

LEMMA HistoryStep ==
  ASSUME InboxOK, EventsOK, LastOpenOK, HistoryOK, [Next]_vars
  PROVE  HistoryOK'
<1>1. ASSUME NEW t \in Tids, Process(t) PROVE HistoryOK'
  <2> DEFINE u == Append(events, Linked(t))
  <2>1. inbox[t] # <<>> BY <1>1, ProcessDoes
  <2>2. HistoryOf(u, Remembered(t)) BY <2>1, RememberedOK
  <2>3. u \in Seq(Evs) /\ Len(u) = Len(events) + 1
    BY <2>1, LinkedOK, AppendProperties DEF EventsOK
  <2>4. CASE ~Reports(t) BY <1>1, <2>2, <2>4, ProcessDoes DEF HistoryOK
  <2>5. CASE Reports(t)
    <3>1. LinkedReport(t) \in Evs BY <2>1, <2>5, ReportOK
    <3>2. events' = Append(u, LinkedReport(t)) BY <1>1, <2>5, EventsGrow
    <3>3. history' = Remember(Remembered(t), Recent(Len(events) + 2, LinkedReport(t)))
      <4>1. Recent(Len(events) + 2, Report(t)) = Recent(Len(events) + 2, LinkedReport(t))
        <5>1. \A n : Recent(n, Report(t)) = Recent(n, LinkedReport(t)) BY ReportFields
        <5> QED BY <5>1, Zenon
      <4>2. history' = Remember(Remembered(t), Recent(Len(events) + 2, Report(t)))
        BY <1>1, <2>5, ProcessDoes
      <4> QED BY <4>1, <4>2
    <3>4. Len(events) + 2 = Len(u) + 1 BY <2>3 DEF EventsOK
    <3> HIDE DEF u
    <3>5. HistoryOf(Append(u, LinkedReport(t)),
                    Remember(Remembered(t), Recent(Len(u) + 1, LinkedReport(t))))
      BY <2>2, <2>3, <3>1, HistoryGrows
    <3> QED BY <3>2, <3>3, <3>4, <3>5 DEF HistoryOK
  <2> QED BY <2>4, <2>5
<1>2. CASE ~ \E t \in Tids : Process(t) BY <1>2, OnlyProcess DEF HistoryOK
<1> QED BY <1>1, <1>2

-----------------------------------------------------------------------------
(* A longer record has what the shorter one has.                           *)
Grown(evs, longer) ==
  /\ Len(evs) \in Nat /\ Len(longer) \in Nat /\ Len(evs) <= Len(longer)
  /\ \A i \in 1..Len(evs) : longer[i] = evs[i]

LEMMA ProcessGrows ==
  ASSUME NEW t \in Tids, InboxOK, EventsOK, LastOpenOK, HistoryOK, Process(t)
  PROVE  Grown(events, events')
  BY EventsGrow DEF Grown

LEMMA OpensKept ==
  ASSUME NEW evs, NEW longer, NEW t, NEW lo, Grown(evs, longer), OpenOf(evs, t, lo)
  PROVE  OpenOf(longer, t, lo)
  BY DEF Grown, OpenOf

LEMMA PairsKept ==
  ASSUME NEW evs, NEW longer, NEW t, NEW lo, Grown(evs, longer), OpenOf(evs, t, lo),
         NEW q, Paired(evs, lo, q)
  PROVE  Paired(longer, lo, q)
<1>1. \A l \in lo : longer[l.seq] = evs[l.seq] BY DEF Grown, OpenOf
<1>2. ASSUME NEW o, JustDone(evs, lo, o) PROVE JustDone(longer, lo, o)
  BY <1>1, <1>2 DEF JustDone
<1>3. ASSUME NEW i \in 1..Len(q), Begins(evs, lo, q, i) PROVE Begins(longer, lo, q, i)
  BY <1>1, <1>3 DEF Begins
<1>4. ASSUME NEW i \in 1..Len(q) PROVE PairedAt(longer, lo, q, i)
  <2>1. PairedAt(evs, lo, q, i) BY DEF Paired
  <2> QED BY <1>2, <1>3, <2>1 DEF PairedAt
<1> QED BY <1>4 DEF Paired

(* After the kernel's account comes another call.                          *)
LEMMA AccountDone ==
  ASSUME NEW evs, NEW lo, NEW q, NEW p, Len(q) \in Nat \ {0}, Len(p) = Len(q) - 1,
         \A i \in 1..(Len(q) - 1) : p[i] = q[i + 1],
         q[1].res = "kernel", Paired(evs, lo, q)
  PROVE  Paired(evs, lo, p)
<1>1. ASSUME NEW i \in 1..Len(p) PROVE PairedAt(evs, lo, p, i)
  <2>1. i + 1 \in 1..Len(q) /\ p[i] = q[i + 1] /\ i + 1 > 1 /\ (i + 1) - 1 = i OBVIOUS
  <2>2. PairedAt(evs, lo, q, i + 1) BY <2>1 DEF Paired
  <2>3. Follows(q, i + 1) => q[i].call = q[i + 1].call /\ Account(q[i], q[i + 1])
    BY <2>1 DEF Follows
  <2>4. Begins(evs, lo, q, i + 1) =>
          /\ \A j \in 1..i : q[j].call < q[i + 1].call
          /\ \A l \in lo : evs[l.seq].call < q[i + 1].call
    BY <2>1 DEF Begins
  <2>5. \A j \in 1..(i - 1) : p[j] = q[j + 1] /\ j + 1 \in 1..i OBVIOUS
  <2>6. Begins(evs, lo, q, i + 1) => Begins(evs, lo, p, i)
    BY <2>1, <2>4, <2>5 DEF Begins
  <2>7. i > 1 => p[i - 1] = q[i]
    <3>1. i > 1 => i - 1 \in 1..(Len(q) - 1) /\ (i - 1) + 1 = i OBVIOUS
    <3> QED BY <3>1
  <2>8. i > 1 /\ Follows(q, i + 1) => Follows(p, i) BY <2>1, <2>3, <2>7 DEF Follows
  <2>9. ASSUME i = 1, p[i].res = "kernel" PROVE JustDone(evs, lo, p[i])
    <3>1. ~Follows(q, i + 1) BY <2>3, <2>9 DEF Account
    <3>2. ~q[i + 1].hooked /\ Begins(evs, lo, q, i + 1)
      BY <2>1, <2>2, <2>9, <3>1 DEF PairedAt
    <3> QED BY <2>1, <2>4, <3>2 DEF JustDone
  <2> QED BY <2>1, <2>2, <2>6, <2>8, <2>9 DEF PairedAt
<1> QED BY <1>1 DEF Paired

(* After any other observation comes the kernel's account of it or another *)
(* call.                                                                   *)
OnlyAt(lo, n) == (\A l \in lo : l.seq = n) /\ \E l : lo = {l}

Takes(evs, t, lo, q, longer, n, mo, p) ==
  /\ Len(q) \in Nat \ {0} /\ Len(p) = Len(q) - 1
  /\ \A i \in 1..(Len(q) - 1) : p[i] = q[i + 1]
  /\ q[1].res # "kernel" /\ Paired(evs, lo, q) /\ OpenOf(evs, t, lo)
  /\ Grown(evs, longer) /\ n \in 1..Len(longer)
  /\ longer[n].call = q[1].call /\ longer[n].op = q[1].op
  /\ longer[n].setup = q[1].setup /\ longer[n].kind = q[1].kind
  /\ q[1].kind = "open" => OnlyAt(mo, n)
  /\ q[1].kind # "open" => mo \subseteq lo

LEMMA FirstDone ==
  ASSUME NEW evs, NEW t, NEW lo, NEW q, NEW longer, NEW n, NEW mo, NEW p,
         Takes(evs, t, lo, q, longer, n, mo, p)
  PROVE  Paired(longer, mo, p)
<1> USE DEF Takes
<1>0. \A l \in lo : longer[l.seq].call < q[1].call
  <2>1. \A l \in lo : longer[l.seq] = evs[l.seq] BY DEF Grown, OpenOf
  <2>2. PairedAt(evs, lo, q, 1) BY DEF Paired
  <2>3. \A l \in lo : evs[l.seq].call < q[1].call BY <2>2 DEF PairedAt, Begins
  <2> QED BY <2>1, <2>3
<1>1. \A l \in mo : longer[l.seq].call = q[1].call \/ l \in lo BY DEF OnlyAt
<1>2. ASSUME NEW i \in 1..Len(p) PROVE PairedAt(longer, mo, p, i)
  <2>1. i + 1 \in 1..Len(q) /\ p[i] = q[i + 1] /\ i + 1 > 1 /\ (i + 1) - 1 = i OBVIOUS
  <2>2. PairedAt(evs, lo, q, i + 1) BY <2>1 DEF Paired
  <2>3. Follows(q, i + 1) => q[i].call = q[i + 1].call /\ Account(q[i], q[i + 1])
    BY <2>1 DEF Follows
  <2>4. Begins(evs, lo, q, i + 1) =>
          /\ \A j \in 1..i : q[j].call < q[i + 1].call
          /\ \A l \in lo : evs[l.seq].call < q[i + 1].call
    BY <2>1 DEF Begins
  <2>5. \A j \in 1..(i - 1) : p[j] = q[j + 1] /\ j + 1 \in 1..i OBVIOUS
  <2>6. ASSUME Begins(evs, lo, q, i + 1)
        PROVE  Begins(longer, mo, p, i) /\ \A l \in mo : longer[l.seq].call < p[i].call
    <3>1. ASSUME NEW l \in mo PROVE longer[l.seq].call < p[i].call
      <4>1. CASE l \in lo
        <5>1. longer[l.seq] = evs[l.seq] BY <4>1 DEF Grown, OpenOf
        <5> QED BY <2>1, <2>4, <2>6, <4>1, <5>1
      <4>2. CASE longer[l.seq].call = q[1].call BY <2>1, <2>4, <2>6, <4>2
      <4> QED BY <1>1, <4>1, <4>2
    <3> QED BY <2>1, <2>4, <2>5, <2>6, <3>1 DEF Begins
  <2>7. i > 1 => p[i - 1] = q[i]
    <3>1. i > 1 => i - 1 \in 1..(Len(q) - 1) /\ (i - 1) + 1 = i OBVIOUS
    <3> QED BY <3>1
  <2>8. i > 1 /\ Follows(q, i + 1) => Follows(p, i) BY <2>1, <2>3, <2>7 DEF Follows
  <2>9. ASSUME i = 1, p[i].res = "kernel" PROVE JustDone(longer, mo, p[i])
    <3>1. CASE Follows(q, i + 1)
      <4>1. q[1].call = p[i].call /\ Account(q[1], p[i]) BY <2>1, <2>3, <2>9, <3>1
      <4>2. CASE q[1].kind = "open"
        <5>1. OnlyAt(mo, n) /\ q[1].setup = p[i].setup BY <4>1, <4>2 DEF Account
        <5> QED BY <4>1, <5>1 DEF JustDone, OnlyAt
      <4>3. CASE q[1].kind # "open"
        <5>1. ~p[i].hooked BY <4>1, <4>3 DEF Account
        <5>2. \A l \in mo : longer[l.seq].call < p[i].call BY <1>0, <4>1, <4>3
        <5> QED BY <5>1, <5>2 DEF JustDone
      <4> QED BY <4>2, <4>3
    <3>2. CASE ~Follows(q, i + 1)
      <4>1. ~q[i + 1].hooked /\ Begins(evs, lo, q, i + 1)
        BY <2>1, <2>2, <2>9, <3>2 DEF PairedAt
      <4> QED BY <2>1, <2>6, <4>1 DEF JustDone
    <3> QED BY <3>1, <3>2
  <2> QED BY <2>1, <2>2, <2>6, <2>8, <2>9 DEF PairedAt
<1> QED BY <1>2 DEF Paired

LEMMA LastOpenStep ==
  ASSUME InboxOK, EventsOK, LastOpenOK, HistoryOK, [Next]_vars
  PROVE  LastOpenOK'
<1>1. ASSUME NEW t \in Tids, Process(t) PROVE LastOpenOK'
  <2> DEFINE o == Coming(t)
             new == {[path |-> o.path, seq |-> Len(events) + 1,
                      verdict |-> Event(t).verdict]}
  <2>1. lastOpen' = [lastOpen EXCEPT ![t] =
          IF o.kind = "open" /\ o.res # "kernel" THEN new
          ELSE IF o.kind = "exit" THEN {} ELSE lastOpen[t]]
    BY <1>1, ProcessDoes
  <2>2. Grown(events, events') /\ events'[Len(events) + 1] = Linked(t)
        /\ Len(events) + 1 \in 1..Len(events')
    BY <1>1, ProcessGrows, EventsGrow
  <2>3. \A u \in Tids : OpenOf(events', u, lastOpen[u]) BY <2>2, OpensKept DEF LastOpenOK
  <2>4. Event(t).verdict = Judged(o).verdict BY EventFields DEF EventOf
  <2>5. o.kind = "open" /\ o.res # "kernel" => OpenOf(events', t, new)
    BY <2>2, <2>4, LinkedIs DEF OpenOf
  <2>6. OpenOf(events', t, {}) BY DEF OpenOf
  <2> HIDE DEF new, o
  <2>7. lastOpen' = [u \in Tids |-> lastOpen'[u]]
    BY <2>1 DEF LastOpenOK
  <2>8. ASSUME NEW u \in Tids PROVE OpenOf(events', u, lastOpen'[u])
    BY <2>1, <2>3, <2>5, <2>6 DEF LastOpenOK
  <2> QED BY <2>7, <2>8 DEF LastOpenOK
<1>2. CASE ~ \E t \in Tids : Process(t) BY <1>2, OnlyProcess DEF LastOpenOK
<1> QED BY <1>1, <1>2

LEMMA ArrivesAs ==
  ASSUME InboxOK, NEW shape \in Shapes[agent], Len(shape) = 2
  PROVE  Account(Arrives(shape, 1), Arrives(shape, 2))
<1>0. agent \in Agents BY DEF InboxOK
<1>1. shape[1] \in Observations /\ shape[2] \in Observations /\ Account(shape[1], shape[2])
  BY <1>0, ShapeFacts
<1> DEFINE s == shape[1]
           u == shape[2]
           a == [s EXCEPT !.call = calls + 1, !.ts = clock]
           b == [u EXCEPT !.call = calls + 1, !.ts = clock]
<1> HIDE DEF s, u
<1>2. /\ a.res = s.res /\ a.kind = s.kind /\ a.op = s.op /\ a.setup = s.setup
      /\ a.outcome = s.outcome
  BY <1>1 DEF s, Observations
<1>3. /\ b.res = u.res /\ b.kind = u.kind /\ b.op = u.op /\ b.setup = u.setup
      /\ b.facts = u.facts /\ b.hooked = u.hooked
  BY <1>1 DEF u, Observations
<1> HIDE DEF a, b
<1>4. Account(s, u) BY <1>1 DEF s, u
<1>5. Account(a, b) BY <1>2, <1>3, <1>4 DEF Account
<1> QED BY <1>5 DEF a, b, s, u, Arrives

(* The observations of a call arrive after those of earlier ones.          *)
LEMMA CallPaired ==
  ASSUME InboxOK, EventsOK, LastOpenOK, NEW t \in Tids, NEW shape \in Shapes[agent],
         NEW new \in Seq(Observations), Len(new) = Len(shape),
         \A i \in 1..Len(shape) : new[i] = Arrives(shape, i),
         Paired(events, lastOpen[t], inbox[t])
  PROVE  Paired(events, lastOpen[t], inbox[t] \o new)
<1> DEFINE q == inbox[t]
           n == Len(q)
           p == q \o new
<1>0. agent \in Agents /\ calls \in Nat /\ q \in Seq(Observations) /\ n \in Nat
  BY EngineBounds DEF InboxOK
<1>1. Len(shape) = 1 \/ Len(shape) = 2 BY <1>0, ShapeFacts
<1>2. /\ Len(p) = n + Len(shape)
      /\ \A i \in 1..n : p[i] = q[i]
      /\ \A i \in 1..Len(shape) : p[n + i] = new[i]
  <2> HIDE DEF q
  <2>1. /\ Len(p) = n + Len(new)
        /\ \A i \in 1..(n + Len(new)) : p[i] = IF i <= n THEN q[i] ELSE new[i - n]
    BY <1>0, ConcatProperties
  <2>2. \A i \in 1..n : i \in 1..(n + Len(new)) /\ i <= n BY <1>0
  <2>3. \A i \in 1..Len(shape) : /\ n + i \in 1..(n + Len(new)) /\ ~(n + i <= n)
                                 /\ (n + i) - n = i
    BY <1>0, <1>1
  <2> HIDE DEF p, n
  <2> QED BY <2>1, <2>2, <2>3
<1>3. \A i \in 1..Len(shape) : /\ new[i].call = calls + 1 /\ new[i].res = shape[i].res
                               /\ new[i].hooked = shape[i].hooked
  BY ArrivesOK
<1>4. \A i \in 1..n : q[i].call <= calls /\ q[i].call \in Nat
  BY <1>0 DEF InboxOK, Observed, Observations
<1>5. \A l \in lastOpen[t] : events[l.seq].call <= calls /\ events[l.seq].call \in Nat
  <2>1. \A i \in 1..Len(events) : events[i].call <= calls /\ events[i].call \in Nat
    BY DEF EventsOK, Recorded, Evs
  <2> QED BY <2>1 DEF LastOpenOK, OpenOf
<1>6. /\ shape[1].res = "kernel" => ~shape[1].hooked
      /\ Len(shape) = 2 => Account(new[1], new[2])
  BY <1>0, <1>1, ShapeFacts, ArrivesAs DEF Account
<1>7. Paired(events, lastOpen[t], q) OBVIOUS
<1> HIDE DEF p, q, n
<1>8. ASSUME NEW i \in 1..Len(p) PROVE PairedAt(events, lastOpen[t], p, i)
  <2>1. CASE i \in 1..n
    <3>0. n \in Nat BY <1>0
    <3>1. \A j \in 1..(i - 1) : j \in 1..n /\ p[j] = q[j]
      <4>1. \A j \in 1..(i - 1) : j \in 1..n BY <3>0, <2>1
      <4> QED BY <4>1, <1>2
    <3>2. i > 1 => i - 1 \in 1..(i - 1) BY <1>0, <2>1
    <3>3. p[i] = q[i] /\ i \in 1..Len(q) BY <1>2, <2>1 DEF n
    <3>4. PairedAt(events, lastOpen[t], q, i) BY <1>7, <3>3 DEF Paired
    <3>5. Begins(events, lastOpen[t], q, i) => Begins(events, lastOpen[t], p, i)
      BY <3>1, <3>3 DEF Begins
    <3>6. i > 1 /\ Follows(q, i) => Follows(p, i) BY <3>1, <3>2, <3>3 DEF Follows
    <3> QED BY <3>3, <3>4, <3>5, <3>6 DEF PairedAt
  <2>2. CASE i = n + 1
    <3>1. p[i] = new[1] /\ p[i].call = calls + 1 /\ (p[i].res = "kernel" => ~p[i].hooked)
      BY <1>1, <1>2, <1>3, <1>6, <2>2
    <3>2. \A j \in 1..(i - 1) : j \in 1..n /\ p[j] = q[j] BY <1>0, <1>2, <2>2
    <3>3. \A j \in 1..(i - 1) : p[j].call < p[i].call BY <1>0, <1>4, <3>1, <3>2
    <3>4. \A l \in lastOpen[t] : events[l.seq].call < p[i].call BY <1>0, <1>5, <3>1
    <3>5. Begins(events, lastOpen[t], p, i) BY <3>3, <3>4 DEF Begins
    <3>6. ~p[i].hooked => JustDone(events, lastOpen[t], p[i]) BY <3>4 DEF JustDone
    <3> QED BY <3>1, <3>5, <3>6 DEF PairedAt
  <2>3. CASE i = n + 2 /\ Len(shape) = 2
    <3>1. p[i] = new[2] /\ p[i - 1] = new[1]
      <4>1. i - 1 = n + 1 BY <1>0, <2>3
      <4> QED BY <1>2, <2>3, <4>1
    <3>2. p[i].call = p[i - 1].call BY <1>3, <2>3, <3>1
    <3>3. Account(p[i - 1], p[i]) BY <1>6, <2>3, <3>1
    <3>4. p[i].res = "kernel" BY <3>3 DEF Account
    <3>5. i > 1 BY <1>0, <2>3
    <3> QED BY <3>2, <3>3, <3>4, <3>5 DEF PairedAt, Follows
  <2>4. i \in 1..n \/ i = n + 1 \/ (i = n + 2 /\ Len(shape) = 2)
    <3>1. n \in Nat /\ Len(p) = n + Len(shape) BY <1>0, <1>2
    <3> QED BY <1>1, <3>1
  <2> QED BY <2>1, <2>2, <2>3, <2>4
<1>9. Paired(events, lastOpen[t], p) BY <1>8 DEF Paired
<1> QED BY <1>9 DEF p, q

LEMMA PairsStep ==
  ASSUME InboxOK, EventsOK, LastOpenOK, PairsOK, HistoryOK, [Next]_vars
  PROVE  PairsOK'
<1>0. /\ inbox \in [Tids -> Seq(Observations)] /\ drops \in Nat
      /\ \A u \in Tids : OpenOf(events, u, lastOpen[u])
      /\ drops = 0 => \A u \in Tids : Paired(events, lastOpen[u], inbox[u])
  BY DEF InboxOK, LastOpenOK, PairsOK
<1>1. ASSUME NEW t \in Tids, NEW shape \in Shapes[agent], Call(t, shape), drops' = 0
      PROVE  \A u \in Tids : Paired(events', lastOpen'[u], inbox'[u])
  <2>1. PICK new \in Seq(Observations) :
           /\ inbox' = [inbox EXCEPT ![t] = inbox[t] \o new]
           /\ drops = 0 /\ Len(new) = Len(shape)
           /\ \A i \in 1..Len(shape) : new[i] = Arrives(shape, i)
           /\ events' = events /\ lastOpen' = lastOpen
    BY <1>1, CallDoes
  <2>2. Paired(events, lastOpen[t], inbox[t] \o new) BY <1>0, <2>1, CallPaired
  <2> QED BY <1>0, <2>1, <2>2
<1>2. ASSUME NEW t \in Tids, ProcessSilently(t), drops' = 0
      PROVE  \A u \in Tids : Paired(events', lastOpen'[u], inbox'[u])
  <2>1. /\ inbox[t] # <<>> /\ inbox' = [inbox EXCEPT ![t] = Tail(inbox[t])]
        /\ drops' = drops /\ events' = events /\ lastOpen' = lastOpen
        /\ LastOpen(Coming(t), t) # {}
    BY <1>2, SilentlyDoes
  <2>2. inbox[t][1].res = "kernel" BY <2>1, ComingOK DEF LastOpen
  <2>3. Paired(events, lastOpen[t], Tail(inbox[t]))
    BY <1>0, <1>2, <2>1, <2>2, ComingOK, AccountDone
  <2> QED BY <1>0, <1>2, <2>1, <2>3
<1>3. ASSUME NEW t \in Tids, Process(t), drops' = 0
      PROVE  \A u \in Tids : Paired(events', lastOpen'[u], inbox'[u])
  <2> DEFINE o == Coming(t)
             q == inbox[t]
             p == Tail(inbox[t])
             n == Len(events) + 1
             new == {[path |-> o.path, seq |-> n, verdict |-> Event(t).verdict]}
             mo == IF o.kind = "open" /\ o.res # "kernel" THEN new
                   ELSE IF o.kind = "exit" THEN {} ELSE lastOpen[t]
  <2>1. /\ q # <<>> /\ inbox' = [inbox EXCEPT ![t] = p] /\ drops = 0
        /\ lastOpen' = [lastOpen EXCEPT ![t] = mo]
    BY <1>3, ProcessDoes
  <2>2. /\ Len(q) \in Nat \ {0} /\ Len(p) = Len(q) - 1 /\ o = q[1]
        /\ \A i \in 1..(Len(q) - 1) : p[i] = q[i + 1]
        /\ o.res = "kernel" => o.kind = "open"
    BY <2>1, ComingOK DEF Observed
  <2>3. Grown(events, events') /\ n \in 1..Len(events') /\ events'[n] = Linked(t)
    BY <1>3, ProcessGrows, EventsGrow
  <2>4. Paired(events', mo, p)
    <3>1. CASE o.res = "kernel"
      <4>1. mo = lastOpen[t] BY <2>2, <3>1
      <4>2. Paired(events, lastOpen[t], p) BY <1>0, <2>1, <2>2, <3>1, AccountDone
      <4>3. Paired(events', lastOpen[t], p) BY <1>0, <2>3, <4>2, PairsKept
      <4> QED BY <4>1, <4>3
    <3>2. CASE o.res # "kernel"
      <4>1. /\ events'[n].call = q[1].call /\ events'[n].op = q[1].op
            /\ events'[n].setup = q[1].setup /\ events'[n].kind = q[1].kind
        <5>1. /\ Linked(t).call = o.call /\ Linked(t).op = o.op /\ Linked(t).setup = o.setup
              /\ Linked(t).kind = o.kind
          BY EventFields
        <5> HIDE DEF o, q, n
        <5> QED BY <5>1, <2>2, <2>3
      <4>2. ASSUME q[1].kind = "open" PROVE OnlyAt(mo, n)
        <5>1. mo = new BY <2>2, <3>2, <4>2
        <5>2. \A l \in new : l.seq = n OBVIOUS
        <5>3. \E l : new = {l} OBVIOUS
        <5> HIDE DEF mo, new
        <5> QED BY <5>1, <5>2, <5>3 DEF OnlyAt
      <4>3. q[1].kind # "open" => mo \subseteq lastOpen[t] BY <2>2
      <4>4. q[1].res # "kernel" /\ Paired(events, lastOpen[t], q)
            /\ OpenOf(events, t, lastOpen[t])
        BY <1>0, <2>1, <2>2, <3>2
      <4> HIDE DEF o, q, p, n, new, mo
      <4>5. /\ Len(q) \in Nat \ {0} /\ Len(p) = Len(q) - 1
            /\ \A i \in 1..(Len(q) - 1) : p[i] = q[i + 1]
            /\ Grown(events, events') /\ n \in 1..Len(events')
        BY <2>2, <2>3
      <4>6. /\ events'[n].call = q[1].call /\ events'[n].op = q[1].op
            /\ events'[n].setup = q[1].setup /\ events'[n].kind = q[1].kind
        BY <4>1
      <4>7. q[1].kind = "open" => OnlyAt(mo, n) BY <4>2
      <4>8. Takes(events, t, lastOpen[t], q, events', n, mo, p)
        BY <4>3, <4>4, <4>5, <4>6, <4>7 DEF Takes
      <4> QED BY <4>8, FirstDone
    <3> QED BY <3>1, <3>2
  <2>5. \A u \in Tids \ {t} : Paired(events', lastOpen[u], inbox[u])
    BY <1>0, <2>1, <2>3, PairsKept
  <2>6. lastOpen = [u \in Tids |-> lastOpen[u]] BY DEF LastOpenOK
  <2> HIDE DEF mo, p, q
  <2> QED BY <1>0, <2>1, <2>4, <2>5, <2>6
<1>4. CASE Elapse BY <1>4 DEF Elapse, PairsOK
<1>5. CASE UNCHANGED vars BY <1>5 DEF vars, PairsOK
<1>6. CASE \E t \in Tids, shape \in Shapes[agent] : Call(t, shape)
  BY <1>1, <1>6 DEF PairsOK
<1>7. CASE \E t \in Tids : ProcessSilently(t) BY <1>2, <1>7 DEF PairsOK
<1>8. CASE \E t \in Tids : Process(t) BY <1>3, <1>8 DEF PairsOK
<1> QED BY <1>4, <1>5, <1>6, <1>7, <1>8 DEF Next

-----------------------------------------------------------------------------
(* The remembered queries.                                                 *)

LEMMA SameSize ==
  ASSUME NEW S, IsFiniteSet(S), NEW T, NEW f \in [S -> T],
         \A x, y \in S : f[x] = f[y] => x = y, \A y \in T : \E x \in S : f[x] = y
  PROVE  IsFiniteSet(T) /\ Cardinality(T) = Cardinality(S)
<1>1. f \in Injection(S, T) BY DEF Injection, IsInjective
<1>2. f \in Surjection(S, T) BY DEF Surjection
<1>3. ExistsBijection(S, T) BY <1>1, <1>2 DEF ExistsBijection, Bijection
<1> QED BY <1>3, FS_Bijection

LEMMA QueriesKept ==
  ASSUME NEW evs, NEW longer, Grown(evs, longer), Asked(longer) = Asked(evs),
         NEW ds \in Seq(Nat), NEW p, QueriesAt(evs, ds, p)
  PROVE  QueriesAt(longer, ds, p)
<1>1. \A i \in 1..Len(ds) : p[i] \in Asked(evs) BY DEF QueriesAt
<1>2. \A j \in Asked(evs) : longer[j] = evs[j] BY DEF Asked, Grown
<1> QED BY <1>1, <1>2 DEF QueriesAt

(* A query more.                                                           *)
Adds(evs, longer, ds, new) ==
  /\ Grown(evs, longer) /\ Asked(longer) = Asked(evs) \cup {Len(evs) + 1}
  /\ Len(ds) \in Nat /\ Len(ds) < MaxDns
  /\ Len(new) = Len(ds) + 1 /\ new[Len(ds) + 1] = longer[Len(evs) + 1].ts
  /\ \A i \in 1..Len(ds) : new[i] = ds[i]

LEMMA QueryAdded ==
  ASSUME NEW evs, NEW longer, NEW ds, NEW new, Adds(evs, longer, ds, new),
         Remembers(evs, ds)
  PROVE  Remembers(longer, new)
<1> DEFINE n == Len(evs) + 1
<1>a. PICK p \in [1..Len(ds) -> Asked(evs)] : QueriesAt(evs, ds, p) BY DEF Remembers
<1> DEFINE m == Len(ds)
           g == [i \in 1..(m + 1) |-> IF i = m + 1 THEN n ELSE p[i]]
<1>0. m \in Nat /\ MaxDns \in Nat /\ Len(evs) \in Nat BY EngineBounds DEF Adds, Grown
<1>1. /\ Len(new) = m + 1 /\ new[m + 1] = longer[n].ts /\ \A i \in 1..m : new[i] = ds[i]
  BY DEF Adds
<1>2. /\ \A i \in 1..m : p[i] \in Asked(evs) /\ ds[i] = evs[p[i]].ts
      /\ \A i, j \in 1..m : i < j => p[i] < p[j]
      /\ \A j \in Asked(evs) : \E i \in 1..m : j = p[i]
  <2>1. m # MaxDns BY <1>0 DEF Adds
  <2> HIDE DEF m
  <2> QED BY <1>a, <2>1 DEF QueriesAt, m
<1>3. \A j \in Asked(evs) : j \in Nat /\ j < n /\ longer[j] = evs[j]
  BY <1>0 DEF Asked, Adds, Grown
<1>4. g[m + 1] = n /\ \A i \in 1..m : g[i] = p[i] BY <1>0
<1>b. Asked(longer) = Asked(evs) \cup {n} BY DEF Adds
<1>5. g \in [1..(m + 1) -> Asked(longer)] BY <1>0, <1>2, <1>b
<1> HIDE DEF g, m
<1>6. ASSUME NEW i \in 1..(m + 1), NEW j \in 1..(m + 1), i < j PROVE g[i] < g[j]
  <2>1. i \in 1..m BY <1>0, <1>6
  <2>2. CASE j = m + 1 BY <1>2, <1>3, <1>4, <2>1, <2>2
  <2>3. CASE j \in 1..m BY <1>2, <1>4, <1>6, <2>1, <2>3
  <2> QED BY <1>0, <2>2, <2>3
<1>7. ASSUME NEW i \in 1..(m + 1) PROVE new[i] = longer[g[i]].ts
  <2>1. CASE i = m + 1 BY <1>1, <1>4, <2>1
  <2>2. CASE i \in 1..m BY <1>1, <1>2, <1>3, <1>4, <2>2
  <2> QED BY <1>0, <2>1, <2>2
<1>8. ASSUME NEW j \in Asked(longer) PROVE \E i \in 1..(m + 1) : j = g[i]
  <2>1. CASE j = n BY <1>0, <1>4, <2>1
  <2>2. CASE j \in Asked(evs)
    <3>1. PICK i \in 1..m : j = p[i] BY <1>2, <2>2
    <3>2. i \in 1..(m + 1) BY <1>0
    <3> QED BY <1>4, <3>1, <3>2
  <2> QED BY <1>b, <2>1, <2>2
<1>9. QueriesAt(longer, new, g) BY <1>1, <1>5, <1>6, <1>7, <1>8 DEF QueriesAt
<1> QED BY <1>1, <1>5, <1>9 DEF Remembers

(* A query more when as many are remembered as may be.                     *)
Replaces(evs, longer, ds, new) ==
  /\ Grown(evs, longer) /\ Asked(longer) = Asked(evs) \cup {Len(evs) + 1}
  /\ Len(ds) = MaxDns /\ Len(new) = MaxDns /\ new[MaxDns] = longer[Len(evs) + 1].ts
  /\ \A i \in 1..(MaxDns - 1) : new[i] = ds[i + 1]

LEMMA QueryReplaced ==
  ASSUME NEW evs, NEW longer, NEW ds, NEW new, Replaces(evs, longer, ds, new),
         Remembers(evs, ds)
  PROVE  Remembers(longer, new)
<1> DEFINE n == Len(evs) + 1
<1>a. PICK p \in [1..Len(ds) -> Asked(evs)] : QueriesAt(evs, ds, p) BY DEF Remembers
<1> DEFINE m == MaxDns
           g == [i \in 1..m |-> IF i = m THEN n ELSE p[i + 1]]
<1>0. m \in Nat \ {0} /\ Len(evs) \in Nat BY EngineBounds DEF Replaces, Grown
<1>1. /\ Len(new) = m /\ new[m] = longer[n].ts /\ \A i \in 1..(m - 1) : new[i] = ds[i + 1]
  BY DEF Replaces
<1>2. /\ \A i \in 1..m : p[i] \in Asked(evs) /\ ds[i] = evs[p[i]].ts
      /\ \A i, j \in 1..m : i < j => p[i] < p[j]
      /\ \A j \in Asked(evs) : (\E i \in 1..m : j = p[i]) \/ j < p[1]
  BY <1>0, <1>a DEF QueriesAt, Replaces
<1>3. \A j \in Asked(evs) : j \in Nat /\ j < n /\ longer[j] = evs[j]
  BY <1>0 DEF Asked, Replaces, Grown
<1>4. g[m] = n /\ \A i \in 1..(m - 1) : g[i] = p[i + 1] /\ i + 1 \in 1..m BY <1>0
<1>b. Asked(longer) = Asked(evs) \cup {n} BY DEF Replaces
<1>5. g \in [1..m -> Asked(longer)]
  <2>1. \A i \in 1..m : i # m => i + 1 \in 1..m BY <1>0
  <2> QED BY <1>2, <1>b, <2>1
<1> HIDE DEF g, m
<1>6. ASSUME NEW i \in 1..m, NEW j \in 1..m, i < j PROVE g[i] < g[j]
  <2>1. i \in 1..(m - 1) BY <1>0, <1>6
  <2>2. CASE j = m BY <1>2, <1>3, <1>4, <2>1, <2>2
  <2>3. CASE j \in 1..(m - 1)
    <3>1. i + 1 < j + 1 BY <1>6
    <3> QED BY <1>2, <1>4, <2>1, <2>3, <3>1
  <2> QED BY <1>0, <2>2, <2>3
<1>7. ASSUME NEW i \in 1..m PROVE new[i] = longer[g[i]].ts
  <2>1. CASE i = m BY <1>1, <1>4, <2>1
  <2>2. CASE i \in 1..(m - 1)
    <3>1. g[i] = p[i + 1] /\ i + 1 \in 1..m /\ new[i] = ds[i + 1] BY <1>1, <1>4, <2>2
    <3>2. p[i + 1] \in Asked(evs) /\ ds[i + 1] = evs[p[i + 1]].ts BY <1>2, <3>1
    <3> QED BY <1>3, <3>1, <3>2
  <2> QED BY <1>0, <2>1, <2>2
<1>8. ASSUME NEW j \in Asked(longer) PROVE (\E i \in 1..m : j = g[i]) \/ j < g[1]
  <2>0. p[1] < g[1] /\ p[1] \in Nat /\ g[1] \in Nat
    <3>1. 1 \in 1..m /\ p[1] \in Nat /\ p[1] < n /\ n \in Nat BY <1>0, <1>2, <1>3
    <3>2. CASE m = 1 BY <1>4, <3>1, <3>2
    <3>3. CASE m # 1
      <4>1. 1 \in 1..(m - 1) /\ 2 \in 1..m BY <1>0, <3>3
      <4>2. g[1] = p[2] BY <1>4, <4>1
      <4> QED BY <1>2, <1>3, <3>1, <4>1, <4>2
    <3> QED BY <3>2, <3>3
  <2>1. CASE j = n BY <1>0, <1>4, <2>1
  <2>2. CASE j \in Asked(evs) /\ \E i \in 1..m : j = p[i]
    <3>1. PICK i \in 1..m : j = p[i] BY <2>2
    <3>2. CASE i = 1 BY <2>0, <3>1, <3>2
    <3>3. CASE i # 1
      <4>1. i - 1 \in 1..(m - 1) /\ i - 1 \in 1..m /\ (i - 1) + 1 = i BY <1>0, <3>3
      <4> QED BY <1>4, <3>1, <4>1
    <3> QED BY <3>2, <3>3
  <2>3. CASE j \in Asked(evs) /\ j < p[1] BY <1>3, <2>0, <2>3
  <2> QED BY <1>2, <1>b, <2>1, <2>2, <2>3
<1>9. QueriesAt(longer, new, g) BY <1>1, <1>5, <1>6, <1>7, <1>8 DEF QueriesAt, m
<1> QED BY <1>1, <1>5, <1>9 DEF Remembers, m

LEMMA DnsStep ==
  ASSUME InboxOK, EventsOK, LastOpenOK, HistoryOK, DnsOK, [Next]_vars
  PROVE  DnsOK'
<1>1. ASSUME NEW t \in Tids, Process(t) PROVE DnsOK'
  <2> DEFINE n == Len(events) + 1
             o == Coming(t)
  <2>1. /\ Grown(events, events') /\ events'[n] = Linked(t) /\ Len(events) \in Nat
        /\ Len(events') = IF Reports(t) THEN n + 1 ELSE n
        /\ Reports(t) => events'[n + 1] = LinkedReport(t)
    <3>1. Grown(events, events') BY <1>1, ProcessGrows
    <3>2. n + 1 = Len(events) + 2 BY <3>1 DEF Grown
    <3> QED BY <1>1, <3>1, <3>2, EventsGrow
  <2>2. inbox[t] # <<>> BY <1>1, ProcessDoes
  <2>3. Linked(t).note = Judged(o).note /\ Linked(t).ts = o.ts /\ o.ts \in Nat
        /\ (Reports(t) => LinkedReport(t).note = "")
    BY <2>2, EventFields, ReportFields, ComingOK DEF Observed, Observations
  <2>4. Asked(events') = IF Judged(o).note = "remembered" THEN Asked(events) \cup {n}
                         ELSE Asked(events)
    <3>1. ASSUME NEW j \in 1..Len(events')
          PROVE  \/ j \in 1..Len(events) /\ events'[j] = events[j]
                 \/ j = n /\ events'[j].note = Judged(o).note
                 \/ j = n + 1 /\ events'[j].note = ""
      <4>1. j \in 1..Len(events) \/ j = n \/ (j = n + 1 /\ Reports(t)) BY <2>1
      <4>2. j = n => events'[j].note = Judged(o).note BY <2>1, <2>3
      <4>3. j = n + 1 /\ Reports(t) => events'[j].note = "" BY <2>1, <2>3
      <4>4. j \in 1..Len(events) => events'[j] = events[j] BY <2>1 DEF Grown
      <4> QED BY <4>1, <4>2, <4>3, <4>4, Zenon
    <3>2. n \in 1..Len(events') /\ n \notin 1..Len(events) /\ n + 1 \notin 1..Len(events)
          /\ events'[n].note = Judged(o).note
      <4>1. n \in 1..Len(events') /\ n \notin 1..Len(events) /\ n + 1 \notin 1..Len(events)
        BY <2>1
      <4> QED BY <2>1, <2>3, <4>1
    <3>3. \A j \in 1..Len(events) : j \in 1..Len(events') /\ events'[j] = events[j]
      BY <2>1 DEF Grown
    <3> HIDE DEF n, o
    <3> QED BY <3>1, <3>2, <3>3 DEF Asked
  <2>5. PICK p \in [1..Len(dns) -> Asked(events)] : QueriesAt(events, dns, p)
    BY DEF DnsOK, Remembers
  <2>6. dns \in Seq(Nat) /\ Len(dns) <= MaxDns /\ Len(dns) \in Nat /\ MaxDns \in Nat \ {0}
    BY EngineBounds DEF DnsOK
  <2>7. dns' = IF Judged(o).note # "remembered" THEN dns
               ELSE IF Len(dns) < MaxDns THEN Append(dns, o.ts)
               ELSE Append(Tail(dns), o.ts)
    BY <1>1, ProcessDoes
  <2>8. events'[n].ts = o.ts BY <2>1, <2>3
  <2> HIDE DEF n, o
  <2>9. CASE Judged(o).note # "remembered"
    <3>1. dns' = dns /\ Asked(events') = Asked(events) BY <2>4, <2>7, <2>9
    <3>2. QueriesAt(events', dns, p) BY <2>1, <2>5, <2>6, <3>1, QueriesKept
    <3> QED BY <2>5, <2>6, <3>1, <3>2 DEF DnsOK, Remembers
  <2>10. CASE Judged(o).note = "remembered" /\ Len(dns) < MaxDns
    <3>1. dns' = Append(dns, events'[n].ts) /\ Asked(events') = Asked(events) \cup {n}
      BY <2>4, <2>7, <2>8, <2>10
    <3>2. /\ dns' \in Seq(Nat) /\ Len(dns') = Len(dns) + 1
          /\ dns'[Len(dns) + 1] = events'[n].ts
          /\ \A i \in 1..Len(dns) : dns'[i] = dns[i]
      <4> DEFINE x == events'[n].ts
      <4>1. dns' = Append(dns, x) /\ x \in Nat BY <2>3, <2>8, <3>1
      <4> HIDE DEF x
      <4>2. /\ dns' \in Seq(Nat) /\ Len(dns') = Len(dns) + 1 /\ dns'[Len(dns) + 1] = x
            /\ \A i \in 1..Len(dns) : dns'[i] = dns[i]
        BY <2>6, <4>1, AppendProperties
      <4> QED BY <4>2 DEF x
    <3>3. Adds(events, events', dns, dns') BY <2>1, <2>6, <2>10, <3>1, <3>2 DEF Adds, n
    <3>4. Remembers(events', dns') BY <3>3, QueryAdded DEF DnsOK
    <3> QED BY <2>6, <2>10, <3>2, <3>4 DEF DnsOK
  <2>11. CASE Judged(o).note = "remembered" /\ Len(dns) = MaxDns
    <3>1. /\ dns' = Append(Tail(dns), events'[n].ts)
          /\ Asked(events') = Asked(events) \cup {n}
      BY <2>4, <2>6, <2>7, <2>8, <2>11
    <3>2. /\ Tail(dns) \in Seq(Nat) /\ Len(Tail(dns)) = Len(dns) - 1
          /\ \A i \in 1..(Len(dns) - 1) : Tail(dns)[i] = dns[i + 1]
      <4>1. dns # <<>> BY <2>6, <2>11
      <4> QED BY <2>6, <4>1, HeadTailProperties
    <3>3. /\ dns' \in Seq(Nat) /\ Len(dns') = Len(dns) /\ dns'[Len(dns)] = events'[n].ts
          /\ \A i \in 1..(Len(dns) - 1) : dns'[i] = dns[i + 1]
      <4> DEFINE u == Tail(dns)
                 x == events'[n].ts
      <4>1. /\ u \in Seq(Nat) /\ Len(u) = Len(dns) - 1 /\ dns' = Append(u, x) /\ x \in Nat
            /\ \A i \in 1..(Len(dns) - 1) : u[i] = dns[i + 1]
        BY <2>3, <2>8, <3>1, <3>2
      <4> HIDE DEF u, x
      <4>2. /\ dns' \in Seq(Nat) /\ Len(dns') = Len(u) + 1 /\ dns'[Len(u) + 1] = x
            /\ \A i \in 1..Len(u) : dns'[i] = u[i]
        BY <4>1, AppendProperties
      <4>3. Len(u) + 1 = Len(dns) BY <2>6, <4>1
      <4> QED BY <4>1, <4>2, <4>3 DEF x
    <3>4. Replaces(events, events', dns, dns') BY <2>1, <2>11, <3>1, <3>3 DEF Replaces, n
    <3>5. Remembers(events', dns') BY <3>4, QueryReplaced DEF DnsOK
    <3> QED BY <2>6, <3>3, <3>5 DEF DnsOK
  <2> QED BY <2>6, <2>9, <2>10, <2>11
<1>2. CASE ~ \E t \in Tids : Process(t) BY <1>2, OnlyProcess DEF DnsOK
<1> QED BY <1>1, <1>2

-----------------------------------------------------------------------------
(* Attribution.                                                            *)

AskedBefore(evs, i) == {j \in 1..(i - 1) : evs[j].note = "remembered"}
After(evs, i, j) == {k \in AskedBefore(evs, i) : k > j}
QueriesOf(evs, i) ==
  {j \in AskedBefore(evs, i) : Cardinality(After(evs, i, j)) < MaxDns}

AttributedAt(evs, i) ==
  evs[i].note \in {"attributed", "unlisted"} =>
    (evs[i].note = "attributed" <=>
       \E j \in QueriesOf(evs, i) : evs[i].ts - evs[j].ts <= AttributionSecs)

LEMMA AttributionAt ==
  AttributionIsExact <=> \A i \in 1..Len(events) : AttributedAt(events, i)
<1>1. \A i : Queries(i) = QueriesOf(events, i)
  BY DEF Queries, QueriesOf, AskedBefore, After
<1> QED BY <1>1 DEF AttributionIsExact, AttributedAt

LEMMA AttributedKept ==
  ASSUME NEW evs, NEW longer, Grown(evs, longer), NEW i \in 1..Len(evs),
         AttributedAt(evs, i)
  PROVE  AttributedAt(longer, i)
<1>1. \A j \in 1..i : longer[j] = evs[j] BY DEF Grown
<1>2. AskedBefore(longer, i) = AskedBefore(evs, i) /\ i \in 1..i
  <2>1. Len(evs) \in Nat BY DEF Grown
  <2> QED BY <1>1, <2>1 DEF AskedBefore
<1>3. QueriesOf(longer, i) = QueriesOf(evs, i) BY <1>2 DEF QueriesOf, After
<1>4. \A j \in QueriesOf(evs, i) : longer[j] = evs[j]
  <2>1. Len(evs) \in Nat BY DEF Grown
  <2> QED BY <1>1, <2>1 DEF QueriesOf, AskedBefore
<1> QED BY <1>1, <1>2, <1>3, <1>4 DEF AttributedAt

(* What is remembered when the next event is judged.                       *)
LEMMA RememberedQueries ==
  ASSUME NEW evs, Len(evs) \in Nat, NEW ds, Len(ds) \in Nat, Len(ds) <= MaxDns,
         NEW p, QueriesAt(evs, ds, p)
  PROVE  QueriesOf(evs, Len(evs) + 1) = {p[i] : i \in 1..Len(ds)}
<1> DEFINE m == Len(ds)
           n == Len(evs) + 1
           all == AskedBefore(evs, n)
<1>0. m \in Nat /\ MaxDns \in Nat \ {0} BY EngineBounds
<1>1. all = Asked(evs)
  <2>1. n - 1 = Len(evs) OBVIOUS
  <2> QED BY <2>1 DEF AskedBefore, Asked
<1>2. /\ \A i \in 1..m : p[i] \in all
      /\ \A i, j \in 1..m : i < j => p[i] < p[j]
      /\ \A j \in all : (\E i \in 1..m : j = p[i]) \/ (m = MaxDns /\ j < p[1])
  BY <1>1 DEF QueriesAt
<1>3. \A j \in all : j \in Nat BY <1>1 DEF Asked
<1>4. \A i, j \in 1..m : p[i] = p[j] => i = j
  <2>1. \A i, j \in 1..m : p[i] \in Nat /\ p[j] \in Nat BY <1>2, <1>3
  <2>2. \A i, j \in 1..m : i < j \/ j < i \/ i = j OBVIOUS
  <2> QED BY <1>2, <2>1, <2>2
<1>5. IsFiniteSet(all)
  <2>1. IsFiniteSet(1..Len(evs)) BY FS_Interval
  <2>2. all \subseteq 1..Len(evs) BY <1>1 DEF Asked
  <2> QED BY <2>1, <2>2, FS_Subset
<1> HIDE DEF m, n, all
<1>6. ASSUME NEW i \in 1..m PROVE Cardinality(After(evs, n, p[i])) < MaxDns
  <2> DEFINE S == (i + 1)..m
             T == After(evs, n, p[i])
             f == [j \in S |-> p[j]]
  <2>1. IsFiniteSet(S) /\ Cardinality(S) = m - i
    <3>1. Cardinality(S) = IF i + 1 > m THEN 0 ELSE m - (i + 1) + 1
      BY <1>0, FS_Interval
    <3>2. IsFiniteSet(S) BY <1>0, FS_Interval
    <3> QED BY <1>0, <3>1, <3>2
  <2>2. \A j \in S : j \in 1..m /\ i < j BY <1>0
  <2>3. ASSUME NEW j \in S PROVE p[j] \in T BY <1>2, <2>2 DEF After, all
  <2>4. f \in [S -> T] BY <2>3
  <2>5. \A x, y \in S : f[x] = f[y] => x = y BY <1>4, <2>2
  <2>6. ASSUME NEW y \in T PROVE \E x \in S : f[x] = y
    <3>1. y \in all /\ y > p[i] BY DEF After, all
    <3>2. /\ 1 \in 1..m /\ p[1] \in Nat /\ p[i] \in Nat /\ y \in Nat
          /\ (1 < i => p[1] < p[i])
      BY <1>0, <1>2, <1>3, <3>1
    <3>3. ~(y < p[1]) BY <3>1, <3>2
    <3>4. PICK x \in 1..m : y = p[x] BY <1>2, <3>1, <3>3
    <3>5. ~(x < i) /\ x # i
      <4>1. x < i => p[x] < p[i] BY <1>2
      <4> QED BY <3>1, <3>2, <3>4, <4>1
    <3>6. x \in S BY <1>0, <3>5
    <3> QED BY <3>4, <3>6
  <2> HIDE DEF S, T, f
  <2>7. Cardinality(T) = Cardinality(S) BY <2>1, <2>4, <2>5, <2>6, SameSize
  <2> QED BY <1>0, <2>1, <2>7 DEF T, m
<1>7. ASSUME NEW j \in all, ~ \E i \in 1..m : j = p[i]
      PROVE  ~(Cardinality(After(evs, n, j)) < MaxDns)
  <2> DEFINE S == 1..m
             T == {p[i] : i \in S}
             f == [i \in S |-> p[i]]
             A == After(evs, n, j)
  <2>1. m = MaxDns /\ j < p[1] BY <1>2, <1>7
  <2>2. IsFiniteSet(S) /\ Cardinality(S) = m
    <3>1. Cardinality(S) = IF 1 > m THEN 0 ELSE m - 1 + 1 BY <1>0, FS_Interval
    <3>2. IsFiniteSet(S) BY <1>0, FS_Interval
    <3> QED BY <1>0, <3>1, <3>2
  <2>3. f \in [S -> T] OBVIOUS
  <2>4. \A x, y \in S : f[x] = f[y] => x = y BY <1>4
  <2>5. \A y \in T : \E x \in S : f[x] = y OBVIOUS
  <2>6. ASSUME NEW i \in S PROVE p[i] \in A
    <3>1. 1 \in 1..m /\ p[1] \in Nat /\ p[i] \in Nat /\ (1 < i => p[1] < p[i]) /\ j \in Nat
      BY <1>0, <1>2, <1>3
    <3>2. p[i] > j BY <2>1, <3>1
    <3> QED BY <1>2, <3>2 DEF After, all
  <2>7. T \subseteq A BY <2>6
  <2>8. IsFiniteSet(A)
    <3>1. A \subseteq all BY DEF After, all
    <3> QED BY <1>5, <3>1, FS_Subset
  <2> HIDE DEF S, T, f, A
  <2>9. Cardinality(T) = Cardinality(S) BY <2>2, <2>3, <2>4, <2>5, SameSize
  <2>10. Cardinality(T) <= Cardinality(A) BY <2>7, <2>8, FS_Subset
  <2>11. Cardinality(A) \in Nat BY <2>8, FS_CardinalityType
  <2> QED BY <1>0, <2>1, <2>2, <2>9, <2>10, <2>11 DEF A
<1> QED BY <1>2, <1>6, <1>7 DEF QueriesOf, all, m, n

LEMMA AttributionStep ==
  ASSUME InboxOK, EventsOK, LastOpenOK, HistoryOK, DnsOK, [Next]_vars,
         AttributionIsExact
  PROVE  AttributionIsExact'
<1>1. ASSUME NEW t \in Tids, Process(t) PROVE AttributionIsExact'
  <2> DEFINE n == Len(events) + 1
             o == Coming(t)
  <2>1. /\ Grown(events, events') /\ events'[n] = Linked(t) /\ Len(events) \in Nat
        /\ Len(events') = IF Reports(t) THEN n + 1 ELSE n
        /\ Reports(t) => events'[n + 1] = LinkedReport(t)
    <3>1. Grown(events, events') BY <1>1, ProcessGrows
    <3>2. n + 1 = Len(events) + 2 BY <3>1 DEF Grown
    <3> QED BY <1>1, <3>1, <3>2, EventsGrow
  <2>2. \A i \in 1..Len(events) : AttributedAt(events', i)
    BY <2>1, AttributionAt, AttributedKept
  <2>3. AttributedAt(events', n)
    <3>1. PICK p \in [1..Len(dns) -> Asked(events)] : QueriesAt(events, dns, p)
      BY DEF DnsOK, Remembers
    <3>2. Len(dns) \in Nat /\ Len(dns) <= MaxDns BY DEF DnsOK
    <3>3. QueriesOf(events, n) = {p[i] : i \in 1..Len(dns)}
      BY <2>1, <3>1, <3>2, RememberedQueries
    <3>4. \A j \in 1..Len(events) : events'[j] = events[j] BY <2>1 DEF Grown
    <3>5. n - 1 = Len(events) BY <2>1
    <3>6. AskedBefore(events', n) = AskedBefore(events, n) BY <3>4, <3>5 DEF AskedBefore
    <3>7. QueriesOf(events', n) = QueriesOf(events, n) BY <3>6 DEF QueriesOf, After
    <3>8. \A i \in 1..Len(dns) : dns[i] = events'[p[i]].ts
      BY <3>1, <3>4 DEF QueriesAt, Asked
    <3>9. events'[n].note = Judged(o).note /\ events'[n].ts = o.ts BY <2>1, LinkedIs
    <3>10. Attributed(o.ts) <=>
             \E j \in QueriesOf(events', n) : o.ts - events'[j].ts <= AttributionSecs
      <4> HIDE DEF o, n
      <4> QED BY <3>3, <3>7, <3>8 DEF Attributed
    <3>11. Judged(o).note \in {"attributed", "unlisted"} =>
             (Judged(o).note = "attributed" <=> Attributed(o.ts))
      BY JudgedWell
    <3> HIDE DEF n, o
    <3> QED BY <3>9, <3>10, <3>11 DEF AttributedAt
  <2>4. Reports(t) => AttributedAt(events', n + 1)
    <3>1. Reports(t) => events'[n + 1].note = "" BY <2>1, ReportIs
    <3> QED BY <3>1 DEF AttributedAt
  <2>5. ASSUME NEW i \in 1..Len(events') PROVE AttributedAt(events', i)
    <3>1. i \in 1..Len(events) \/ i = n \/ (i = n + 1 /\ Reports(t)) BY <2>1
    <3> QED BY <2>2, <2>3, <2>4, <3>1
  <2>6. \A i : Queries(i)' = QueriesOf(events', i)
    BY DEF Queries, QueriesOf, AskedBefore, After
  <2> QED BY <2>5, <2>6 DEF AttributionIsExact, AttributedAt
<1>2. CASE ~ \E t \in Tids : Process(t)
  <2>1. events' = events BY <1>2, OnlyProcess
  <2>2. \A i : Queries(i)' = Queries(i) BY <2>1 DEF Queries
  <2> QED BY <2>1, <2>2 DEF AttributionIsExact
<1> QED BY <1>1, <1>2

-----------------------------------------------------------------------------
(* Confirmations and what is left out.                                     *)

LEMMA DropsGrow ==
  ASSUME InboxOK, [Next]_vars, drops' = 0
  PROVE  drops = 0
<1>1. ASSUME NEW t \in Tids, NEW shape \in Shapes[agent], Call(t, shape) PROVE drops = 0
  BY <1>1, CallDoes
<1>2. CASE Elapse BY <1>2 DEF Elapse
<1>3. ASSUME NEW t \in Tids, ProcessSilently(t) PROVE drops = 0 BY <1>3, SilentlyDoes
<1>4. ASSUME NEW t \in Tids, Process(t) PROVE drops = 0 BY <1>4, ProcessDoes
<1>5. CASE UNCHANGED vars BY <1>5 DEF vars
<1> QED BY <1>1, <1>2, <1>3, <1>4, <1>5 DEF Next

(* The thread's last open of the path, when the kernel's account of an     *)
(* open is next.                                                           *)
LEMMA OwnOpen ==
  ASSUME InboxOK, EventsOK, LastOpenOK, PairsOK, NEW t \in Tids, inbox[t] # <<>>,
         NEW l \in LastOpen(Coming(t), t)
  PROVE  /\ Coming(t).kind = "open" /\ Coming(t).res = "kernel"
         /\ l \in lastOpen[t] /\ l.seq \in 1..Len(events)
         /\ events[l.seq].tid = t /\ events[l.seq].path = Coming(t).path
         /\ events[l.seq].kind = "open" /\ events[l.seq].res # "kernel"
         /\ events[l.seq].verdict = l.verdict
         /\ \A k \in lastOpen[t] : k = l
         /\ drops = 0 => JustDone(events, lastOpen[t], Coming(t))
<1>1. /\ Coming(t).kind = "open" /\ Coming(t).res = "kernel"
      /\ l \in lastOpen[t] /\ l.path = Coming(t).path
  BY DEF LastOpen
<1>2. OpenOf(events, t, lastOpen[t]) BY DEF LastOpenOK
<1>3. drops = 0 => JustDone(events, lastOpen[t], Coming(t))
  <2>1. Coming(t) = inbox[t][1] /\ 1 \in 1..Len(inbox[t]) BY ComingOK
  <2>2. drops = 0 => Paired(events, lastOpen[t], inbox[t]) BY DEF PairsOK
  <2> QED BY <1>1, <2>1, <2>2 DEF Paired, PairedAt
<1> QED BY <1>1, <1>2, <1>3 DEF OpenOf

ConfirmsAt(evs, i, lost) ==
  evs[i].confirms # 0 =>
    LET e == evs[i]
        c == evs[e.confirms]
    IN /\ e.confirms < i /\ c.tid = e.tid /\ c.path = e.path
       /\ c.verdict = "violation" /\ c.kind = "open" /\ c.res # "kernel"
       /\ lost = 0 => c.call = e.call \/ ~e.hooked

LEMMA ConfirmsKept ==
  ASSUME NEW evs \in Seq(Evs), NEW longer, Grown(evs, longer), NEW i \in 1..Len(evs),
         NEW lost, ConfirmsAt(evs, i, lost)
  PROVE  ConfirmsAt(longer, i, lost)
<1>1. longer[i] = evs[i] BY DEF Grown
<1>2. SUFFICES ASSUME longer[i].confirms # 0 PROVE ConfirmsAt(longer, i, lost)
  BY DEF ConfirmsAt
<1>3. evs[i].confirms \in Nat /\ evs[i].confirms # 0 /\ evs[i].confirms < i
  <2>1. evs[i] \in Evs OBVIOUS
  <2> QED BY <1>1, <1>2, <2>1 DEF ConfirmsAt, Evs
<1>4. evs[i].confirms \in 1..Len(evs) BY <1>3
<1>5. longer[evs[i].confirms] = evs[evs[i].confirms] BY <1>4 DEF Grown
<1> QED BY <1>1, <1>2, <1>3, <1>5 DEF ConfirmsAt

LEMMA ConfirmsStep ==
  ASSUME InboxOK, EventsOK, LastOpenOK, PairsOK, HistoryOK, [Next]_vars, ConfirmsOwn
  PROVE  ConfirmsOwn'
<1>0. \A i \in 1..Len(events) : ConfirmsAt(events, i, drops)
  BY DEF ConfirmsOwn, ConfirmsAt
<1>1. ASSUME NEW t \in Tids, Process(t)
      PROVE  \A i \in 1..Len(events') : ConfirmsAt(events', i, drops)
  <2> DEFINE n == Len(events) + 1
             o == Coming(t)
  <2>1. /\ Grown(events, events') /\ events'[n] = Linked(t) /\ Len(events) \in Nat
        /\ Len(events') = IF Reports(t) THEN n + 1 ELSE n
        /\ Reports(t) => events'[n + 1] = LinkedReport(t)
    <3>1. Grown(events, events') BY <1>1, ProcessGrows
    <3>2. n + 1 = Len(events) + 2 BY <3>1 DEF Grown
    <3> QED BY <1>1, <3>1, <3>2, EventsGrow
  <2>2. \A i \in 1..Len(events) : ConfirmsAt(events', i, drops)
    BY <1>0, <2>1, ConfirmsKept DEF EventsOK
  <2>3. inbox[t] # <<>> /\ \A l \in Own(t) : l.verdict # "allowed" BY <1>1, ProcessDoes
  <2>4. ConfirmsAt(events', n, drops)
    <3>1. SUFFICES ASSUME events'[n].confirms # 0 PROVE ConfirmsAt(events', n, drops)
      BY DEF ConfirmsAt
    <3>2. Own(t) # {} /\ events'[n].confirms = (CHOOSE l \in Own(t) : TRUE).seq
      BY <2>1, <3>1, EventFields
    <3>3. PICK l \in Own(t) : events'[n].confirms = l.seq BY <3>2
    <3>4. /\ l \in lastOpen[t] /\ l.seq \in 1..Len(events)
          /\ events[l.seq].tid = t /\ events[l.seq].path = o.path
          /\ events[l.seq].kind = "open" /\ events[l.seq].res # "kernel"
          /\ events[l.seq].verdict = l.verdict
          /\ \A k \in lastOpen[t] : k = l
          /\ drops = 0 => JustDone(events, lastOpen[t], o)
      BY <2>3, OwnOpen DEF Own
    <3>5. events[l.seq].verdict = "violation"
      <4>1. Recorded(agent, clock, calls, events[l.seq]) BY <3>4 DEF EventsOK
      <4> QED BY <2>3, <3>4, <4>1 DEF Recorded
    <3>6. events'[l.seq] = events[l.seq] /\ l.seq < n BY <2>1, <3>4 DEF Grown
    <3>7. /\ events'[n].tid = t /\ events'[n].path = o.path /\ events'[n].call = o.call
          /\ events'[n].hooked = o.hooked
      BY <2>1, EventFields
    <3>8. drops = 0 => events[l.seq].call = o.call \/ ~o.hooked BY <3>4 DEF JustDone
    <3> HIDE DEF n, o
    <3> QED BY <3>3, <3>4, <3>5, <3>6, <3>7, <3>8 DEF ConfirmsAt
  <2>5. Reports(t) => ConfirmsAt(events', n + 1, drops)
    <3>1. Reports(t) => events'[n + 1].confirms = 0 BY <2>1, ReportIs
    <3> QED BY <3>1 DEF ConfirmsAt
  <2>6. ASSUME NEW i \in 1..Len(events') PROVE ConfirmsAt(events', i, drops)
    <3>1. i \in 1..Len(events) \/ i = n \/ (i = n + 1 /\ Reports(t)) BY <2>1
    <3> QED BY <2>2, <2>4, <2>5, <3>1
  <2> QED BY <2>6
<1>2. \A i \in 1..Len(events') : ConfirmsAt(events', i, drops)
  <2>1. CASE ~ \E t \in Tids : Process(t)
    <3>1. events' = events BY <2>1, OnlyProcess
    <3> QED BY <1>0, <3>1
  <2> QED BY <1>1, <2>1
<1>3. drops' = 0 => drops = 0 BY DropsGrow
<1>4. \A i \in 1..Len(events') : ConfirmsAt(events', i, drops') BY <1>2, <1>3 DEF ConfirmsAt
<1> QED BY <1>4 DEF ConfirmsOwn, ConfirmsAt

(* What is known of an open is known of every open of the path.            *)
LEMMA SamePath ==
  ASSUME NEW a \in Agents, NEW o, NEW e, Known(a, o), Known(a, e), o.path = e.path
  PROVE  o.facts \ {"other_proc"} = e.facts \ {"other_proc"}
<1>1. PICK s \in Shapes[a] : \E i \in 1..Len(s) :
        s[i].kind = "open" /\ s[i].path = o.path /\ s[i].facts = o.facts
  BY DEF Known
<1>2. PICK i \in 1..Len(s) : s[i].kind = "open" /\ s[i].path = o.path /\ s[i].facts = o.facts
  BY <1>1
<1>3. PICK u \in Shapes[a] : \E j \in 1..Len(u) :
        u[j].kind = "open" /\ u[j].path = e.path /\ u[j].facts = e.facts
  BY DEF Known
<1>4. PICK j \in 1..Len(u) : u[j].kind = "open" /\ u[j].path = e.path /\ u[j].facts = e.facts
  BY <1>3
<1>5. s[i].facts \ {"other_proc"} = u[j].facts \ {"other_proc"}
  BY <1>2, <1>4, EngineShapes
<1> QED BY <1>2, <1>4, <1>5

(* An observation is left out rightly.                                     *)
OpenAllowed(o) == o.setup \/ DecideFile(o.facts, o.op, o.res).verdict = "allowed"
Excepted(evs, s) ==
  \E i \in 1..Len(evs) :
    /\ evs[i].tid = s.tid /\ evs[i].path = s.of.path
    /\ \/ evs[i].setup /\ evs[i].call < s.of.call
       \/ evs[i].note = "benign"
       \/ evs[i].op = "write" /\ s.of.op # "write" /\ "runtime_write" \in s.of.facts
       \/ /\ evs[i].op # "write" /\ s.of.op = "write"
          /\ evs[i].call = s.of.call \/ ~s.of.hooked

LEMMA SilencedRightly ==
  ASSUME InboxOK, EventsOK, LastOpenOK, PairsOK, NEW t \in Tids, inbox[t] # <<>>, drops = 0,
         NEW l \in LastOpen(Coming(t), t), l.verdict = "allowed",
         ~OpenAllowed(Coming(t)), NEW s, s.tid = t, s.of = Coming(t)
  PROVE  Excepted(events, s)
<1> DEFINE o == Coming(t)
           c == events[l.seq]
<1>1. /\ o.kind = "open" /\ o.res = "kernel" /\ l.seq \in 1..Len(events)
      /\ c.tid = t /\ c.path = o.path /\ c.kind = "open" /\ c.res # "kernel"
      /\ c.verdict = "allowed" /\ \A k \in lastOpen[t] : k = l
      /\ l \in lastOpen[t] /\ JustDone(events, lastOpen[t], o)
  BY OwnOpen
<1>2. Recorded(agent, clock, calls, c) BY <1>1 DEF EventsOK
<1>3. Observed(agent, clock, calls, o) BY ComingOK
<1>4. /\ agent \in Agents /\ Known(agent, o) /\ Known(agent, c)
      /\ o.facts \in SUBSET Facts /\ c.facts \in SUBSET Facts
  BY <1>1, <1>2, <1>3 DEF InboxOK, Recorded, Observed, Observations, Evs
<1>5. c.facts \ {"other_proc"} = o.facts \ {"other_proc"} BY <1>1, <1>4, SamePath
<1>6. ~c.setup /\ c.note # "benign" => DecideFile(c.facts, c.op, c.res).verdict = "allowed"
  BY <1>1, <1>2 DEF Recorded
<1>7. ~o.setup /\ DecideFile(o.facts, o.op, "kernel").verdict # "allowed"
  BY <1>1 DEF OpenAllowed
<1>8. /\ c.call = o.call \/ ~o.hooked
      /\ c.setup = o.setup \/ c.call < o.call
  <2>1. \A k \in lastOpen[t] : events[k.seq] = c BY <1>1
  <2> HIDE DEF o, c
  <2> QED BY <1>1, <2>1 DEF JustDone
<1>9. CASE \/ c.setup \/ c.note = "benign"
           \/ c.op = "write" /\ o.op # "write" /\ "runtime_write" \in o.facts
           \/ c.op # "write" /\ o.op = "write"
  <2>1. l.seq \in 1..Len(events) /\ c.tid = s.tid /\ c.path = s.of.path /\ s.of = o
    BY <1>1
  <2> HIDE DEF o
  <2>2. c.setup => c.call < o.call BY <1>7, <1>8
  <2> QED BY <1>8, <1>9, <2>1, <2>2 DEF Excepted
<1>10. CASE /\ ~c.setup /\ c.note # "benign"
            /\ c.op # "write" \/ o.op = "write" \/ "runtime_write" \notin o.facts
            /\ c.op = "write" \/ o.op # "write"
  <2> HIDE DEF o, c
  <2>1. DecideFile(c.facts, c.op, c.res).verdict = "allowed" BY <1>6, <1>10
  <2>2. DecideFile(o.facts, o.op, "kernel").verdict = "allowed"
    BY <1>1, <1>4, <1>5, <1>10, <2>1, AllowedByKernel
  <2> QED BY <1>7, <2>2
<1> QED BY <1>9, <1>10

LEMMA SilencedStep ==
  ASSUME InboxOK, EventsOK, LastOpenOK, PairsOK, HistoryOK, SilencedOK, [Next]_vars,
         SilencedAreAllowed
  PROVE  SilencedOK' /\ SilencedAreAllowed'
<1>1. \A s : s.of.kind = "open" => (Decide(s.of).verdict = "allowed" <=> OpenAllowed(s.of))
  BY DEF Decide, OpenAllowed, Allow, Decision
<1>2. \A s : s.of.kind = "open" =>
        ((Decide(s.of).verdict = "allowed")' <=> OpenAllowed(s.of))
  BY DEF Decide, OpenAllowed, Allow, Decision
<1>3. drops = 0 => \A s \in silenced : OpenAllowed(s.of) \/ Excepted(events, s)
  BY <1>1 DEF SilencedOK, SilencedAreAllowed, Excepted
<1>4. drops' = 0 => drops = 0 BY DropsGrow
<1>5. ASSUME SilencedOK',
             drops' = 0 => \A s \in silenced' : OpenAllowed(s.of) \/ Excepted(events', s)
      PROVE  SilencedAreAllowed'
  BY <1>2, <1>5 DEF SilencedOK, SilencedAreAllowed, Excepted
<1>6. ASSUME NEW t \in Tids, ProcessSilently(t)
      PROVE  /\ SilencedOK'
             /\ drops' = 0 => \A s \in silenced' : OpenAllowed(s.of) \/ Excepted(events', s)
  <2> DEFINE new == [tid |-> t, of |-> Coming(t)]
  <2>1. /\ inbox[t] # <<>> /\ silenced' = silenced \cup {new} /\ events' = events
        /\ \E l \in LastOpen(Coming(t), t) : l.verdict = "allowed"
    BY <1>6, SilentlyDoes
  <2>2. PICK l \in LastOpen(Coming(t), t) : l.verdict = "allowed" BY <2>1
  <2>3. new.tid = t /\ new.of = Coming(t) OBVIOUS
  <2> HIDE DEF new
  <2>4. new.of.kind = "open" BY <2>2, <2>3 DEF LastOpen
  <2>5. drops = 0 => OpenAllowed(new.of) \/ Excepted(events, new)
    BY <2>1, <2>2, <2>3, SilencedRightly
  <2> QED BY <1>3, <1>4, <2>1, <2>4, <2>5 DEF SilencedOK
<1>7. ASSUME silenced' = silenced, Grown(events, events')
      PROVE  /\ SilencedOK'
             /\ drops' = 0 => \A s \in silenced' : OpenAllowed(s.of) \/ Excepted(events', s)
  <2>1. \A s : Excepted(events, s) => Excepted(events', s) BY <1>7 DEF Excepted, Grown
  <2> QED BY <1>3, <1>4, <1>7, <2>1 DEF SilencedOK
<1>8. ASSUME NEW t \in Tids, Process(t) PROVE silenced' = silenced /\ Grown(events, events')
  BY <1>8, ProcessDoes, ProcessGrows
<1>9. Grown(events, events) BY DEF Grown, EventsOK
<1>10. CASE ~ \E t \in Tids : ProcessSilently(t) \/ Process(t)
  <2>1. silenced' = silenced
    <3>1. ASSUME NEW t \in Tids, NEW shape \in Shapes[agent], Call(t, shape)
          PROVE  silenced' = silenced
      BY <3>1 DEF Call
    <3> QED BY <1>10, <3>1 DEF Next, Elapse, vars
  <2>2. events' = events BY <1>10, OnlyProcess
  <2> QED BY <1>5, <1>7, <1>9, <2>1, <2>2
<1> QED BY <1>5, <1>6, <1>7, <1>8, <1>10

-----------------------------------------------------------------------------
(* Links.                                                                  *)

LEMMA LinksBack ==
  ASSUME NEW evs \in Seq(Evs), NEW h, HistoryOf(evs, h), NEW ev, NEW s \in Correlate(h, ev)
  PROVE  s \in 1..Len(evs) /\ evs[s].ts >= ev.ts - CorrelationSecs
<1>1. h \in Seq(Recents) BY DEF HistoryOf
<1>2. PICK i \in 1..Len(h) : s = h[i].seq /\ h[i].ts >= ev.ts - CorrelationSecs
  BY <1>1, Correlated
<1> DEFINE p == Len(evs) - Len(h) + i
<1>3. Len(h) \in Nat /\ Len(evs) \in Nat /\ Len(h) <= Len(evs)
  BY <1>1, EngineBounds DEF HistoryOf
<1>4. p \in 1..Len(evs) BY <1>3
<1>5. h[i] = Recent(p, evs[p]) BY DEF HistoryOf
<1> HIDE DEF p
<1>6. evs[p] \in Evs /\ p \in Nat BY <1>4
<1>7. h[i].seq = p /\ h[i].ts = evs[p].ts BY <1>5, <1>6, RecentOK
<1> QED BY <1>2, <1>4, <1>7

LEMMA CredentialsLinked ==
  ASSUME NEW evs \in Seq(Evs), NEW h, HistoryOf(evs, h), NEW ev,
         ev.category \in NetworkCategories,
         NEW j \in 1..Len(evs), evs[j].category = "credential",
         evs[j].ts >= ev.ts - CorrelationSecs, (Len(evs) + 1) - j <= History
  PROVE  j \in Correlate(h, ev)
<1>1. h \in Seq(Recents) /\ Len(h) \in Nat /\ Len(evs) \in Nat /\ History \in Nat
  BY EngineBounds DEF HistoryOf
<1> DEFINE i == j - (Len(evs) - Len(h))
<1>2. i \in 1..Len(h)
  <2>1. CASE Len(evs) < History BY <1>1, <2>1 DEF HistoryOf
  <2>2. CASE ~(Len(evs) < History) BY <1>1, <2>2 DEF HistoryOf
  <2> QED BY <2>1, <2>2
<1>3. Len(evs) - Len(h) + i = j BY <1>1
<1> HIDE DEF i
<1>4. h[i] = Recent(j, evs[j]) BY <1>2, <1>3 DEF HistoryOf
<1>5. evs[j] \in Evs /\ j \in Nat OBVIOUS
<1>6. h[i].seq = j /\ h[i].ts = evs[j].ts
      /\ h[i].credential = (evs[j].category = "credential")
  BY <1>4, <1>5, RecentOK
<1>7. h[i].credential BY <1>6
<1> QED BY <1>1, <1>2, <1>6, <1>7, CredentialsCorrelated

Near(evs, i) == {j \in 1..(i - 1) : evs[j].ts >= evs[i].ts - CorrelationSecs}
LinkedAt(evs, i) ==
  /\ evs[i].related \subseteq Near(evs, i)
  /\ evs[i].verdict = "violation" /\ evs[i].category \in NetworkCategories =>
       {j \in Near(evs, i) : evs[j].category = "credential" /\ i - j <= History}
         \subseteq evs[i].related

LEMMA LinkedKept ==
  ASSUME NEW evs, NEW longer, Grown(evs, longer), NEW i \in 1..Len(evs), LinkedAt(evs, i)
  PROVE  LinkedAt(longer, i)
<1>1. \A j \in 1..i : longer[j] = evs[j] BY DEF Grown
<1>2. longer[i] = evs[i] /\ \A j \in 1..(i - 1) : longer[j] = evs[j] BY <1>1
<1>3. Near(longer, i) = Near(evs, i) BY <1>2 DEF Near
<1>4. \A j \in Near(evs, i) : longer[j] = evs[j] BY <1>2 DEF Near
<1> QED BY <1>2, <1>3, <1>4 DEF LinkedAt

LEMMA LinkedStep ==
  ASSUME InboxOK, EventsOK, LastOpenOK, HistoryOK, [Next]_vars, ExfiltrationLinked
  PROVE  ExfiltrationLinked'
<1>0. \A i \in 1..Len(events) : LinkedAt(events, i)
  BY DEF ExfiltrationLinked, LinkedAt, Near, NetworkCategories
<1>1. ASSUME NEW t \in Tids, Process(t)
      PROVE  \A i \in 1..Len(events') : LinkedAt(events', i)
  <2> DEFINE n == Len(events) + 1
             o == Coming(t)
             u == Append(events, Linked(t))
  <2>1. /\ Grown(events, events') /\ events'[n] = Linked(t) /\ Len(events) \in Nat
        /\ Len(events') = IF Reports(t) THEN n + 1 ELSE n
        /\ Reports(t) => events'[n + 1] = LinkedReport(t)
    <3>1. Grown(events, events') BY <1>1, ProcessGrows
    <3>2. n + 1 = Len(events) + 2 BY <3>1 DEF Grown
    <3> QED BY <1>1, <3>1, <3>2, EventsGrow
  <2>2. \A i \in 1..Len(events) : LinkedAt(events', i) BY <1>0, <2>1, LinkedKept
  <2>3. inbox[t] # <<>> BY <1>1, ProcessDoes
  <2>4. LinkedAt(events', n)
    <3> DEFINE e == Event(t)
               x == Correlate(history, e)
    <3>1. /\ events'[n].ts = e.ts /\ events'[n].verdict = e.verdict
          /\ events'[n].category = e.category /\ e.category = Judged(o).category
          /\ events'[n].related = IF e.verdict = "violation" /\ Own(t) = {} THEN x ELSE {}
      <4>1. e = EventOf(o, t, Judged(o), e.confirms) BY EventFields
      <4>2. /\ e.ts = o.ts /\ e.verdict = Judged(o).verdict
            /\ e.category = Judged(o).category
        <5> HIDE DEF o, e
        <5> QED BY <4>1 DEF EventOf
      <4> QED BY <2>1, <4>2, EventFields
    <3>2. \A s \in x : s \in 1..Len(events) /\ events[s].ts >= e.ts - CorrelationSecs
      BY LinksBack DEF EventsOK, HistoryOK
    <3>3. \A j \in 1..Len(events) : events'[j] = events[j] BY <2>1 DEF Grown
    <3>4. n - 1 = Len(events) BY <2>1
    <3>5. e.category \in NetworkCategories => Own(t) = {}
      BY <3>1, OpenJudged DEF Own, LastOpen
    <3>6. ASSUME e.category \in NetworkCategories, NEW j \in 1..Len(events),
                 events[j].category = "credential",
                 events[j].ts >= e.ts - CorrelationSecs, n - j <= History
          PROVE  j \in x
      BY <3>6, CredentialsLinked DEF EventsOK, HistoryOK
    <3> HIDE DEF n, e, x
    <3>7. events'[n].related \subseteq Near(events', n)
      BY <3>1, <3>2, <3>3, <3>4 DEF Near
    <3>8. ASSUME events'[n].verdict = "violation",
                 events'[n].category \in NetworkCategories,
                 NEW j \in Near(events', n), events'[j].category = "credential",
                 n - j <= History
          PROVE  j \in events'[n].related
      <4>1. events'[n].related = x BY <3>1, <3>5, <3>8
      <4>2. j \in 1..Len(events) /\ events'[j].ts >= events'[n].ts - CorrelationSecs
        BY <3>4 DEF Near
      <4> QED BY <3>1, <3>3, <3>6, <3>8, <4>1, <4>2
    <3> QED BY <3>7, <3>8 DEF LinkedAt
  <2>5. Reports(t) => LinkedAt(events', n + 1)
    <3> SUFFICES ASSUME Reports(t) PROVE LinkedAt(events', n + 1) OBVIOUS
    <3> DEFINE x == Correlate(Remembered(t), Report(t))
               r == events'[n + 1]
    <3>1. r.ts = Report(t).ts /\ r.verdict = "anomaly" /\ r.related = x
      <4>1. r = LinkedReport(t) BY <2>1
      <4>2. LinkedReport(t).ts = Report(t).ts /\ LinkedReport(t).verdict = "anomaly"
        BY ReportIs
      <4>3. LinkedReport(t).related = x BY ReportIs
      <4> HIDE DEF r, x
      <4> QED BY <4>1, <4>2, <4>3
    <3>2. Linked(t) \in Evs BY <2>3, LinkedOK
    <3>3. u \in Seq(Evs) /\ Len(u) = n /\ HistoryOf(u, Remembered(t))
      <4>1. events \in Seq(Evs) BY DEF EventsOK
      <4>2. u \in Seq(Evs) /\ Len(u) = Len(events) + 1 BY <3>2, <4>1, AppendProperties
      <4>3. HistoryOf(u, Remembered(t)) BY <2>3, RememberedOK
      <4> QED BY <4>2, <4>3
    <3>4. \A j \in 1..n : events'[j] = u[j]
      <4>1. u[n] = Linked(t) /\ \A j \in 1..Len(events) : u[j] = events[j]
        BY <3>2, AppendProperties DEF EventsOK
      <4> HIDE DEF u
      <4> QED BY <2>1, <4>1 DEF Grown
    <3> HIDE DEF u
    <3>5. \A s \in x : s \in 1..Len(u) /\ u[s].ts >= Report(t).ts - CorrelationSecs
      BY <3>3, LinksBack
    <3>6. (n + 1) - 1 = n BY <2>1
    <3> HIDE DEF n, x
    <3>7. r.related \subseteq Near(events', n + 1)
      BY <3>1, <3>3, <3>4, <3>5, <3>6 DEF Near
    <3> QED BY <3>1, <3>7 DEF LinkedAt
  <2>6. ASSUME NEW i \in 1..Len(events') PROVE LinkedAt(events', i)
    <3>1. i \in 1..Len(events) \/ i = n \/ (i = n + 1 /\ Reports(t)) BY <2>1
    <3> QED BY <2>2, <2>4, <2>5, <3>1
  <2> QED BY <2>6
<1>2. \A i \in 1..Len(events') : LinkedAt(events', i)
  <2>1. CASE ~ \E t \in Tids : Process(t)
    <3>1. events' = events BY <2>1, OnlyProcess
    <3> QED BY <1>0, <3>1
  <2> QED BY <1>1, <2>1
<1> QED BY <1>2 DEF ExfiltrationLinked, LinkedAt, Near, NetworkCategories

-----------------------------------------------------------------------------
(* The windows of the detector.                                            *)

(* Every nonempty set of numbers has a smallest.                           *)
LEMMA Smallest ==
  ASSUME NEW T \in SUBSET Nat, T # {}
  PROVE  \E k \in T : \A j \in T : k <= j
<1>1. PICK k \in T : \A j \in T : <<j, k>> \notin OpToRel(<, Nat)
  BY NatLessThanWellFounded, WFMin, Zenon
<1>2. ASSUME NEW j \in T PROVE k <= j
  <2>1. j \in Nat /\ k \in Nat OBVIOUS
  <2>2. ~(j < k) BY <1>1, <2>1 DEF OpToRel
  <2> QED BY <2>1, <2>2
<1> QED BY <1>2

(* What the eviction loop stops at.                                        *)
Stays(q, horizon, cap, k) == Len(q) - k <= cap /\ q[k + 1].ts >= horizon

LEMMA PoppedOK ==
  ASSUME NEW q \in Seq(Entries), NEW horizon, NEW cap
  PROVE  /\ Popped(q, horizon, cap) \in 0..Len(q)
         /\ \/ Popped(q, horizon, cap) = Len(q)
            \/ Stays(q, horizon, cap, Popped(q, horizon, cap))
         /\ \A j \in 0..(Popped(q, horizon, cap) - 1) : ~Stays(q, horizon, cap, j)
<1> DEFINE T == {k \in 0..Len(q) : k = Len(q) \/ Stays(q, horizon, cap, k)}
           P(k) == (k = Len(q) \/ Stays(q, horizon, cap, k))
                   /\ \A j \in 0..(k - 1) : ~Stays(q, horizon, cap, j)
<1>0. Len(q) \in Nat OBVIOUS
<1>1. T \in SUBSET Nat /\ Len(q) \in T BY <1>0
<1>2. PICK k \in T : \A j \in T : k <= j
  <2> HIDE DEF T
  <2> QED BY <1>1, Smallest
<1>3. ASSUME NEW j \in 0..(k - 1) PROVE ~Stays(q, horizon, cap, j)
  <2>1. j \in 0..Len(q) /\ ~(k <= j) BY <1>0
  <2> QED BY <1>2, <2>1
<1>4. \E m \in 0..Len(q) : P(m) BY <1>3
<1>5. Popped(q, horizon, cap) = CHOOSE m \in 0..Len(q) : P(m) BY DEF Popped, Stays
<1> HIDE DEF P
<1>6. Popped(q, horizon, cap) \in 0..Len(q) /\ P(Popped(q, horizon, cap)) BY <1>4, <1>5
<1> QED BY <1>6 DEF P

(* Occurrences in a sequence made longer and in one cut in two.            *)
Places(q, x) == {i \in 1..Len(q) : q[i].name = x}

LEMMA PlacesFinite ==
  ASSUME NEW q, Len(q) \in Nat, NEW x
  PROVE  /\ IsFiniteSet(Places(q, x)) /\ Occurrences(q, x) = Cardinality(Places(q, x))
         /\ Occurrences(q, x) \in Nat
         /\ Occurrences(q, x) > 0 <=> \E i \in 1..Len(q) : q[i].name = x
<1>1. IsFiniteSet(1..Len(q)) BY FS_Interval
<1>2. IsFiniteSet(Places(q, x)) BY <1>1, FS_Subset DEF Places
<1>3. Occurrences(q, x) = Cardinality(Places(q, x)) BY DEF Occurrences, Places
<1>4. Occurrences(q, x) \in Nat BY <1>2, <1>3, FS_CardinalityType
<1>5. Cardinality(Places(q, x)) = 0 <=> Places(q, x) = {} BY <1>2, FS_EmptySet
<1>6. Places(q, x) = {} <=> ~ \E i \in 1..Len(q) : q[i].name = x BY DEF Places
<1> QED BY <1>2, <1>3, <1>4, <1>5, <1>6

LEMMA OneMore ==
  ASSUME NEW q \in Seq(Entries), NEW e \in Entries, NEW x
  PROVE  Occurrences(Append(q, e), x) = Occurrences(q, x) + (IF x = e.name THEN 1 ELSE 0)
<1> DEFINE n == Len(q) + 1
           u == Append(q, e)
<1>1. /\ Len(q) \in Nat /\ Len(u) = n /\ u[n] = e
      /\ \A i \in 1..Len(q) : u[i] = q[i]
  BY AppendProperties
<1> HIDE DEF u
<1>2. Places(u, x) = IF x = e.name THEN Places(q, x) \cup {n} ELSE Places(q, x)
  <2>1. \A i \in 1..n : i \in 1..Len(q) \/ i = n BY <1>1
  <2>2. \A i \in 1..Len(q) : i \in 1..n /\ i # n BY <1>1
  <2>3. n \in 1..n BY <1>1
  <2> HIDE DEF n
  <2> QED BY <1>1, <2>1, <2>2, <2>3 DEF Places
<1>3. n \notin Places(q, x) BY <1>1 DEF Places
<1>4. IsFiniteSet(Places(q, x)) /\ Occurrences(q, x) = Cardinality(Places(q, x))
      /\ Occurrences(q, x) \in Nat
  BY <1>1, PlacesFinite
<1>5. Occurrences(u, x) = Cardinality(Places(u, x)) BY <1>1, PlacesFinite
<1>6. Cardinality(Places(q, x) \cup {n}) = Cardinality(Places(q, x)) + 1
  BY <1>3, <1>4, FS_AddElement
<1>7. CASE x = e.name BY <1>2, <1>4, <1>5, <1>6, <1>7 DEF u
<1>8. CASE x # e.name BY <1>2, <1>4, <1>5, <1>8 DEF u
<1> QED BY <1>7, <1>8

LEMMA Cut ==
  ASSUME NEW q \in Seq(Entries), NEW k \in 0..Len(q)
  PROVE  /\ SubSeq(q, 1, k) \in Seq(Entries) /\ Len(SubSeq(q, 1, k)) = k
         /\ \A i \in 1..k : SubSeq(q, 1, k)[i] = q[i]
         /\ SubSeq(q, k + 1, Len(q)) \in Seq(Entries)
         /\ Len(SubSeq(q, k + 1, Len(q))) = Len(q) - k
         /\ \A i \in 1..(Len(q) - k) : SubSeq(q, k + 1, Len(q))[i] = q[k + i]
<1>1. \A i \in 1..Len(q) : q[i] \in Entries OBVIOUS
<1>2. Len(q) \in Nat /\ k \in Nat OBVIOUS
<1>3. /\ SubSeq(q, 1, k) \in Seq(Entries) /\ Len(SubSeq(q, 1, k)) = k
      /\ \A i \in 1..k : SubSeq(q, 1, k)[i] = q[i]
  BY <1>1, <1>2
<1>4. /\ SubSeq(q, k + 1, Len(q)) \in Seq(Entries)
      /\ Len(SubSeq(q, k + 1, Len(q))) = Len(q) - k
      /\ \A i \in 1..(Len(q) - k) : SubSeq(q, k + 1, Len(q))[i] = q[k + i]
  BY <1>1, <1>2
<1> QED BY <1>3, <1>4

LEMMA InTwo ==
  ASSUME NEW q \in Seq(Entries), NEW k \in 0..Len(q), NEW x
  PROVE  Occurrences(q, x) =
           Occurrences(SubSeq(q, 1, k), x) + Occurrences(SubSeq(q, k + 1, Len(q)), x)
<1> DEFINE a == SubSeq(q, 1, k)
           b == SubSeq(q, k + 1, Len(q))
           S == Places(b, x)
           T == {i \in (k + 1)..Len(q) : q[i].name = x}
           f == [i \in S |-> k + i]
<1>0. Len(q) \in Nat /\ k \in Nat /\ k <= Len(q) OBVIOUS
<1>1. /\ Len(a) = k /\ \A i \in 1..k : a[i] = q[i]
      /\ Len(b) = Len(q) - k /\ \A i \in 1..(Len(q) - k) : b[i] = q[k + i]
  BY Cut
<1> HIDE DEF a, b
<1>2. /\ IsFiniteSet(Places(a, x)) /\ Occurrences(a, x) = Cardinality(Places(a, x))
      /\ Occurrences(a, x) \in Nat
  BY <1>0, <1>1, PlacesFinite
<1>3. IsFiniteSet(S) /\ Occurrences(b, x) = Cardinality(S) /\ Occurrences(b, x) \in Nat
  BY <1>0, <1>1, PlacesFinite
<1>4. Occurrences(q, x) = Cardinality(Places(q, x)) BY PlacesFinite
<1>5. Places(q, x) = Places(a, x) \cup T /\ Places(a, x) \cap T = {}
  <2>1. \A i \in 1..Len(q) : i \in 1..k \/ i \in (k + 1)..Len(q) BY <1>0
  <2>2. \A i \in 1..k : i \in 1..Len(q) /\ i \notin (k + 1)..Len(q) BY <1>0
  <2>3. \A i \in (k + 1)..Len(q) : i \in 1..Len(q) BY <1>0
  <2> QED BY <1>1, <2>1, <2>2, <2>3 DEF Places
<1>6. IsFiniteSet(T) /\ Cardinality(T) = Cardinality(S)
  <2>1. ASSUME NEW i \in S PROVE k + i \in T
    <3>1. i \in 1..(Len(q) - k) /\ b[i].name = x BY <1>1 DEF Places
    <3>2. k + i \in (k + 1)..Len(q) BY <1>0, <3>1
    <3> QED BY <1>1, <3>1, <3>2
  <2>2. f \in [S -> T] BY <2>1
  <2>3. \A i, j \in S : f[i] = f[j] => i = j
    <3>1. \A i \in S : i \in Nat BY <1>0, <1>1 DEF Places
    <3> QED BY <1>0, <3>1
  <2>4. ASSUME NEW y \in T PROVE \E i \in S : f[i] = y
    <3>1. y - k \in 1..(Len(q) - k) /\ k + (y - k) = y BY <1>0
    <3>2. y - k \in S BY <1>1, <3>1 DEF Places
    <3> QED BY <3>1, <3>2
  <2> HIDE DEF S, T, f
  <2> QED BY <1>3, <2>2, <2>3, <2>4, SameSize
<1> HIDE DEF S, T
<1>7. Cardinality(Places(a, x) \cup T) =
        Cardinality(Places(a, x)) + Cardinality(T) - Cardinality(Places(a, x) \cap T)
  BY <1>2, <1>6, FS_Union
<1>8. Cardinality(Places(a, x) \cap T) = 0 BY <1>5, FS_EmptySet
<1> QED BY <1>2, <1>3, <1>4, <1>5, <1>6, <1>7, <1>8 DEF a, b

(* observe(): the window with the observation, and what is kept of it.     *)
Entered(d, w, x, now) == Append(d.queue[w], [ts |-> now, name |-> x])
Gone(d, w, x, now) ==
  Popped(Entered(d, w, x, now), Horizon(now),
         IF w = "files" THEN MaxFiles ELSE Len(Entered(d, w, x, now)))
Kept(d, w, x, now) ==
  SubSeq(Entered(d, w, x, now), Gone(d, w, x, now) + 1, Len(Entered(d, w, x, now)))

Observes(d, w, x, now, r) ==
  /\ r.detector = [queue |-> r.detector.queue, counts |-> r.detector.counts,
                   fired |-> r.detector.fired]
  /\ r.detector.queue = [d.queue EXCEPT ![w] = Kept(d, w, x, now)]
  /\ r.detector.counts =
       IF w = "files"
       THEN Recounted(d.counts, SubSeq(Entered(d, w, x, now), 1, Gone(d, w, x, now)), x)
       ELSE d.counts
  /\ r.report <=> /\ Measure(w, Kept(d, w, x, now), r.detector.counts) >= Thresholds[w]
                  /\ Cooled(d.fired[w], now)
  /\ r.detector.fired = [d.fired EXCEPT ![w] = IF r.report THEN now ELSE d.fired[w]]

LEMMA ObserveDoes ==
  ASSUME NEW d, NEW w, NEW x, NEW now, NEW r, r = Observe(d, w, x, now)
  PROVE  Observes(d, w, x, now, r)
  BY DEF Observes, Observe, Entered, Gone, Kept

(* What is in a window and what leaves it.                                 *)
LEMMA EnteredOK ==
  ASSUME NEW d, DetectorOf(d), NEW w \in Windows, NEW x \in Names, NEW now \in Nat
  PROVE  /\ d.queue[w] \in Seq(Entries) /\ [ts |-> now, name |-> x] \in Entries
         /\ Entered(d, w, x, now) \in Seq(Entries)
         /\ Len(Entered(d, w, x, now)) = Len(d.queue[w]) + 1
         /\ Entered(d, w, x, now)[Len(d.queue[w]) + 1] = [ts |-> now, name |-> x]
         /\ \A i \in 1..Len(d.queue[w]) : Entered(d, w, x, now)[i] = d.queue[w][i]
<1>1. d.queue[w] \in Seq(Entries) BY DEF DetectorOf
<1>2. [ts |-> now, name |-> x] \in Entries BY DEF Entries
<1> DEFINE e == [ts |-> now, name |-> x]
           q == d.queue[w]
<1> HIDE DEF e, q
<1>3. q \in Seq(Entries) /\ e \in Entries /\ Entered(d, w, x, now) = Append(q, e)
  BY <1>1, <1>2 DEF e, q, Entered
<1>4. /\ Entered(d, w, x, now) \in Seq(Entries) /\ Len(Entered(d, w, x, now)) = Len(q) + 1
      /\ Entered(d, w, x, now)[Len(q) + 1] = e
      /\ \A i \in 1..Len(q) : Entered(d, w, x, now)[i] = q[i]
  BY <1>3, AppendProperties
<1> QED BY <1>3, <1>4 DEF e, q

Enters(q0, q, x, now) ==
  /\ q0 \in Seq(Entries) /\ Len(q) = Len(q0) + 1
  /\ q[Len(q0) + 1] = [ts |-> now, name |-> x]
  /\ \A i \in 1..Len(q0) : q[i] = q0[i]

LEMMA FileEnters ==
  ASSUME NEW d, DetectorOf(d), NEW x \in Names, NEW now \in Nat
  PROVE  Enters(d.queue["files"], Entered(d, "files", x, now), x, now)
<1>1. "files" \in Windows BY DEF Windows
<1>2. d.queue["files"] \in Seq(Entries) BY <1>1, EnteredOK
<1>3. Entered(d, "files", x, now) = Append(d.queue["files"], [ts |-> now, name |-> x])
  BY DEF Entered
<1>4. [ts |-> now, name |-> x] \in Entries BY DEF Entries
<1> DEFINE q0 == d.queue["files"]
           e == [ts |-> now, name |-> x]
           q == Entered(d, "files", x, now)
<1> HIDE DEF q0, e, q
<1>5. q0 \in Seq(Entries) /\ e \in Entries /\ q = Append(q0, e)
  BY <1>2, <1>3, <1>4 DEF q0, e, q
<1>6. Len(q) = Len(q0) + 1 /\ q[Len(q0) + 1] = e /\ \A i \in 1..Len(q0) : q[i] = q0[i]
  BY <1>5, AppendProperties
<1>7. q[Len(q0) + 1] = [ts |-> now, name |-> x] BY <1>6 DEF e
<1> QED BY <1>5, <1>6, <1>7 DEF Enters, q0, q

LEMMA KeptOK ==
  ASSUME NEW d, DetectorOf(d), NEW w \in Windows, NEW x \in Names, NEW now \in Nat
  PROVE  /\ Gone(d, w, x, now) \in 0..Len(Entered(d, w, x, now))
         /\ Kept(d, w, x, now) \in Seq(Entries)
         /\ Len(Kept(d, w, x, now)) = Len(Entered(d, w, x, now)) - Gone(d, w, x, now)
         /\ w = "files" => Len(Kept(d, w, x, now)) <= MaxFiles
<1> DEFINE q == Entered(d, w, x, now)
           cap == IF w = "files" THEN MaxFiles ELSE Len(q)
           k == Gone(d, w, x, now)
<1>1. q \in Seq(Entries) BY EnteredOK
<1>2. k = Popped(q, Horizon(now), cap) BY DEF Gone
<1>3. Kept(d, w, x, now) = SubSeq(q, k + 1, Len(q)) BY DEF Kept
<1> HIDE DEF q
<1>4. k \in 0..Len(q) /\ (k = Len(q) \/ Stays(q, Horizon(now), cap, k))
  <2> HIDE DEF cap
  <2> QED BY <1>1, <1>2, PoppedOK
<1> HIDE DEF k
<1>5. /\ SubSeq(q, k + 1, Len(q)) \in Seq(Entries)
      /\ Len(SubSeq(q, k + 1, Len(q))) = Len(q) - k
  BY <1>1, <1>4, Cut
<1>6. w = "files" => Len(q) - k <= MaxFiles
  BY <1>1, <1>4, AnomalyBounds DEF Stays
<1> QED BY <1>3, <1>4, <1>5, <1>6 DEF q, k

LEMMA CountsOK ==
  ASSUME NEW d, DetectorOf(d), NEW x \in Names, NEW now \in Nat
  PROVE  Recounted(d.counts, SubSeq(Entered(d, "files", x, now), 1,
                                    Gone(d, "files", x, now)), x)
           = [y \in Names |-> Occurrences(Kept(d, "files", x, now), y)]
<1> DEFINE q0 == d.queue["files"]
           e == [ts |-> now, name |-> x]
           q == Entered(d, "files", x, now)
           k == Gone(d, "files", x, now)
           a == SubSeq(q, 1, k)
           b == SubSeq(q, k + 1, Len(q))
<1>0. "files" \in Windows BY DEF Windows
<1>1. /\ q0 \in Seq(Entries) /\ e \in Entries /\ q \in Seq(Entries) /\ q = Append(q0, e)
      /\ k \in 0..Len(q) /\ Kept(d, "files", x, now) = b
  BY <1>0, EnteredOK, KeptOK DEF Entered, Kept
<1>2. d.counts = [y \in Names |-> Occurrences(q0, y)] BY DEF DetectorOf
<1>3. Recounted(d.counts, a, x) =
        [y \in Names |-> d.counts[y] + (IF y = x THEN 1 ELSE 0) - Occurrences(a, y)]
  BY DEF Recounted
<1>4. e.name = x OBVIOUS
<1> HIDE DEF q0, q, k, e
<1>5. /\ a \in Seq(Entries) /\ b \in Seq(Entries) BY <1>1, Cut
<1>6. ASSUME NEW y \in Names
      PROVE  d.counts[y] + (IF y = x THEN 1 ELSE 0) - Occurrences(a, y) = Occurrences(b, y)
  <2>1. Occurrences(Append(q0, e), y) = Occurrences(q0, y) + (IF y = e.name THEN 1 ELSE 0)
    BY <1>1, OneMore
  <2>2. Occurrences(q, y) = Occurrences(a, y) + Occurrences(b, y) BY <1>1, InTwo
  <2>3. Occurrences(a, y) \in Nat /\ Occurrences(b, y) \in Nat /\ Occurrences(q0, y) \in Nat
    <3> HIDE DEF a, b
    <3>1. Len(a) \in Nat /\ Len(b) \in Nat /\ Len(q0) \in Nat BY <1>1, <1>5
    <3> QED BY <3>1, PlacesFinite
  <2>4. d.counts[y] = Occurrences(q0, y) BY <1>2
  <2>5. Occurrences(q, y) = Occurrences(q0, y) + (IF y = x THEN 1 ELSE 0)
    BY <1>1, <1>4, <2>1
  <2> HIDE DEF a, b
  <2>6. CASE y = x BY <2>2, <2>3, <2>4, <2>5, <2>6
  <2>7. CASE y # x BY <2>2, <2>3, <2>4, <2>5, <2>7
  <2> QED BY <2>6, <2>7
<1> HIDE DEF a, b
<1>7. Recounted(d.counts, a, x) = [y \in Names |-> Occurrences(b, y)] BY <1>3, <1>6
<1> QED BY <1>1, <1>7 DEF a, k, q

LEMMA ObservedOK ==
  ASSUME NEW d, DetectorOf(d), NEW w \in Windows, NEW x \in Names, NEW now \in Nat,
         NEW r, r = Observe(d, w, x, now)
  PROVE  DetectorOf(r.detector)
<1> DEFINE n == r.detector
           kept == Kept(d, w, x, now)
<1>0. "files" \in Windows BY DEF Windows
<1>1. /\ n = [queue |-> n.queue, counts |-> n.counts, fired |-> n.fired]
      /\ n.queue = [d.queue EXCEPT ![w] = kept]
      /\ n.counts = IF w = "files"
                    THEN Recounted(d.counts, SubSeq(Entered(d, w, x, now), 1,
                                                    Gone(d, w, x, now)), x)
                    ELSE d.counts
  <2>1. Observes(d, w, x, now, r) BY ObserveDoes
  <2> QED BY <2>1 DEF Observes
<1>2. kept \in Seq(Entries) /\ (w = "files" => Len(kept) <= MaxFiles) BY KeptOK
<1>3. /\ d.queue \in [Windows -> Seq(Entries)] /\ Len(d.queue["files"]) <= MaxFiles
      /\ d.counts = [y \in Names |-> Occurrences(d.queue["files"], y)]
  BY DEF DetectorOf
<1>4. w = "files" => n.counts = [y \in Names |-> Occurrences(kept, y)]
  BY <1>1, CountsOK
<1> HIDE DEF n, kept
<1>5. n.queue \in [Windows -> Seq(Entries)] BY <1>1, <1>2, <1>3
<1>6. CASE w = "files"
  <2>1. n.queue["files"] = kept BY <1>0, <1>1, <1>3, <1>6
  <2> QED BY <1>1, <1>2, <1>4, <1>5, <1>6, <2>1 DEF DetectorOf, n
<1>7. CASE w # "files"
  <2>1. n.queue["files"] = d.queue["files"] /\ n.counts = d.counts
    BY <1>0, <1>1, <1>3, <1>7
  <2> QED BY <1>1, <1>3, <1>5, <2>1 DEF DetectorOf, n
<1> QED BY <1>6, <1>7

(* When the detector reports, its last report is at least three windows    *)
(* back.                                                                   *)
LEMMA ReportCools ==
  ASSUME InboxOK, DetectorOK, NEW t \in Tids, inbox[t] # <<>>, Window(t) # "none"
  PROVE  /\ Window(t) \in Windows /\ Coming(t).ts \in 0..clock /\ Coming(t).path \in Names
         /\ DetectorOf(Seen(t).detector)
         /\ Seen(t).detector.fired =
              [detector.fired EXCEPT ![Window(t)] =
                 IF Seen(t).report THEN Coming(t).ts ELSE detector.fired[Window(t)]]
         /\ Seen(t).report =>
              \/ detector.fired[Window(t)] = Never
              \/ Coming(t).ts - detector.fired[Window(t)] >= 3 * WindowSecs
<1> DEFINE o == Coming(t)
           w == Window(t)
<1>1. w \in Windows BY Windowed DEF Window
<1>2. o.ts \in 0..clock /\ o.path \in Names /\ o.ts \in Nat
  <2>1. o \in Observations /\ o.ts <= clock BY ComingOK DEF Observed
  <2>2. clock \in Nat BY EngineBounds DEF InboxOK
  <2> QED BY <2>1, <2>2 DEF Observations
<1>3. Seen(t) = Observe(detector, w, o.path, o.ts) BY DEF Seen
<1>4. DetectorOf(detector) BY DEF DetectorOK
<1> HIDE DEF o, w
<1>5. DetectorOf(Seen(t).detector) BY <1>1, <1>2, <1>3, <1>4, ObservedOK
<1>6. /\ Seen(t).detector.fired =
           [detector.fired EXCEPT ![w] = IF Seen(t).report THEN o.ts ELSE detector.fired[w]]
      /\ Seen(t).report => Cooled(detector.fired[w], o.ts)
  <2>1. Observes(detector, w, o.path, o.ts, Seen(t)) BY <1>3, ObserveDoes
  <2> QED BY <2>1 DEF Observes
<1> QED BY <1>1, <1>2, <1>5, <1>6 DEF Cooled, o, w

LEMMA DetectorStep ==
  ASSUME InboxOK, EventsOK, LastOpenOK, HistoryOK, DetectorOK, CoolDown, [Next]_vars
  PROVE  DetectorOK' /\ CoolDown'
<1>0. clock \in Nat /\ events \in Seq(Evs) /\ WindowSecs \in Nat
  BY EngineBounds, AnomalyBounds DEF InboxOK, EventsOK
<1>1. ASSUME NEW t \in Tids, Process(t) PROVE DetectorOK' /\ CoolDown'
  <2> DEFINE n == Len(events) + 1
             o == Coming(t)
             w == Window(t)
             fired == detector.fired
  <2>1. /\ Grown(events, events') /\ events'[n] = Linked(t) /\ Len(events) \in Nat
        /\ Len(events') = IF Reports(t) THEN n + 1 ELSE n
        /\ Reports(t) => events'[n + 1] = LinkedReport(t)
    <3>1. Grown(events, events') BY <1>1, ProcessGrows
    <3>2. n + 1 = Len(events) + 2 BY <3>1 DEF Grown
    <3> QED BY <1>1, <3>1, <3>2, EventsGrow
  <2>2. /\ inbox[t] # <<>> /\ clock' = clock
        /\ detector' = IF w = "none" THEN detector ELSE Seen(t).detector
    BY <1>1, ProcessDoes
  <2>3. events'[n].kind \notin Windows
    <3>1. o.kind \in Kinds BY <2>2, ComingOK DEF Observed, Observations
    <3>2. events'[n].kind = o.kind BY <2>1, EventFields
    <3> QED BY <3>1, <3>2 DEF Kinds, Windows
  <2>4. Reports(t) => events'[n + 1].kind = w /\ events'[n + 1].ts = o.ts
    <3>1. LinkedReport(t).kind = w /\ LinkedReport(t).ts = o.ts BY ReportFields
    <3> HIDE DEF w, o, n
    <3> QED BY <2>1, <3>1
  <2>5. \A i \in 1..Len(events') : events'[i].kind \in Windows =>
          \/ i \in 1..Len(events) /\ events'[i] = events[i]
          \/ i = n + 1 /\ Reports(t)
    <3>1. \A i \in 1..Len(events') : i \in 1..Len(events) \/ i = n \/ (i = n + 1 /\ Reports(t))
      BY <2>1
    <3> QED BY <2>1, <2>3, <3>1 DEF Grown
  <2>6. \A i \in 1..Len(events) : events[i].ts \in Nat
    <3>1. \A i \in 1..Len(events) : events[i] \in Evs BY <1>0
    <3> QED BY <3>1 DEF Evs
  <2>7. /\ fired \in [Windows -> 0..clock \cup {Never}] /\ DetectorOf(detector)
        /\ \A i \in 1..Len(events) : events[i].kind \in Windows =>
             events[i].ts <= fired[events[i].kind]
    BY DEF DetectorOK
  <2>8. CASE w = "none"
    <3>1. detector' = detector /\ ~Reports(t) BY <2>2, <2>8 DEF Reports
    <3>2. DetectorOK' BY <2>2, <2>5, <2>7, <3>1 DEF DetectorOK
    <3>3. CoolDown' BY <2>5, <3>1 DEF CoolDown
    <3> QED BY <3>2, <3>3
  <2>9. CASE w # "none"
    <3> DEFINE s == Seen(t)
    <3>1. /\ w \in Windows /\ o.ts \in 0..clock /\ DetectorOf(s.detector)
          /\ s.detector.fired = [fired EXCEPT ![w] = IF s.report THEN o.ts ELSE fired[w]]
          /\ s.report => fired[w] = Never \/ o.ts - fired[w] >= 3 * WindowSecs
      BY <2>2, <2>9, ReportCools
    <3>2. detector' = s.detector /\ (Reports(t) <=> s.report) BY <2>2, <2>9 DEF Reports
    <3> HIDE DEF s, w, o, fired, n
    <3>3. detector'.fired \in [Windows -> 0..clock \cup {Never}] BY <2>7, <3>1, <3>2
    <3>4. \A v \in Windows : fired[v] \in Int /\ (fired[v] \in Nat \/ fired[v] = -1)
      BY <2>7, <1>0 DEF Never
    <3>5. ASSUME NEW i \in 1..Len(events), events[i].kind = w, s.report
          PROVE  o.ts - events[i].ts >= 3 * WindowSecs /\ events[i].ts <= o.ts
      <4>1. events[i].ts <= fired[w] /\ events[i].ts \in Nat BY <2>6, <2>7, <3>1, <3>5
      <4>2. fired[w] # Never BY <3>1, <3>4, <4>1 DEF Never
      <4>3. o.ts - fired[w] >= 3 * WindowSecs BY <3>1, <3>5, <4>2
      <4>4. o.ts \in Int /\ fired[w] \in Int /\ 3 * WindowSecs \in Nat
        BY <1>0, <3>1, <3>4
      <4> QED BY <4>1, <4>3, <4>4
    <3>6. ASSUME NEW i \in 1..Len(events'), events'[i].kind \in Windows
          PROVE  events'[i].ts <= detector'.fired[events'[i].kind]
      <4>1. CASE i \in 1..Len(events) /\ events'[i] = events[i]
        <5>1. CASE events[i].kind = w /\ s.report
          BY <2>7, <3>1, <3>2, <3>5, <4>1, <5>1
        <5>2. CASE ~(events[i].kind = w /\ s.report)
          BY <2>7, <3>1, <3>2, <3>6, <4>1, <5>2
        <5> QED BY <5>1, <5>2
      <4>2. CASE i = n + 1 /\ Reports(t)
        <5>1. events'[i].kind = w /\ events'[i].ts = o.ts /\ s.report
          BY <2>4, <3>2, <4>2
        <5>2. detector'.fired[w] = o.ts BY <2>7, <3>1, <3>2, <5>1
        <5>3. o.ts \in Int BY <1>0, <3>1
        <5> QED BY <5>1, <5>2, <5>3
      <4> QED BY <2>5, <3>6, <4>1, <4>2
    <3>7. DetectorOK' BY <2>2, <3>1, <3>2, <3>3, <3>6 DEF DetectorOK
    <3>8. ASSUME NEW i \in 1..Len(events'), NEW j \in 1..Len(events'), i < j,
                 events'[i].kind \in Windows, events'[j].kind = events'[i].kind
          PROVE  events'[j].ts - events'[i].ts >= 3 * WindowSecs
      <4>1. CASE i \in 1..Len(events) /\ j \in 1..Len(events)
        BY <2>5, <2>1, <3>8, <4>1 DEF CoolDown, Grown
      <4>2. CASE i \in 1..Len(events) /\ j = n + 1 /\ Reports(t)
        <5>1. events'[i] = events[i] BY <2>1, <4>2 DEF Grown
        <5> QED BY <2>4, <3>2, <3>5, <3>8, <4>2, <5>1
      <4>3. i # n + 1
        <5>1. Len(events') <= n + 1 /\ n + 1 \in Int BY <2>1 DEF n
        <5> QED BY <3>8, <5>1
      <4> QED BY <2>5, <3>8, <4>1, <4>2, <4>3
    <3>9. CoolDown' BY <3>8 DEF CoolDown
    <3> QED BY <3>7, <3>9
  <2> QED BY <2>8, <2>9
<1>2. CASE ~ \E t \in Tids : Process(t)
  <2>1. /\ events' = events /\ detector' = detector /\ clock <= clock' /\ clock' \in Nat
    BY <1>2, OnlyProcess
  <2>2. detector.fired \in [Windows -> 0..clock' \cup {Never}]
    <3>1. 0..clock \subseteq 0..clock' BY <1>0, <2>1
    <3> QED BY <3>1 DEF DetectorOK
  <2>3. DetectorOK' BY <2>1, <2>2 DEF DetectorOK
  <2>4. CoolDown' BY <2>1 DEF CoolDown
  <2> QED BY <2>3, <2>4
<1> QED BY <1>1, <1>2


-----------------------------------------------------------------------------
(* Bursts of opens.                                                        *)

(* An open that the window of files takes in.                              *)
Counted(o) == o.kind = "open" /\ ~o.setup /\ "runtime_read" \notin o.facts

LEMMA OpensFinite ==
  ASSUME NEW evs \in Seq(Evs)
  PROVE  IsFiniteSet(Opens(evs)) /\ Cardinality(Opens(evs)) \in Nat
<1>1. IsFiniteSet(1..Len(evs)) BY FS_Interval
<1>2. IsFiniteSet(Opens(evs)) BY <1>1, FS_Subset DEF Opens
<1> QED BY <1>2, FS_CardinalityType

(* The event of a counted open is the only new one among the opens.        *)
LEMMA OpensGrow ==
  ASSUME NEW t \in Tids, InboxOK, EventsOK, LastOpenOK, HistoryOK, Process(t),
         NEW n, n = Len(events) + 1
  PROVE  /\ n \notin Opens(events) /\ n \in 1..Len(events')
         /\ Opens(events') = IF Counted(Coming(t)) THEN Opens(events) \cup {n}
                             ELSE Opens(events)
         /\ events'[n].ts = Coming(t).ts /\ events'[n].path = Coming(t).path
<1>1. /\ Grown(events, events') /\ events'[n] = Linked(t) /\ Len(events) \in Nat
      /\ Len(events') = IF Reports(t) THEN n + 1 ELSE n
      /\ Reports(t) => events'[n + 1] = LinkedReport(t)
  <2>1. Grown(events, events') BY ProcessGrows
  <2>2. n + 1 = Len(events) + 2 BY <2>1 DEF Grown
  <2> QED BY <2>1, <2>2, EventsGrow
<1>2. /\ events'[n].kind = Coming(t).kind /\ events'[n].setup = Coming(t).setup
      /\ events'[n].facts = Coming(t).facts /\ events'[n].ts = Coming(t).ts
      /\ events'[n].path = Coming(t).path
  BY <1>1, LinkedIs
<1>3. Reports(t) => events'[n + 1].kind # "open"
  <2>1. LinkedReport(t).kind = Window(t) BY ReportIs
  <2>2. Window(t) # "open" BY DEF Window, WindowOf
  <2> QED BY <1>1, <2>1, <2>2
<1>4. n \notin Opens(events) BY <1>1 DEF Opens
<1>5. n \in 1..Len(events') BY <1>1
<1>6. \A i \in 1..Len(events') : i \in 1..Len(events) \/ i = n \/ (i = n + 1 /\ Reports(t))
  BY <1>1
<1>7. \A i \in 1..Len(events) : i \in 1..Len(events') /\ events'[i] = events[i]
  BY <1>1 DEF Grown
<1>8. n \in Opens(events') <=> Counted(Coming(t)) BY <1>2, <1>5 DEF Opens, Counted
<1>9. \A i \in Opens(events') : i \in Opens(events) \/ i = n
  BY <1>3, <1>6, <1>7 DEF Opens
<1>10. \A i \in Opens(events) : i \in Opens(events') BY <1>7 DEF Opens
<1>11. CASE Counted(Coming(t))
  <2>1. Opens(events') = Opens(events) \cup {n} BY <1>8, <1>9, <1>10, <1>11
  <2> QED BY <1>2, <1>4, <1>5, <1>11, <2>1
<1>12. CASE ~Counted(Coming(t))
  <2>1. Opens(events') = Opens(events) BY <1>8, <1>9, <1>10, <1>12
  <2> QED BY <1>2, <1>4, <1>5, <1>12, <2>1
<1> QED BY <1>11, <1>12

(* The latest window after one more open.                                  *)
LEMMA BurstGrows ==
  ASSUME NEW evs \in Seq(Evs), NEW longer \in Seq(Evs), Grown(evs, longer), NEW n,
         n \in 1..Len(longer), Opens(longer) = Opens(evs) \cup {n}, n \notin Opens(evs)
  PROVE  /\ \A i \in Burst(longer) : longer[i].ts >= longer[n].ts - WindowSecs
         /\ \A i \in Burst(longer) : i = n \/ i \in Burst(evs)
         /\ n \notin Burst(longer) => Burst(longer) = Burst(evs)
<1>1. \A i \in Opens(evs) : longer[i] = evs[i] BY DEF Grown, Opens
<1>2. \A i \in Opens(longer) : longer[i].ts \in Nat
  <2>1. \A i \in 1..Len(longer) : longer[i] \in Evs OBVIOUS
  <2> QED BY <2>1 DEF Evs, Opens
<1>3. WindowSecs \in Nat BY AnomalyBounds
<1>4. \A i \in Burst(longer) : longer[i].ts >= longer[n].ts - WindowSecs BY DEF Burst
<1>5. \A i \in Burst(longer) : i = n \/ i \in Burst(evs) BY <1>1 DEF Burst
<1>6. ASSUME n \notin Burst(longer) PROVE Burst(longer) = Burst(evs)
  <2>1. PICK j \in Opens(longer) : ~(longer[n].ts >= longer[j].ts - WindowSecs)
    BY <1>6 DEF Burst
  <2>2. j \in Opens(evs) /\ longer[j] = evs[j] BY <1>1, <1>2, <1>3, <2>1
  <2>3. longer[n].ts \in Nat /\ longer[j].ts \in Nat BY <1>2
  <2>4. ASSUME NEW i \in Burst(evs) PROVE i \in Burst(longer)
    <3>1. i \in Opens(evs) /\ i \in Opens(longer) /\ longer[i] = evs[i] /\ longer[i].ts \in Nat
      BY <1>1, <1>2 DEF Burst
    <3>2. longer[i].ts >= longer[j].ts - WindowSecs BY <2>2, <3>1 DEF Burst
    <3>3. longer[i].ts >= longer[n].ts - WindowSecs
      <4> DEFINE a == longer[i].ts
                 b == longer[j].ts
                 c == longer[n].ts
      <4>1. /\ a \in Nat /\ b \in Nat /\ c \in Nat
            /\ ~(c >= b - WindowSecs) /\ a >= b - WindowSecs
        BY <2>1, <2>3, <3>1, <3>2
      <4> HIDE DEF a, b, c
      <4>2. a >= c - WindowSecs BY <1>3, <4>1
      <4> QED BY <4>2 DEF a, b, c
    <3>4. \A m \in Opens(evs) : longer[i].ts >= longer[m].ts - WindowSecs
      BY <1>1, <3>1 DEF Burst
    <3> QED BY <3>1, <3>3, <3>4 DEF Burst
  <2> QED BY <1>5, <1>6, <2>4
<1> QED BY <1>4, <1>5, <1>6

LEMMA BurstSame ==
  ASSUME NEW evs, NEW longer, Grown(evs, longer), Opens(longer) = Opens(evs)
  PROVE  /\ Burst(longer) = Burst(evs)
         /\ \A i \in Burst(evs) : longer[i] = evs[i]
<1>1. \A i \in Opens(evs) : longer[i] = evs[i] BY DEF Grown, Opens
<1> QED BY <1>1 DEF Burst

(* While the cap is not reached, only what is older than a window leaves.  *)
LEMMA StaysIn ==
  ASSUME NEW d, DetectorOf(d), NEW x \in Names, NEW now \in Nat,
         NEW q, q = Entered(d, "files", x, now), Len(q) <= MaxFiles,
         NEW m \in 1..Len(q), q[m].ts >= now - WindowSecs
  PROVE  \E p \in 1..Len(Kept(d, "files", x, now)) : Kept(d, "files", x, now)[p] = q[m]
<1> DEFINE k == Gone(d, "files", x, now)
<1>0. "files" \in Windows BY DEF Windows
<1>1. q \in Seq(Entries) /\ Len(q) \in Nat
  <2>1. q \in Seq(Entries) BY <1>0, EnteredOK
  <2> QED BY <2>1
<1>2. k = Popped(q, Horizon(now), MaxFiles) BY DEF Gone
<1>3. Kept(d, "files", x, now) = SubSeq(q, k + 1, Len(q)) BY DEF Kept
<1> HIDE DEF k
<1>4. k \in 0..Len(q) /\ \A j \in 0..(k - 1) : ~Stays(q, Horizon(now), MaxFiles, j)
  BY <1>1, <1>2, PoppedOK
<1>5. Stays(q, Horizon(now), MaxFiles, m - 1)
  <2>1. (m - 1) + 1 = m /\ Len(q) - (m - 1) <= MaxFiles BY <1>1, AnomalyBounds
  <2> QED BY <2>1 DEF Stays, Horizon
<1>6. k < m
  <2> SUFFICES ASSUME ~(k < m) PROVE m - 1 \in 0..(k - 1) BY <1>4, <1>5
  <2> QED BY <1>1, <1>4
<1>7. /\ Len(SubSeq(q, k + 1, Len(q))) = Len(q) - k
      /\ \A i \in 1..(Len(q) - k) : SubSeq(q, k + 1, Len(q))[i] = q[k + i]
  BY <1>1, <1>4, Cut
<1>8. m - k \in 1..(Len(q) - k) /\ k + (m - k) = m BY <1>1, <1>4, <1>6
<1> QED BY <1>3, <1>7, <1>8


(* The window of files after a counted open holds the latest window.       *)
LEMMA HeldStep ==
  ASSUME NEW t \in Tids, InboxOK, EventsOK, LastOpenOK, HistoryOK, DetectorOK, Process(t),
         Window(t) = "files", Counted(Coming(t)),
         Held(events, detector.queue["files"]),
         Cardinality(Opens(events')) <= MaxFiles
  PROVE  /\ Held(events', detector'.queue["files"])
         /\ Cardinality(Opens(events')) = Cardinality(Opens(events)) + 1
<1> DEFINE n == Len(events) + 1
           x == Coming(t).path
           now == Coming(t).ts
           q0 == detector.queue["files"]
           q == Entered(detector, "files", x, now)
           kept == Kept(detector, "files", x, now)
<1>0. "files" \in Windows /\ inbox[t] # <<>> BY ProcessDoes DEF Windows
<1>1. now \in Nat /\ x \in Names
  <2>1. Coming(t) \in Observations BY <1>0, ComingOK DEF Observed
  <2> QED BY <2>1 DEF Observations
<1>2. DetectorOf(detector) BY DEF DetectorOK
<1>3. detector'.queue["files"] = kept
  <2>1. detector' = Seen(t).detector BY ProcessDoes
  <2>2. Observes(detector, "files", x, now, Seen(t)) BY ObserveDoes DEF Seen
  <2>3. Seen(t).detector.queue = [detector.queue EXCEPT !["files"] = kept]
    BY <2>2 DEF Observes
  <2>4. detector.queue \in [Windows -> Seq(Entries)] BY <1>2 DEF DetectorOf
  <2> HIDE DEF kept
  <2> QED BY <1>0, <2>1, <2>3, <2>4
<1>4. events \in Seq(Evs) /\ events' \in Seq(Evs) BY EventsGrow DEF EventsOK
<1>5. /\ n \notin Opens(events) /\ n \in 1..Len(events')
      /\ Opens(events') = Opens(events) \cup {n}
      /\ events'[n].ts = now /\ events'[n].path = x
  BY OpensGrow
<1>6. Grown(events, events') BY ProcessGrows
<1>7. /\ \A i \in Burst(events') : events'[i].ts >= events'[n].ts - WindowSecs
      /\ \A i \in Burst(events') : i = n \/ i \in Burst(events)
  <2> HIDE DEF n
  <2> QED BY <1>4, <1>5, <1>6, BurstGrows
<1>8. \A i \in Burst(events) : events'[i] = events[i] BY <1>6 DEF Burst, Opens, Grown
<1>9. /\ q0 \in Seq(Entries) /\ Len(q) = Len(q0) + 1
      /\ q[Len(q0) + 1] = [ts |-> now, name |-> x]
      /\ \A i \in 1..Len(q0) : q[i] = q0[i]
  <2>1. Enters(q0, q, x, now) BY <1>1, <1>2, FileEnters
  <2> QED BY <2>1 DEF Enters
<1>10. /\ Cardinality(Opens(events')) = Cardinality(Opens(events)) + 1
       /\ Cardinality(Opens(events)) \in Nat
  BY <1>4, <1>5, OpensFinite, FS_AddElement
<1>11. Len(q0) \in Nat /\ Len(q0) <= Cardinality(Opens(events)) BY <1>9 DEF Held
<1>12. Len(q) <= MaxFiles BY <1>9, <1>10, <1>11, AnomalyBounds
<1>13. Len(kept) <= Len(q)
  <2>1. Gone(detector, "files", x, now) \in 0..Len(q)
        /\ Len(kept) = Len(q) - Gone(detector, "files", x, now)
    BY <1>0, <1>1, <1>2, KeptOK
  <2> HIDE DEF kept, q
  <2> QED BY <1>9, <1>11, <2>1
<1>14. ASSUME NEW m \in 1..Len(q), q[m].ts >= now - WindowSecs
       PROVE  \E p \in 1..Len(kept) : kept[p] = q[m]
  <2> HIDE DEF now, x
  <2>1. ASSUME NEW r, r = q, Len(r) <= MaxFiles, NEW k \in 1..Len(r),
               r[k].ts >= now - WindowSecs
        PROVE  \E p \in 1..Len(kept) : kept[p] = r[k]
    BY <1>1, <1>2, <2>1, StaysIn
  <2> QED BY <1>12, <1>14, <2>1
<1> HIDE DEF n, q, kept, now, x, q0
<1>15. ASSUME NEW i \in Burst(events')
       PROVE  \E m \in 1..Len(q) : q[m] = [ts |-> events'[i].ts, name |-> events'[i].path]
  <2>1. CASE i = n
    <3>1. Len(q0) + 1 \in 1..Len(q) BY <1>9, <1>11
    <3> QED BY <1>5, <1>9, <2>1, <3>1
  <2>2. CASE i \in Burst(events)
    <3>1. PICK k \in 1..Len(q0) : q0[k] = [ts |-> events[i].ts, name |-> events[i].path]
      BY <2>2 DEF Held, q0
    <3>2. k \in 1..Len(q) BY <1>9, <1>11
    <3> QED BY <1>8, <1>9, <2>2, <3>1, <3>2
  <2> QED BY <1>7, <2>1, <2>2
<1>16. ASSUME NEW i \in Burst(events')
       PROVE  \E p \in 1..Len(kept) : kept[p] = [ts |-> events'[i].ts, name |-> events'[i].path]
  <2>1. PICK m \in 1..Len(q) : q[m] = [ts |-> events'[i].ts, name |-> events'[i].path]
    BY <1>15
  <2>2. q[m].ts = events'[i].ts BY <2>1
  <2>3. q[m].ts >= now - WindowSecs BY <1>5, <1>7, <2>2
  <2> QED BY <1>14, <2>1, <2>3
<1>17. Len(kept) <= Cardinality(Opens(events'))
  <2>1. Len(q) \in Nat /\ Len(kept) \in Nat
    <3>1. kept \in Seq(Entries) BY <1>0, <1>1, <1>2, KeptOK DEF kept, now, x
    <3> QED BY <1>9, <1>11, <3>1
  <2> QED BY <1>9, <1>10, <1>11, <1>13, <2>1
<1> QED BY <1>3, <1>10, <1>16, <1>17 DEF Held

(* Every file of the latest window is counted.                             *)
LEMMA BurstMeasured ==
  ASSUME NEW evs, NEW q \in Seq(Entries), Held(evs, q),
         \A i \in Burst(evs) : evs[i].path \in Names
  PROVE  /\ Cardinality({evs[i].path : i \in Burst(evs)}) \in Nat
         /\ Cardinality({y \in Names : Occurrences(q, y) > 0}) \in Nat
         /\ Cardinality({evs[i].path : i \in Burst(evs)})
              <= Cardinality({y \in Names : Occurrences(q, y) > 0})
<1> DEFINE S == {evs[i].path : i \in Burst(evs)}
           T == {y \in Names : Occurrences(q, y) > 0}
           f == [i \in 1..Len(q) |-> q[i].name]
<1>0. Len(q) \in Nat /\ \A i \in 1..Len(q) : q[i] \in Entries OBVIOUS
<1>1. \A y : Occurrences(q, y) > 0 <=> \E i \in 1..Len(q) : q[i].name = y
  BY <1>0, PlacesFinite
<1>2. f \in Surjection(1..Len(q), T)
  <2>1. \A i \in 1..Len(q) : q[i].name \in T
    <3>1. \A i \in 1..Len(q) : q[i].name \in Names BY <1>0 DEF Entries
    <3> QED BY <1>1, <3>1
  <2>2. \A y \in T : \E i \in 1..Len(q) : f[i] = y BY <1>1
  <2> HIDE DEF T
  <2>3. f \in [1..Len(q) -> T] BY <2>1
  <2> QED BY <2>2, <2>3 DEF Surjection
<1>3. IsFiniteSet(1..Len(q)) BY <1>0, FS_Interval
<1> HIDE DEF f, T
<1>4. IsFiniteSet(T) BY <1>2, <1>3, FS_Surjection
<1>5. S \in SUBSET T
  <2>1. ASSUME NEW i \in Burst(evs) PROVE evs[i].path \in T
    <3>1. PICK k \in 1..Len(q) : q[k] = [ts |-> evs[i].ts, name |-> evs[i].path]
      BY DEF Held
    <3>2. q[k].name = evs[i].path BY <3>1
    <3> QED BY <1>1, <3>2 DEF T
  <2> QED BY <2>1
<1> HIDE DEF S
<1>6. IsFiniteSet(S) /\ Cardinality(S) <= Cardinality(T) BY <1>4, <1>5, FS_Subset
<1>7. Cardinality(S) \in Nat /\ Cardinality(T) \in Nat BY <1>4, <1>6, FS_CardinalityType
<1> QED BY <1>6, <1>7 DEF S, T


(* NoBurstMissed of the events and the time of the last report.            *)
Missed(evs, fired) ==
  /\ Cardinality(Opens(evs)) <= MaxFiles /\ Burst(evs) # {}
  /\ Cardinality({evs[i].path : i \in Burst(evs)}) >= Thresholds["files"]
  /\ ~ /\ fired # Never
       /\ \E i \in Burst(evs) : \/ evs[i].ts <= fired
                                \/ evs[i].ts - fired < 3 * WindowSecs

LEMMA MissedIs ==
  NoBurstMissed <=> (AnomalyEnabled => ~Missed(events, detector.fired["files"]))
  BY DEF NoBurstMissed, Missed, Burst, Opens

(* A later report makes up for no less.                                    *)
LEMMA MissedLater ==
  ASSUME NEW evs \in Seq(Evs), NEW longer \in Seq(Evs), Grown(evs, longer),
         Burst(longer) = Burst(evs), Cardinality(Opens(evs)) \in Nat,
         Cardinality(Opens(longer)) \in Nat,
         Cardinality(Opens(evs)) <= Cardinality(Opens(longer)),
         NEW fired \in Int, NEW later \in Int, later = fired \/ (later \in Nat /\ fired <= later),
         ~Missed(evs, fired)
  PROVE  ~Missed(longer, later)
<1> SUFFICES ASSUME Missed(longer, later) PROVE FALSE OBVIOUS
<1> DEFINE B == Burst(evs)
<1>1. \A i \in B : longer[i] = evs[i] /\ evs[i].ts \in Nat
  <2>1. \A i \in 1..Len(evs) : evs[i] \in Evs OBVIOUS
  <2> QED BY <2>1 DEF Burst, Opens, Grown, Evs
<1>2. {longer[i].path : i \in B} = {evs[i].path : i \in B} BY <1>1
<1>3. Cardinality(Opens(evs)) <= MaxFiles
  <2>1. Cardinality(Opens(longer)) <= MaxFiles BY DEF Missed
  <2> QED BY <2>1, AnomalyBounds
<1>4. B # {} /\ Cardinality({evs[i].path : i \in B}) >= Thresholds["files"]
  BY <1>2 DEF Missed
<1>5. fired # Never /\ \E i \in B : evs[i].ts <= fired \/ evs[i].ts - fired < 3 * WindowSecs
  BY <1>3, <1>4 DEF Missed
<1>6. 3 * WindowSecs \in Nat BY AnomalyBounds
<1>7. later # Never BY <1>5 DEF Never
<1>8. PICK i \in B : evs[i].ts <= fired \/ evs[i].ts - fired < 3 * WindowSecs BY <1>5
<1>9. evs[i].ts <= later \/ evs[i].ts - later < 3 * WindowSecs
  <2> DEFINE a == evs[i].ts
             c == 3 * WindowSecs
  <2>1. a \in Nat /\ c \in Nat BY <1>1, <1>6
  <2>2. fired <= later OBVIOUS
  <2> HIDE DEF a, c
  <2>3. a <= fired => a <= later BY <2>1, <2>2
  <2>4. a - fired < c => a - later < c BY <2>1, <2>2
  <2> QED BY <1>8, <2>3, <2>4 DEF a, c
<1> QED BY <1>1, <1>7, <1>9 DEF Missed

(* The time of the last report of files after an observation.              *)
LEMMA FiredOnward ==
  ASSUME NEW t \in Tids, InboxOK, DetectorOK, Process(t)
  PROVE  /\ detector.fired["files"] \in Int /\ detector'.fired["files"] \in Int
         /\ \/ detector'.fired["files"] = detector.fired["files"]
            \/ /\ detector'.fired["files"] \in Nat
               /\ detector.fired["files"] <= detector'.fired["files"]
         /\ Window(t) # "files" =>
              /\ detector'.fired["files"] = detector.fired["files"]
              /\ detector'.queue["files"] = detector.queue["files"]
<1>0. "files" \in Windows /\ inbox[t] # <<>> /\ clock \in Nat /\ 3 * WindowSecs \in Nat
  <2>1. clock \in Nat /\ 3 * WindowSecs \in Nat
    BY EngineBounds, AnomalyBounds DEF InboxOK
  <2> QED BY <2>1, ProcessDoes DEF Windows
<1>1. /\ detector.fired \in [Windows -> 0..clock \cup {Never}]
      /\ detector.queue \in [Windows -> Seq(Entries)]
  BY DEF DetectorOK, DetectorOf
<1>2. detector.fired["files"] \in Int
      /\ (detector.fired["files"] = Never \/ detector.fired["files"] \in Nat)
  BY <1>0, <1>1 DEF Never
<1>3. detector' = IF Window(t) = "none" THEN detector ELSE Seen(t).detector
  BY ProcessDoes
<1>4. CASE Window(t) = "none" BY <1>2, <1>3, <1>4
<1>5. CASE Window(t) # "none"
  <2> DEFINE w == Window(t)
             now == Coming(t).ts
             s == Seen(t)
             fired == detector.fired
  <2>1. /\ w \in Windows /\ now \in 0..clock
        /\ s.detector.fired = [fired EXCEPT ![w] = IF s.report THEN now ELSE fired[w]]
        /\ s.report => fired[w] = Never \/ now - fired[w] >= 3 * WindowSecs
    BY <1>0, <1>5, ReportCools
  <2>2. s.detector.queue =
          [detector.queue EXCEPT ![w] = Kept(detector, w, Coming(t).path, now)]
    <3>1. Observes(detector, w, Coming(t).path, now, s) BY ObserveDoes DEF Seen
    <3> QED BY <3>1 DEF Observes
  <2>3. detector' = s.detector BY <1>3, <1>5
  <2> HIDE DEF w, now, s, fired
  <2>4. now \in Nat BY <1>0, <2>1
  <2>5. CASE w # "files"
    <3>1. detector'.fired["files"] = fired["files"]
      BY <1>0, <1>1, <2>1, <2>3, <2>5 DEF fired
    <3>2. detector'.queue["files"] = detector.queue["files"]
      BY <1>0, <1>1, <2>2, <2>3, <2>5
    <3> QED BY <1>2, <3>1, <3>2 DEF fired
  <2>6. CASE w = "files" /\ s.report
    <3>1. detector'.fired["files"] = now BY <1>0, <1>1, <2>1, <2>3, <2>6 DEF fired
    <3>2. fired["files"] <= now
      <4>1. CASE fired["files"] = Never BY <2>4, <4>1 DEF Never
      <4>2. CASE now - fired["files"] >= 3 * WindowSecs
        <5>1. fired["files"] \in Int BY <1>2 DEF fired
        <5> QED BY <1>0, <2>4, <4>2, <5>1
      <4> QED BY <2>1, <2>6, <4>1, <4>2
    <3> QED BY <1>2, <2>4, <2>6, <3>1, <3>2 DEF fired, w
  <2>7. CASE w = "files" /\ ~s.report
    <3>1. detector'.fired["files"] = fired["files"]
      BY <1>0, <1>1, <2>1, <2>3, <2>7 DEF fired
    <3> QED BY <1>2, <2>7, <3>1 DEF fired, w
  <2> QED BY <2>5, <2>6, <2>7
<1> QED BY <1>4, <1>5


(* Files of a latest window that this open belongs to are as many as the   *)
(* detector measures: it reports, or its last report is recent.            *)
LEMMA BurstSeen ==
  ASSUME NEW t \in Tids, InboxOK, EventsOK, LastOpenOK, HistoryOK, DetectorOK, Process(t),
         Window(t) = "files", Counted(Coming(t)),
         Held(events', detector'.queue["files"]),
         NEW n, n = Len(events) + 1, n \in Burst(events')
  PROVE  ~Missed(events', detector'.fired["files"])
<1> SUFFICES ASSUME Missed(events', detector'.fired["files"]) PROVE FALSE OBVIOUS
<1> DEFINE x == Coming(t).path
           now == Coming(t).ts
           kept == Kept(detector, "files", x, now)
           fired == detector.fired["files"]
           B == Burst(events')
<1>0. "files" \in Windows /\ inbox[t] # <<>> /\ detector' = Seen(t).detector
  BY ProcessDoes DEF Windows
<1>1. now \in Nat /\ x \in Names
  <2>1. Coming(t) \in Observations BY <1>0, ComingOK DEF Observed
  <2> QED BY <2>1 DEF Observations
<1>2. DetectorOf(detector) BY DEF DetectorOK
<1>3. Observes(detector, "files", x, now, Seen(t)) BY ObserveDoes DEF Seen
<1>4. detector'.counts = [y \in Names |-> Occurrences(kept, y)]
  <2>1. detector'.counts =
          Recounted(detector.counts, SubSeq(Entered(detector, "files", x, now), 1,
                                            Gone(detector, "files", x, now)), x)
    BY <1>0, <1>3 DEF Observes
  <2>2. Recounted(detector.counts, SubSeq(Entered(detector, "files", x, now), 1,
                                          Gone(detector, "files", x, now)), x)
          = [y \in Names |-> Occurrences(kept, y)]
    BY <1>1, <1>2, CountsOK
  <2> QED BY <2>1, <2>2
<1>5. detector.fired \in [Windows -> 0..clock \cup {Never}]
      /\ detector.queue \in [Windows -> Seq(Entries)]
  BY DEF DetectorOK, DetectorOf
<1>6. /\ detector'.queue["files"] = kept
      /\ Seen(t).report <=> /\ Measure("files", kept, detector'.counts) >= Thresholds["files"]
                            /\ Cooled(fired, now)
      /\ detector'.fired["files"] = IF Seen(t).report THEN now ELSE fired
  <2>1. detector'.queue = [detector.queue EXCEPT !["files"] = kept] BY <1>0, <1>3 DEF Observes
  <2>2. detector'.fired =
          [detector.fired EXCEPT !["files"] = IF Seen(t).report THEN now ELSE fired]
    BY <1>0, <1>3 DEF Observes
  <2>3. Seen(t).report <=> /\ Measure("files", kept, detector'.counts) >= Thresholds["files"]
                           /\ Cooled(fired, now)
    BY <1>0, <1>3 DEF Observes
  <2> HIDE DEF kept, now
  <2> QED BY <1>0, <1>5, <2>1, <2>2, <2>3
<1>7. Measure("files", kept, detector'.counts)
        = Cardinality({y \in Names : Occurrences(kept, y) > 0})
  <2> HIDE DEF kept
  <2>1. {y \in Names : detector'.counts[y] > 0} = {y \in Names : Occurrences(kept, y) > 0}
    BY <1>4
  <2> QED BY <2>1 DEF Measure
<1>8. kept \in Seq(Entries) BY <1>0, <1>1, <1>2, KeptOK
<1>9. \A i \in B : events'[i].path \in Names
  <2>1. events' \in Seq(Evs) BY EventsGrow
  <2>2. \A i \in 1..Len(events') : events'[i] \in Evs BY <2>1
  <2> QED BY <2>2 DEF Burst, Opens, Evs
<1>10. Held(events', kept) BY <1>6
<1> HIDE DEF kept, now, x, fired
<1>11. Measure("files", kept, detector'.counts) >= Thresholds["files"]
  <2> DEFINE S == {events'[i].path : i \in B}
             T == {y \in Names : Occurrences(kept, y) > 0}
  <2>1. Cardinality(S) \in Nat /\ Cardinality(T) \in Nat /\ Cardinality(S) <= Cardinality(T)
    BY <1>8, <1>9, <1>10, BurstMeasured
  <2>2. Cardinality(S) >= Thresholds["files"] BY DEF Missed
  <2>3. Thresholds["files"] \in Nat BY <1>0, AnomalyBounds
  <2> HIDE DEF S, T
  <2>4. Cardinality(T) >= Thresholds["files"] BY <2>1, <2>2, <2>3
  <2> QED BY <1>7, <2>4 DEF T
<1>12. events'[n].ts = now BY OpensGrow DEF now
<1>13. 3 * WindowSecs \in Nat BY AnomalyBounds
<1>14. fired \in Int
  <2>1. clock \in Nat BY EngineBounds DEF InboxOK
  <2> QED BY <1>0, <1>5, <2>1 DEF fired, Never
<1>15. CASE Cooled(fired, now)
  <2>1. detector'.fired["files"] = now BY <1>6, <1>11, <1>15
  <2>2. now # Never /\ now <= now BY <1>1 DEF Never
  <2> QED BY <1>12, <2>1, <2>2 DEF Missed
<1>16. CASE ~Cooled(fired, now)
  <2>1. detector'.fired["files"] = fired BY <1>6, <1>16
  <2>2. fired # Never /\ now - fired < 3 * WindowSecs BY <1>1, <1>13, <1>14, <1>16 DEF Cooled
  <2> QED BY <1>12, <2>1, <2>2 DEF Missed
<1> QED BY <1>15, <1>16

LEMMA BurstStep ==
  ASSUME InboxOK, EventsOK, LastOpenOK, HistoryOK, DetectorOK, BurstOK, NoBurstMissed,
         [Next]_vars
  PROVE  BurstOK' /\ NoBurstMissed'
<1>0. AnomalyEnabled => ~Missed(events, detector.fired["files"]) BY MissedIs
<1>1. NoBurstMissed' <=> (AnomalyEnabled => ~Missed(events', detector'.fired["files"]))
  BY DEF NoBurstMissed, Missed, Burst, Opens
<1>2. CASE ~ \E t \in Tids : Process(t)
  <2>1. events' = events /\ detector' = detector BY <1>2, OnlyProcess
  <2>2. BurstOK' BY <2>1 DEF BurstOK
  <2> QED BY <1>0, <1>1, <2>1, <2>2
<1>3. CASE ~AnomalyEnabled BY <1>1, <1>3 DEF BurstOK
<1>4. ASSUME NEW t \in Tids, Process(t), AnomalyEnabled PROVE BurstOK' /\ NoBurstMissed'
  <2> DEFINE n == Len(events) + 1
             fired == detector.fired["files"]
             later == detector'.fired["files"]
  <2>1. /\ n \notin Opens(events) /\ n \in 1..Len(events')
        /\ Opens(events') = IF Counted(Coming(t)) THEN Opens(events) \cup {n}
                            ELSE Opens(events)
    BY <1>4, OpensGrow
  <2>2. events \in Seq(Evs) /\ events' \in Seq(Evs) BY <1>4, EventsGrow DEF EventsOK
  <2>3. Grown(events, events') BY <1>4, ProcessGrows
  <2>4. /\ fired \in Int /\ later \in Int
        /\ later = fired \/ (later \in Nat /\ fired <= later)
        /\ Window(t) # "files" =>
             later = fired /\ detector'.queue["files"] = detector.queue["files"]
    BY <1>4, FiredOnward
  <2>5. Window(t) = "files" <=> Counted(Coming(t))
    BY <1>4 DEF Window, WindowOf, Counted
  <2>6. /\ IsFiniteSet(Opens(events)) /\ Cardinality(Opens(events)) \in Nat
        /\ Cardinality(Opens(events')) \in Nat
    BY <2>2, OpensFinite
  <2>7. Cardinality(Opens(events)) <= Cardinality(Opens(events'))
    <3>1. Cardinality(Opens(events) \cup {n}) = Cardinality(Opens(events)) + 1
      <4> HIDE DEF n
      <4> QED BY <2>1, <2>6, FS_AddElement
    <3> HIDE DEF n
    <3> QED BY <2>1, <2>6, <3>1
  <2> HIDE DEF n, fired, later
  <2>8. Burst(events') = Burst(events) => ~Missed(events', later)
    <3>1. ~Missed(events, fired) BY <1>0, <1>4 DEF fired
    <3> QED BY <2>2, <2>3, <2>4, <2>6, <2>7, <3>1, MissedLater
  <2>9. CASE ~Counted(Coming(t))
    <3>1. /\ Burst(events') = Burst(events)
          /\ \A i \in Burst(events) : events'[i] = events[i]
      BY <2>1, <2>3, <2>9, BurstSame
    <3>2. /\ detector'.queue["files"] = detector.queue["files"]
          /\ Opens(events') = Opens(events)
      BY <2>1, <2>4, <2>5, <2>9
    <3>3. BurstOK' BY <3>1, <3>2 DEF BurstOK, Held
    <3> QED BY <1>1, <2>8, <3>1, <3>3 DEF later
  <2>10. CASE Counted(Coming(t))
    <3>1. ASSUME Cardinality(Opens(events')) <= MaxFiles
          PROVE  Held(events', detector'.queue["files"])
      <4>1. Cardinality(Opens(events)) <= MaxFiles BY <2>6, <2>7, <3>1, AnomalyBounds
      <4>2. Held(events, detector.queue["files"]) BY <1>4, <4>1 DEF BurstOK
      <4> QED BY <1>4, <2>5, <2>10, <3>1, <4>2, HeldStep
    <3>2. BurstOK' BY <3>1 DEF BurstOK
    <3>3. ~Missed(events', later)
      <4>1. CASE n \notin Burst(events')
        <5>1. Burst(events') = Burst(events)
          BY <2>1, <2>2, <2>3, <2>10, <4>1, BurstGrows
        <5> QED BY <2>8, <5>1
      <4>2. CASE n \in Burst(events')
        <5> SUFFICES ASSUME Missed(events', later) PROVE FALSE OBVIOUS
        <5>1. Held(events', detector'.queue["files"]) BY <3>1 DEF Missed
        <5>2. ~Missed(events', detector'.fired["files"])
          BY <1>4, <2>5, <2>10, <4>2, <5>1, BurstSeen DEF n
        <5> QED BY <5>2 DEF later
      <4> QED BY <4>1, <4>2
    <3> QED BY <1>1, <3>2, <3>3 DEF later
  <2> QED BY <2>9, <2>10
<1> QED BY <1>2, <1>3, <1>4


-----------------------------------------------------------------------------
(* The theorems.                                                           *)

Promises ==
  /\ SilencedAreAllowed /\ ConfirmsOwn /\ AttributionIsExact /\ ExfiltrationLinked
  /\ CoolDown /\ NoBurstMissed

LEMMA NoneRemembered ==
  ASSUME NEW evs, evs = <<>>
  PROVE  Remembers(evs, <<>>)
<1> DEFINE none == [i \in 1..0 |-> 0]
<1>1. Len(evs) = 0 /\ Len(<<>>) = 0 OBVIOUS
<1>2. \A i : i \notin 1..0 OBVIOUS
<1>3. Asked(evs) = {} BY <1>1, <1>2 DEF Asked
<1>4. none \in [1..Len(<<>>) -> Asked(evs)] BY <1>1, <1>2
<1> HIDE DEF none
<1>5. QueriesAt(evs, <<>>, none) BY <1>1, <1>2, <1>3, <1>4 DEF QueriesAt
<1> QED BY <1>4, <1>5 DEF Remembers

LEMMA NewDetectorOK == DetectorOf(NewDetector)
<1> DEFINE d == NewDetector
<1>0. "files" \in Windows BY DEF Windows
<1>1. /\ d = [queue |-> d.queue, counts |-> d.counts, fired |-> d.fired]
      /\ d.queue = [w \in Windows |-> <<>>] /\ d.counts = [x \in Names |-> 0]
  BY DEF NewDetector
<1>2. d.queue \in [Windows -> Seq(Entries)] /\ d.queue["files"] = <<>> BY <1>0, <1>1
<1>3. Len(<<>>) = 0 /\ 0 <= MaxFiles BY AnomalyBounds
<1>4. ASSUME NEW x \in Names PROVE Occurrences(<<>>, x) = 0
  <2>1. ~(Occurrences(<<>>, x) > 0) /\ Occurrences(<<>>, x) \in Nat BY <1>3, PlacesFinite
  <2> QED BY <2>1
<1>5. d.counts = [x \in Names |-> Occurrences(<<>>, x)] BY <1>1, <1>4
<1> HIDE DEF d
<1>6. DetectorOf(d) BY <1>1, <1>2, <1>3, <1>5 DEF DetectorOf
<1> QED BY <1>6 DEF d

LEMMA Starts == Init => Inv /\ Promises
<1> SUFFICES ASSUME Init PROVE Inv /\ Promises OBVIOUS
<1>1. /\ agent \in Agents /\ clock = 0 /\ calls = 0 /\ inbox = [t \in Tids |-> <<>>]
      /\ drops = 0 /\ events = <<>> /\ lastOpen = [t \in Tids |-> {}] /\ dns = <<>>
      /\ history = <<>> /\ detector = NewDetector /\ silenced = {}
  BY DEF Init
<1>2. Len(events) = 0 /\ Len(dns) = 0 /\ Len(history) = 0 BY <1>1
<1>3. \A i : i \notin 1..0 OBVIOUS
<1>4. InboxOK
  <2>1. MaxTime[agent] \in Nat /\ MaxCalls[agent] \in Nat BY <1>1, EngineBounds
  <2>2. \A t \in Tids : inbox[t] = <<>> BY <1>1
  <2>3. inbox \in [Tids -> Seq(Observations)] BY <1>1
  <2>4. 0 \in 0..MaxTime[agent] /\ 0 \in 0..MaxCalls[agent] BY <2>1
  <2> QED BY <1>1, <1>3, <2>2, <2>3, <2>4 DEF InboxOK
<1>5. EventsOK BY <1>1, <1>2, <1>3 DEF EventsOK
<1>6. LastOpenOK BY <1>1 DEF LastOpenOK, OpenOf
<1>7. PairsOK
  <2>1. \A t \in Tids : Len(inbox[t]) = 0 BY <1>1
  <2> QED BY <1>3, <2>1 DEF PairsOK, Paired
<1>8. HistoryOK
  <2>1. history \in Seq(Recents) BY <1>1
  <2>2. 0 < History BY EngineBounds
  <2> QED BY <1>2, <1>3, <2>1, <2>2 DEF HistoryOK, HistoryOf
<1>9. DnsOK
  <2>1. dns \in Seq(Nat) BY <1>1
  <2>2. 0 <= MaxDns BY EngineBounds
  <2>3. Remembers(events, dns) BY <1>1, NoneRemembered
  <2> QED BY <1>2, <2>1, <2>2, <2>3 DEF DnsOK
<1>10. detector.fired = [w \in Windows |-> Never] BY <1>1 DEF NewDetector
<1>11. DetectorOK
  <2>1. detector.fired \in [Windows -> 0..clock \cup {Never}] BY <1>10
  <2>2. DetectorOf(detector) BY <1>1, NewDetectorOK
  <2> QED BY <1>2, <1>3, <2>1, <2>2 DEF DetectorOK
<1>12. Opens(events) = {} /\ Burst(events) = {} BY <1>2, <1>3 DEF Opens, Burst
<1>13. BurstOK
  <2>1. detector.queue["files"] = <<>> BY <1>1 DEF NewDetector, Windows
  <2>2. Cardinality({}) = 0 BY FS_EmptySet
  <2>3. Len(<<>>) = 0 OBVIOUS
  <2>4. Held(events, <<>>) BY <1>12, <2>2, <2>3 DEF Held
  <2> QED BY <2>1, <2>4 DEF BurstOK
<1>14. SilencedOK /\ SilencedAreAllowed BY <1>1 DEF SilencedOK, SilencedAreAllowed
<1>15. ConfirmsOwn /\ AttributionIsExact /\ ExfiltrationLinked /\ CoolDown
  BY <1>2, <1>3 DEF ConfirmsOwn, AttributionIsExact, ExfiltrationLinked, CoolDown
<1>16. NoBurstMissed
  <2>1. ~Missed(events, detector.fired["files"]) BY <1>12 DEF Missed
  <2> QED BY <2>1, MissedIs
<1> QED BY <1>4, <1>5, <1>6, <1>7, <1>8, <1>9, <1>11, <1>13, <1>14, <1>15, <1>16
        DEF Inv, Promises

LEMMA Goes == Inv /\ Promises /\ [Next]_vars => (Inv /\ Promises)'
<1> SUFFICES ASSUME Inv, Promises, [Next]_vars PROVE (Inv /\ Promises)' OBVIOUS
<1>0. /\ InboxOK /\ EventsOK /\ LastOpenOK /\ PairsOK /\ HistoryOK /\ DnsOK
      /\ DetectorOK /\ BurstOK /\ SilencedOK
      /\ SilencedAreAllowed /\ ConfirmsOwn /\ AttributionIsExact /\ ExfiltrationLinked
      /\ CoolDown /\ NoBurstMissed
  BY DEF Inv, Promises
<1>1. InboxOK' BY <1>0, InboxStep
<1>2. EventsOK' BY <1>0, EventsStep
<1>3. LastOpenOK' BY <1>0, LastOpenStep
<1>4. PairsOK' BY <1>0, PairsStep
<1>5. HistoryOK' BY <1>0, HistoryStep
<1>6. DnsOK' BY <1>0, DnsStep
<1>7. DetectorOK' /\ CoolDown' BY <1>0, DetectorStep
<1>8. BurstOK' /\ NoBurstMissed' BY <1>0, BurstStep
<1>9. SilencedOK' /\ SilencedAreAllowed' BY <1>0, SilencedStep
<1>10. ConfirmsOwn' BY <1>0, ConfirmsStep
<1>11. AttributionIsExact' BY <1>0, AttributionStep
<1>12. ExfiltrationLinked' BY <1>0, LinkedStep
<1> QED BY <1>1, <1>2, <1>3, <1>4, <1>5, <1>6, <1>7, <1>8, <1>9, <1>10, <1>11, <1>12
        DEF Inv, Promises

LEMMA Always == Spec => [](Inv /\ Promises)
<1> QED BY Starts, Goes, PTL DEF Spec

LEMMA InvTypes == Inv => TypeOK
<1> SUFFICES ASSUME Inv PROVE TypeOK OBVIOUS
<1>1. clock \in 0..MaxTime[agent] /\ calls \in 0..MaxCalls[agent] /\ drops \in Nat
  BY DEF Inv, InboxOK
<1>2. /\ detector.queue \in [Windows -> Seq(Entries)]
      /\ detector.counts = [x \in Names |-> Occurrences(detector.queue["files"], x)]
      /\ detector.fired \in [Windows -> 0..clock \cup {Never}]
      /\ Len(detector.queue["files"]) <= MaxFiles
  BY DEF Inv, DetectorOK, DetectorOf
<1>3. \A t \in Tids : \A l \in lastOpen[t] :
        l.seq \in 1..Len(events) /\ events[l.seq].verdict = l.verdict
  BY DEF Inv, LastOpenOK, OpenOf
<1>4. \A i \in 1..Len(events) : events[i].verdict \in Verdicts
  <2>1. \A i \in 1..Len(events) : events[i] \in Evs BY DEF Inv, EventsOK
  <2> QED BY <2>1 DEF Evs
<1>5. Len(dns) <= MaxDns BY DEF Inv, DnsOK
<1>6. Len(history) <= History
  <2>1. Len(history) = IF Len(events) < History THEN Len(events) ELSE History
    BY DEF Inv, HistoryOK, HistoryOf
  <2>2. Len(events) \in Nat /\ History \in Nat
    <3>1. events \in Seq(Evs) BY DEF Inv, EventsOK
    <3> QED BY <3>1, EngineBounds
  <2> QED BY <2>1, <2>2
<1> QED BY <1>1, <1>2, <1>3, <1>4, <1>5, <1>6 DEF TypeOK

(* Type correctness: the bounded queues of engine.rs and anomaly.rs keep   *)
(* their bounds, last_open names recorded events, and file_counts, which   *)
(* is maintained entry by entry, is the number of each file's entries in   *)
(* the window (anomaly.rs:20).                                             *)
THEOREM TypeCorrect == Spec => []TypeOK
<1> QED BY Always, InvTypes, PTL

(* Without drops, the kernel's account of an open, with or without an      *)
(* entry of its own, is left out of the record only if the policy allows   *)
(* that access too, or in the named exceptions: container setup, a refused *)
(* cache write, a device, and a write that the thread's last open of the   *)
(* path did not announce (engine.rs:188).                                  *)
THEOREM SilencedRight == Spec => []SilencedAreAllowed
<1>1. Promises => SilencedAreAllowed BY DEF Promises
<1> QED BY <1>1, Always, PTL

(* confirms_seq names an earlier violation of the same thread and path,    *)
(* and without drops one of the same call unless the open has no entry of  *)
(* its own (engine.rs:195).                                                *)
THEOREM ConfirmedOwn == Spec => []ConfirmsOwn
<1>1. Promises => ConfirmsOwn BY DEF Promises
<1> QED BY <1>1, Always, PTL

(* decide_net() puts a connection down to an allowed query exactly if one  *)
(* of the remembered queries is recent enough, in whatever order queries   *)
(* and connections arrive.                                                 *)
THEOREM Attribution == Spec => []AttributionIsExact
<1>1. Promises => AttributionIsExact BY DEF Promises
<1> QED BY <1>1, Always, PTL

(* correlate() links a network violation to every recent credential access *)
(* in the history, and links nothing to later or older events.             *)
THEOREM Exfiltration == Spec => []ExfiltrationLinked
<1>1. Promises => ExfiltrationLinked BY DEF Promises
<1> QED BY <1>1, Always, PTL

(* "Fire at most once per three windows per detector" (anomaly.rs:40), for *)
(* observations whose times are out of order too.                          *)
THEOREM CoolsDown == Spec => []CoolDown
<1>1. Promises => CoolDown BY DEF Promises
<1> QED BY <1>1, Always, PTL

(* A burst of opens within one window is reported, or a report less than   *)
(* three windows back stands for it, unless more opens were recorded than  *)
(* the window of files may hold (anomaly.rs:60).                           *)
THEOREM BurstReported == Spec => []NoBurstMissed
<1>1. Promises => NoBurstMissed BY DEF Promises
<1> QED BY <1>1, Always, PTL
=============================================================================

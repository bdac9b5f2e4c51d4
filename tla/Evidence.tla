------------------------------ MODULE Evidence ------------------------------
(***************************************************************************)
(* What monitors leave on disk and what `killline verify', `inspect' and   *)
(* the dashboard make of it: the hash-chained timeline of a session        *)
(* (killline-core/src/store.rs) and the incident bundles (incident.rs).    *)
(*                                                                         *)
(* Several monitors share the directory of incidents.  A monitor is one    *)
(* thread: it records events, or writes a bundle file by file; the system  *)
(* writes its timeline out in pieces that need not end with a line.  One   *)
(* that dies takes no more steps, which no action has to say.  A reader    *)
(* checks a bundle file by file while it may be rewritten.  Somebody may   *)
(* edit a file by hand, one line, field or file at a time.                 *)
(*                                                                         *)
(* A hash is what it is the hash of, so the hash of a record is the        *)
(* sequence of events up to it, and the checksum of a file its contents.   *)
(***************************************************************************)
EXTENDS Naturals, Sequences, FiniteSets, SequencesExt, TLC

CONSTANTS
  Monitors,
  Events,       \* what is recorded: [pid, ppid, breach, net]
  FILES,        \* the files of a bundle, in the order they are written
  Context,      \* CONTEXT_EVENTS
  MaxDepth,     \* of a process tree
  Torn,         \* part of a line
  Absent,       \* a file that is not there
  Edited,       \* contents that Kill Line did not write
  MaxId,        \* incidents of a day
  Limits,       \* bounds on the events of each monitor
  MaxEdits      \* bound on edits by hand

ASSUME EvidenceBounds ==
  /\ Context \in Nat \ {0} /\ MaxDepth \in Nat /\ MaxId \in Nat
  /\ Limits \subseteq [Monitors -> Nat] /\ MaxEdits \in Nat
ASSUME EvidenceFiles ==
  /\ FILES \in Seq(STRING) /\ "checksums.txt" \notin Range(FILES)
  /\ {"incident.json", "timeline.jsonl", "process_tree.json", "policy.yaml"}
       \subseteq Range(FILES)
ASSUME EvidenceEvents ==
  \A e \in Events : {"pid", "ppid", "breach", "net"} = DOMAIN e

Names == Range(FILES)
Ids == 1..MaxId
ASSUME EvidenceNames == Monitors \cap Ids = {}

VARIABLES
  log,      \* the events each monitor recorded
  sent,     \* how much of its timeline is written out: [lines, half]
  timeline, \* timeline.jsonl on disk: records, or Torn
  job,      \* what each monitor is writing: {} or {Jobs}
  open,     \* pending: incidents not final yet, [id, first, trigger]
  dirs,     \* the bundles on disk: {} or {[sums, and the files]} by id
  reader,   \* a verification under way or just ended: {} or {Readings}
  edits, edited,  \* edits by hand: how many, and of which files
  limit           \* the one of Limits that applies

vars == <<log, sent, timeline, job, open, dirs, reader, edits, edited, limit>>
monitorVars == <<log, sent, timeline, job, open, limit>>

Init ==
  /\ log = [m \in Monitors |-> <<>>]
  /\ sent = [m \in Monitors |-> [lines |-> 0, half |-> FALSE]]
  /\ timeline = [m \in Monitors |-> <<>>]
  /\ job = [m \in Monitors |-> {}] /\ open = [m \in Monitors |-> {}]
  /\ dirs = [i \in Ids |-> {}] /\ reader = {}
  /\ edits = 0 /\ edited = {} /\ limit \in Limits

-----------------------------------------------------------------------------
(* The timeline.                                                           *)

ChainHash(prev, event) == Append(prev, event)

(* The line that append() makes of the k-th event.                         *)
Line(m, k) ==
  LET prev == SubSeq(log[m], 1, k - 1)
  IN [seq |-> k, prev |-> prev, hash |-> ChainHash(prev, log[m][k]),
      event |-> log[m][k]]

(* The BufWriter hands bytes to the system when it is full or flushed, and *)
(* they reach the file in pieces: half a line, then the rest.              *)
WriteOut(m) ==
  /\ sent[m].lines < Len(log[m])
  /\ sent' = [sent EXCEPT ![m] =
       IF @.half THEN [lines |-> @.lines + 1, half |-> FALSE]
       ELSE [@ EXCEPT !.half = TRUE]]
  /\ timeline' = [timeline EXCEPT ![m] =
       IF sent[m].half /\ @ # <<>> /\ Last(@) = Torn
       THEN Append(Front(@), Line(m, sent[m].lines + 1)) ELSE Append(@, Torn)]
  /\ UNCHANGED <<log, job, open, dirs, reader, edits, edited, limit>>

Flushed(m) == sent[m].lines = Len(log[m])

(* Faulty: the link to the record before is not compared.                  *)
IntactUnlinked(lines, k) ==
  /\ lines[k].hash = ChainHash(lines[k].prev, lines[k].event)
  /\ k > 1 => lines[k].seq > lines[k - 1].seq

(* What verify_timeline asks of a record.                                  *)
Intact(lines, k) ==
  LET prev == IF k = 1 THEN <<>> ELSE lines[k - 1].hash
  IN /\ lines[k].prev = prev
     /\ lines[k].hash = ChainHash(prev, lines[k].event)
     /\ k > 1 => lines[k].seq > lines[k - 1].seq

(* VerifyReport.ok; what is not a whole record does not parse.             *)
VerifyTimeline(lines) ==
  Torn \notin Range(lines) /\ \A k \in 1..Len(lines) : Intact(lines, k)

-----------------------------------------------------------------------------
(* Incident bundles.                                                       *)

(* session.process_table: the parent each process was first seen with.     *)
Table(events) ==
  LET pids == {events[i].pid : i \in 1..Len(events)}
      First(p) == CHOOSE i \in 1..Len(events) :
                    events[i].pid = p /\ \A j \in 1..(i - 1) : events[j].pid # p
  IN [p \in pids |-> events[First(p)].ppid]

(* Faulty: a process that is its own parent is no root.                    *)
RootsStrict(t) == {p \in DOMAIN t : t[p] \notin DOMAIN t}

Roots(t) == {p \in DOMAIN t : t[p] \notin DOMAIN t \/ t[p] = p}

(* build() of process_tree(), which stops below depth MaxDepth: by         *)
(* generations from the roots.                                             *)
Generations(t) ==
  LET Generation[d \in 0..(MaxDepth + 1)] ==
        IF d = 0 THEN Roots(t)
        ELSE {p \in DOMAIN t : t[p] \in Generation[d - 1] /\ p # t[p]}
  IN Generation

(* process_tree(): the processes in it.                                    *)
ProcessTree(t) == UNION {Generations(t)[d] : d \in 0..(MaxDepth + 1)}

(* What write() puts into each file for incident i of monitor m when the   *)
(* session has recorded `events'.                                          *)
Contents(m, i, events, final) ==
  LET context == SubSeq(events, i.first, Len(events))
      Net(e)  == e.net
      Else(e) == ~e.net
  IN [f \in Names |->
       CASE f = "incident.json" ->
              [by |-> m, incident |-> i, recorded |-> Len(events), final |-> final]
         [] f = "timeline.jsonl" -> context
         [] f = "process_tree.json" -> ProcessTree(Table(events))
         [] f = "network_events.json" -> SelectSeq(context, Net)
         [] f = "filesystem_events.json" -> SelectSeq(context, Else)
         [] f = "policy.yaml" -> <<m>>
         [] f = "system_metadata.json" -> <<m, Len(events)>>]

NoFiles == [f \in Names \cup {"checksums.txt"} |-> Absent]

(* session.apply and store.append; a breach calls for a bundle.            *)
Record(m, e) ==
  /\ job[m] = {} /\ Len(log[m]) < limit[m]
  /\ log' = [log EXCEPT ![m] = Append(@, e)]
  /\ job' = [job EXCEPT ![m] =
       IF e.breach
       THEN {[id |-> 1, claimed |-> FALSE, at |-> 1, final |-> FALSE]} ELSE {}]
  /\ UNCHANGED <<sent, timeline, open, dirs, reader, edits, edited, limit>>

(* PendingIncident::new: the events before the trigger, and it.            *)
NewIncident(m, id) ==
  LET n == Len(log[m])
  IN [id |-> id, trigger |-> n, first |-> IF n > Context THEN n - Context + 1 ELSE 1]

(* Faulty: only the ids this monitor has used are passed over.             *)
ClaimOwn(m) ==
  /\ \E j \in job[m] :
       /\ ~j.claimed /\ Flushed(m) /\ j.id \in Ids
       /\ IF \E i \in open[m] : i.id = j.id
          THEN /\ job' = [job EXCEPT ![m] = {[j EXCEPT !.id = @ + 1]}]
               /\ UNCHANGED <<open, dirs>>
          ELSE /\ job' = [job EXCEPT ![m] = {[j EXCEPT !.claimed = TRUE]}]
               /\ open' = [open EXCEPT ![m] = @ \cup {NewIncident(m, j.id)}]
               /\ dirs' = [dirs EXCEPT ![j.id] = {NoFiles}]
  /\ UNCHANGED <<log, sent, timeline, reader, edits, edited, limit>>

(* next_incident_id, once the timeline is flushed: create_dir claims an id *)
(* or finds it taken.  "too many incidents today" ends the monitor.        *)
Claim(m) ==
  /\ \E j \in job[m] :
       /\ ~j.claimed /\ Flushed(m) /\ j.id \in Ids
       /\ IF dirs[j.id] # {}
          THEN /\ job' = [job EXCEPT ![m] = {[j EXCEPT !.id = @ + 1]}]
               /\ UNCHANGED <<open, dirs>>
          ELSE /\ job' = [job EXCEPT ![m] = {[j EXCEPT !.claimed = TRUE]}]
               /\ open' = [open EXCEPT ![m] = @ \cup {NewIncident(m, j.id)}]
               /\ dirs' = [dirs EXCEPT ![j.id] = {NoFiles}]
  /\ UNCHANGED <<log, sent, timeline, reader, edits, edited, limit>>

(* The end of the post-trigger window.                                     *)
Finalise(m, i) ==
  /\ job[m] = {} /\ i \in open[m]
  /\ job' = [job EXCEPT ![m] =
       {[id |-> i.id, claimed |-> TRUE, at |-> 1, final |-> TRUE]}]
  /\ UNCHANGED <<log, sent, timeline, open, dirs, reader, edits, edited, limit>>

(* A verification that is under way has met a file being replaced.         *)
Disturbed(id) == {IF r.id = id THEN [r EXCEPT !.calm = FALSE] ELSE r : r \in reader}

(* One file of write(), replaced as a whole by write_private.              *)
WriteFile(m) ==
  /\ \E j \in job[m], i \in open[m] :
       /\ j.claimed /\ i.id = j.id /\ j.at <= Len(FILES)
       /\ job' = [job EXCEPT ![m] = {[j EXCEPT !.at = @ + 1]}]
       /\ dirs' = [dirs EXCEPT ![j.id] =
            {[d EXCEPT ![FILES[j.at]] = Contents(m, i, log[m], j.final)[FILES[j.at]]] :
               d \in @}]
       /\ reader' = Disturbed(j.id)
       /\ edited' = edited \ {<<j.id, FILES[j.at]>>}
  /\ UNCHANGED <<log, sent, timeline, open, edits, limit>>

(* write_checksums: of the files as they are read back.                    *)
WriteChecksums(m) ==
  /\ \E j \in job[m], i \in open[m] :
       /\ j.claimed /\ i.id = j.id /\ j.at > Len(FILES)
       /\ dirs' = [dirs EXCEPT ![j.id] =
            {[d EXCEPT !["checksums.txt"] = [f \in Names |-> d[f]]] : d \in @}]
       /\ open' = IF j.final THEN [open EXCEPT ![m] = @ \ {i}] ELSE open
       /\ reader' = Disturbed(j.id)
  /\ job' = [job EXCEPT ![m] = {}]
  /\ UNCHANGED <<log, sent, timeline, edits, edited, limit>>

-----------------------------------------------------------------------------
(* Readers and editors.                                                    *)

(* A bundle that is being written, or was when its monitor died.           *)
Writing(id) == \E m \in Monitors : \E j \in job[m] : j.claimed /\ j.id = id

(* incident_dir(), then verify_checksums(): checksums.txt first.  Without  *)
(* it the reader gets an error.                                            *)
Begin(id) ==
  /\ \A r \in reader : r.at > Len(FILES)
  /\ \E d \in dirs[id] :
       /\ d["incident.json"] # Absent /\ d["checksums.txt"] # Absent
       /\ reader' = {[id |-> id, sums |-> d["checksums.txt"], got |-> <<>>, at |-> 1,
                      calm |-> ~Writing(id) /\ \A f \in Names : <<id, f>> \notin edited]}
  /\ UNCHANGED <<monitorVars, dirs, edits, edited>>

(* The next file.                                                          *)
ReadFile ==
  /\ \E r \in reader :
       /\ r.at <= Len(FILES)
       /\ \E d \in dirs[r.id] :
            reader' = {[r EXCEPT !.at = @ + 1,
              !.got = [f \in DOMAIN r.got \cup {FILES[r.at]} |->
                         IF f = FILES[r.at] THEN d[f] ELSE r.got[f]]]}
  /\ UNCHANGED <<monitorVars, dirs, edits, edited>>

(* The files reported as modified.                                         *)
Bad(r) == {f \in DOMAIN r.got : r.got[f] # r.sums[f]}

(* A file of a bundle that is not being written is changed or removed.     *)
EditFile(id, f) ==
  /\ edits < MaxEdits /\ ~Writing(id)
  /\ \E d \in dirs[id], to \in {Edited, Absent} :
       /\ d[f] # Absent
       /\ dirs' = [dirs EXCEPT ![id] = {[d EXCEPT ![f] = to]}]
  /\ edits' = edits + 1 /\ edited' = edited \cup {<<id, f>>}
  /\ reader' = Disturbed(id)
  /\ UNCHANGED monitorVars

(* What one edit makes of a timeline: a line removed, repeated, exchanged  *)
(* with the next, or one field of a record changed.                        *)
EditsOf(lines) ==
  LET all     == 1..Len(lines)
      records == {k \in all : lines[k] # Torn}
  IN {RemoveAt(lines, k) : k \in all}
       \cup {InsertAt(lines, k, lines[k]) : k \in all}
       \cup {[lines EXCEPT ![k] = lines[k + 1], ![k + 1] = lines[k]] :
               k \in all \ {Len(lines)}}
       \cup {[lines EXCEPT ![k].seq = @ + 1] : k \in records}
       \cup {[lines EXCEPT ![k].hash = <<>>] : k \in records}
       \cup {[lines EXCEPT ![k].event.net = ~@] : k \in records}

EditTimeline(m) ==
  /\ edits < MaxEdits
  /\ \E lines \in EditsOf(timeline[m]) : timeline' = [timeline EXCEPT ![m] = lines]
  /\ edits' = edits + 1 /\ edited' = edited \cup {<<m, "timeline.jsonl">>}
  /\ UNCHANGED <<log, sent, job, open, dirs, reader, limit>>

Next ==
  \/ \E m \in Monitors :
       \/ WriteOut(m) \/ Claim(m) \/ WriteFile(m) \/ WriteChecksums(m)
       \/ EditTimeline(m)
       \/ \E e \in Events : Record(m, e)
       \/ \E i \in open[m] : Finalise(m, i)
  \/ ReadFile
  \/ \E id \in Ids : Begin(id) \/ \E f \in Names : EditFile(id, f)

Spec == Init /\ [][Next]_vars

-----------------------------------------------------------------------------
Jobs == [id : 1..(MaxId + 1), claimed : BOOLEAN, at : 1..(Len(FILES) + 1),
         final : BOOLEAN]

(* Type correctness; a monitor writes one thing at a time, and two never   *)
(* write to the same bundle: "two monitors cannot claim the same id"       *)
(* (incident.rs:65).                                                       *)
TypeOK ==
  /\ limit \in Limits /\ edits \in 0..MaxEdits
  /\ \A m \in Monitors :
       /\ log[m] \in Seq(Events) /\ sent[m] \in [lines : 0..Len(log[m]), half : BOOLEAN]
       /\ job[m] \subseteq Jobs /\ Cardinality(job[m]) <= 1
       /\ \A i \in open[m] : i.id \in Ids /\ i.first <= i.trigger
       /\ \A n \in Monitors \ {m} : \A i \in open[m], k \in open[n] : i.id # k.id
  /\ \A id \in Ids : \A d \in dirs[id] :
       d["policy.yaml"] \in {Absent, Edited} \/ d["incident.json"] \in {Absent, Edited}
         \/ d["policy.yaml"] = <<d["incident.json"].by>>

(* A timeline that verifies records a beginning of what the monitor        *)
(* recorded, in order, whatever line or field was edited (store.rs:13);    *)
(* and an untouched one verifies, after a crash too, unless the monitor is *)
(* in the middle of a line or died there.                                  *)
ChainIsPrefix ==
  \A m \in Monitors :
    LET lines == timeline[m]
    IN /\ VerifyTimeline(lines) =>
            IsPrefix([k \in 1..Len(lines) |-> lines[k].event], log[m])
       /\ <<m, "timeline.jsonl">> \notin edited /\ Torn \notin Range(lines) =>
            VerifyTimeline(lines)

(* p has more than MaxDepth + 1 recorded ancestors, as it has when its     *)
(* recorded parents go round in a circle.                                  *)
Deep(t, p) ==
  \E c \in [0..(MaxDepth + 2) -> DOMAIN t] :
    /\ c[0] = p
    /\ \A i \in 1..(MaxDepth + 2) : c[i] = t[c[i - 1]] /\ c[i] # c[i - 1]

(* A bundle that a reader found unmodified, however its reading interleaved *)
(* with a rewrite, is what one write() made, and in its tree is every      *)
(* process of its timeline but those too deep below a root or in a circle  *)
(* of parents; and one that nobody was writing or edited is never found    *)
(* modified (incident.rs:198, views.rs:680).                               *)
VerifiedIsWhole ==
  \A r \in reader :
    /\ r.calm => Bad(r) = {}
    /\ r.at > Len(FILES) /\ Bad(r) = {} =>
         LET inc    == r.got["incident.json"]
             events == SubSeq(log[inc.by], 1, inc.recorded)
             table  == Table(events)
         IN /\ r.got = Contents(inc.by, inc.incident, events, inc.final)
            /\ \A k \in 1..Len(r.got["timeline.jsonl"]) :
                 LET p == r.got["timeline.jsonl"][k].pid
                 IN p \in r.got["process_tree.json"] \/ Deep(table, p)
=============================================================================

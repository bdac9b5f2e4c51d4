--------------------------- MODULE EvidenceProofs ---------------------------
(***************************************************************************)
(* That what verifies is what was recorded, for any number of monitors,    *)
(* events, files and edits: the three properties of Evidence are invariants*)
(* of its specification.                                                   *)
(***************************************************************************)
EXTENDS Evidence, SequenceTheorems, FiniteSetTheorems, TLAPS

-----------------------------------------------------------------------------
(* Sequences and sets of numbers.                                          *)

(* Every nonempty set of numbers has a smallest.                           *)
LEMMA Smallest ==
  ASSUME NEW T \in SUBSET Nat, T # {}
  PROVE  \E k \in T : \A j \in T : k <= j
<1>1. PICK k \in T : \A j \in T : <<j, k>> \notin OpToRel(<, Nat)
  BY NatLessThanWellFounded, WFMin, Zenon
<1>2. ASSUME NEW j \in T PROVE k <= j
  <2>1. j \in Nat /\ k \in Nat OBVIOUS
  <2>2. ~(j < k) BY <1>1, <2>1 DEF OpToRel
  <2> QED BY <2>1, <2>2
<1> QED BY <1>2

(* A beginning of a sequence: its length, its elements, and that it is     *)
(* still one when the sequence grows.                                      *)
LEMMA Beginning ==
  ASSUME NEW S, NEW s \in Seq(S), NEW n \in 0..Len(s)
  PROVE  /\ SubSeq(s, 1, n) \in Seq(S) /\ Len(SubSeq(s, 1, n)) = n
         /\ \A i \in 1..n : SubSeq(s, 1, n)[i] = s[i]
<1>1. \A i \in 1..n : s[i] \in S OBVIOUS
<1>2. /\ SubSeq(s, 1, n) \in Seq(S)
      /\ Len(SubSeq(s, 1, n)) = IF 1 <= n THEN n - 1 + 1 ELSE 0
      /\ \A i \in 1..n - 1 + 1 : SubSeq(s, 1, n)[i] = s[1 + i - 1]
  BY <1>1, SubSeqProperties, n \in Int, 1 \in Int
<1> QED BY <1>2

LEMMA BeginningGrows ==
  ASSUME NEW S, NEW s \in Seq(S), NEW e \in S, NEW n \in 0..Len(s)
  PROVE  SubSeq(Append(s, e), 1, n) = SubSeq(s, 1, n)
<1>1. /\ Append(s, e) \in Seq(S) /\ Len(Append(s, e)) = Len(s) + 1
      /\ \A i \in 1..Len(s) : Append(s, e)[i] = s[i]
  BY AppendProperties
<1>2. n \in 0..Len(Append(s, e)) BY <1>1
<1>3. /\ SubSeq(s, 1, n) \in Seq(S) /\ Len(SubSeq(s, 1, n)) = n
      /\ \A i \in 1..n : SubSeq(s, 1, n)[i] = s[i]
  BY Beginning
<1>4. /\ SubSeq(Append(s, e), 1, n) \in Seq(S) /\ Len(SubSeq(Append(s, e), 1, n)) = n
      /\ \A i \in 1..n : SubSeq(Append(s, e), 1, n)[i] = Append(s, e)[i]
  BY <1>1, <1>2, Beginning
<1> QED BY <1>1, <1>3, <1>4

(* One element more.                                                       *)
LEMMA NextBeginning ==
  ASSUME NEW S, NEW s \in Seq(S), NEW k \in 1..Len(s)
  PROVE  Append(SubSeq(s, 1, k - 1), s[k]) = SubSeq(s, 1, k)
<1>1. /\ SubSeq(s, 1, k - 1) \in Seq(S) /\ Len(SubSeq(s, 1, k - 1)) = k - 1
      /\ \A i \in 1..(k - 1) : SubSeq(s, 1, k - 1)[i] = s[i]
  BY Beginning
<1>2. /\ SubSeq(s, 1, k) \in Seq(S) /\ Len(SubSeq(s, 1, k)) = k
      /\ \A i \in 1..k : SubSeq(s, 1, k)[i] = s[i]
  BY Beginning
<1>3. s[k] \in S OBVIOUS
<1>4. LET a == Append(SubSeq(s, 1, k - 1), s[k])
      IN a \in Seq(S) /\ Len(a) = k /\ (\A i \in 1..(k - 1) : a[i] = s[i]) /\ a[k] = s[k]
  BY <1>1, <1>3, AppendProperties
<1> QED BY <1>2, <1>4

-----------------------------------------------------------------------------
(* Process trees.                                                          *)

Children(t, g) == {p \in DOMAIN t : t[p] \in g /\ p # t[p]}

(* There is a table of generations, so that Generations(t) is one.         *)
LEMMA GenerationsDef ==
  ASSUME NEW t
  PROVE  /\ Generations(t)[0] = Roots(t)
         /\ \A d \in 1..(MaxDepth + 1) :
              Generations(t)[d] = Children(t, Generations(t)[d - 1])
<1> DEFINE Solves(g, n) == g = [d \in 0..n |->
             IF d = 0 THEN Roots(t)
             ELSE {p \in DOMAIN t : t[p] \in g[d - 1] /\ p # t[p]}]
           T == {n \in Nat : ~ \E g : Solves(g, n)}
<1>0. MaxDepth + 1 \in Nat BY EvidenceBounds
<1>1. T = {}
  <2> SUFFICES ASSUME T # {} PROVE FALSE OBVIOUS
  <2>1. PICK k \in T : \A j \in T : k <= j BY Smallest, T \in SUBSET Nat
  <2>2. k # 0
    <3> DEFINE g == [d \in 0..0 |-> Roots(t)]
    <3>1. Solves(g, 0) OBVIOUS
    <3> QED BY <3>1
  <2>3. k - 1 \in Nat /\ k - 1 \notin T BY <2>1, <2>2
  <2>4. PICK g : Solves(g, k - 1) BY <2>3
  <2> DEFINE h == [d \in 0..k |-> IF d = k THEN Children(t, g[k - 1]) ELSE g[d]]
  <2>5. ASSUME NEW d \in 0..k
        PROVE  h[d] = IF d = 0 THEN Roots(t)
                      ELSE {p \in DOMAIN t : t[p] \in h[d - 1] /\ p # t[p]}
    <3>1. CASE d = k
      <4>1. h[d] = Children(t, g[k - 1]) BY <3>1
      <4>2. h[d - 1] = g[k - 1] BY <3>1, <2>2
      <4> QED BY <4>1, <4>2, <3>1, <2>2 DEF Children
    <3>2. CASE d # k
      <4>1. d \in 0..(k - 1) /\ h[d] = g[d] BY <3>2
      <4>2. g[d] = IF d = 0 THEN Roots(t)
                   ELSE {p \in DOMAIN t : t[p] \in g[d - 1] /\ p # t[p]}
        BY <2>4, <4>1
      <4>3. d # 0 => h[d - 1] = g[d - 1] BY <4>1
      <4> QED BY <4>1, <4>2, <4>3
    <3> QED BY <3>1, <3>2
  <2>6. Solves(h, k) BY <2>5
  <2> QED BY <2>6
<1>2. PICK g : Solves(g, MaxDepth + 1) BY <1>0, <1>1
<1> DEFINE G == CHOOSE x : Solves(x, MaxDepth + 1)
<1>3. Solves(G, MaxDepth + 1) BY <1>2
<1>4. Generations(t) = G BY DEF Generations
<1>5. ASSUME NEW d \in 0..(MaxDepth + 1)
      PROVE  G[d] = IF d = 0 THEN Roots(t)
                    ELSE {p \in DOMAIN t : t[p] \in G[d - 1] /\ p # t[p]}
  <2> HIDE DEF G
  <2> QED BY <1>3
<1> HIDE DEF G
<1>6. G[0] = Roots(t)
  <2>1. 0 \in 0..(MaxDepth + 1) BY <1>0
  <2> QED BY <2>1, <1>5
<1>7. ASSUME NEW d \in 1..(MaxDepth + 1) PROVE G[d] = Children(t, G[d - 1])
  <2>1. d \in 0..(MaxDepth + 1) /\ d # 0 BY <1>0
  <2>2. G[d] = {p \in DOMAIN t : t[p] \in G[d - 1] /\ p # t[p]} BY <2>1, <1>5, Zenon
  <2> QED BY <2>2, Zenon DEF Children
<1> QED BY <1>4, <1>6, <1>7

(* A process outside the tree is too deep, or in a circle.                 *)
LEMMA Outside ==
  ASSUME NEW t, NEW p \in DOMAIN t, p \notin ProcessTree(t)
  PROVE  Deep(t, p)
<1> DEFINE M == MaxDepth + 1
           G == Generations(t)
           Chain(c, n) ==
             /\ c \in [0..n -> DOMAIN t] /\ c[0] = p
             /\ \A i \in 1..n : c[i] = t[c[i - 1]] /\ c[i] # c[i - 1]
             /\ \A i \in 0..n, d \in 0..M : i + d <= M => c[i] \notin G[d]
           T == {n \in 0..(M + 1) : ~ \E c : Chain(c, n)}
<1>0. M \in Nat BY EvidenceBounds
<1>1. /\ G[0] = Roots(t)
      /\ \A d \in 1..M : G[d] = Children(t, G[d - 1])
  BY GenerationsDef
<1>2. \A d \in 0..M : p \notin G[d] BY DEF ProcessTree
<1> HIDE DEF G
<1>3. T = {}
  <2> SUFFICES ASSUME T # {} PROVE FALSE OBVIOUS
  <2>1. PICK k \in T : \A j \in T : k <= j BY Smallest, T \in SUBSET Nat
  <2>2. k # 0
    <3> DEFINE c == [i \in 0..0 |-> p]
    <3>1. Chain(c, 0) BY <1>0, <1>2
    <3> QED BY <3>1
  <2> HIDE DEF Chain
  <2>3. k - 1 \in 0..M /\ k - 1 \in 0..(M + 1) /\ k - 1 \notin T
    <3>1. k \in 0..(M + 1) BY <2>1
    <3>2. ~(k <= k - 1) BY <3>1, <1>0
    <3> QED BY <1>0, <2>1, <2>2, <3>1, <3>2
  <2>4. PICK c : Chain(c, k - 1) BY <2>3
  <2> USE DEF Chain
  <2> DEFINE q == c[k - 1]
             b == [i \in 0..k |-> IF i = k THEN t[q] ELSE c[i]]
  <2>5. q \in DOMAIN t /\ \A d \in 0..M : k - 1 + d <= M => q \notin G[d]
    BY <1>0, <2>3, <2>4
  <2>6. q \notin Roots(t)
    <3>1. 0 \in 0..M /\ k - 1 + 0 <= M BY <1>0, <2>3
    <3> QED BY <2>5, <3>1, <1>1
  <2>7. t[q] \in DOMAIN t /\ t[q] # q BY <2>5, <2>6 DEF Roots
  <2>8. ASSUME NEW d \in 0..M, k + d <= M PROVE t[q] \notin G[d]
    <3>1. d + 1 \in 1..M /\ d + 1 \in 0..M /\ k - 1 + (d + 1) <= M /\ (d + 1) - 1 = d
      BY <1>0, <2>3, <2>8
    <3>2. q \notin G[d + 1] BY <2>5, <3>1
    <3>3. G[d + 1] = Children(t, G[d]) BY <1>1, <3>1
    <3> QED BY <3>2, <3>3, <2>5, <2>7 DEF Children
  <2>9. Chain(b, k)
    <3>0. k \in Nat /\ k >= 1 BY <2>3, <1>0
    <3>1. b \in [0..k -> DOMAIN t] /\ b[0] = p BY <3>0, <2>4, <2>7
    <3>2. ASSUME NEW i \in 1..k PROVE b[i] = t[b[i - 1]] /\ b[i] # b[i - 1]
      <4>1. CASE i = k BY <4>1, <3>0, <2>7
      <4>2. CASE i # k
        <5>1. i \in 1..(k - 1) BY <4>2, <3>0
        <5>2. b[i] = c[i] /\ b[i - 1] = c[i - 1] BY <4>2, <3>0
        <5> QED BY <5>1, <5>2, <2>4
      <4> QED BY <4>1, <4>2
    <3>3. ASSUME NEW i \in 0..k, NEW d \in 0..M, i + d <= M PROVE b[i] \notin G[d]
      <4>1. CASE i = k BY <4>1, <3>3, <2>8
      <4>2. CASE i # k
        <5>1. i \in 0..(k - 1) /\ b[i] = c[i] BY <4>2, <3>0
        <5> QED BY <5>1, <3>3, <2>4
      <4> QED BY <4>1, <4>2
    <3> HIDE DEF b
    <3> QED BY <3>1, <3>2, <3>3
  <2> QED BY <2>9
<1>4. PICK c : Chain(c, M + 1)
  <2> HIDE DEF Chain
  <2>1. M + 1 \in 0..(M + 1) BY <1>0
  <2> QED BY <2>1, <1>3
<1>5. M + 1 = MaxDepth + 2 BY EvidenceBounds
<1> QED BY <1>4, <1>5 DEF Deep

-----------------------------------------------------------------------------
(* The inductive invariant.                                                *)

Incidents == {i \in [id : Ids, first : Nat \ {0}, trigger : Nat] :
                i.first <= i.trigger}

(* What a monitor is doing: it records, or writes one bundle that it has   *)
(* yet to claim or that is one of its open incidents.                      *)
Doing(jobs, incidents, events) ==
  /\ jobs = {} \/ \E j \in Jobs : jobs = {j}
  /\ \A j \in jobs :
       IF j.claimed THEN \E i \in incidents : i.id = j.id
       ELSE Len(events) > 0 /\ j.at = 1 /\ ~j.final
MonitorsOK ==
  /\ limit \in Limits /\ edits \in 0..MaxEdits
  /\ log \in [Monitors -> Seq(Events)]
  /\ job \in [Monitors -> SUBSET Jobs] /\ open \in [Monitors -> SUBSET Incidents]
  /\ \A m \in Monitors : Doing(job[m], open[m], log[m])

(* What a line of the timeline may be: part of one, or the record of an    *)
(* event whose links were not edited but to break them.                    *)
OwnRecord(events, l) ==
  /\ {"prev", "hash"} \subseteq DOMAIN l
  /\ \E j \in 1..Len(events) :
       /\ l.prev = SubSeq(events, 1, j - 1)
       /\ l.hash = <<>> \/ l.hash = SubSeq(events, 1, j)

(* A timeline on disk: one that was not edited is what was written out.    *)
WrittenLine(events, k) ==
  [seq |-> k, prev |-> SubSeq(events, 1, k - 1), hash |-> SubSeq(events, 1, k),
   event |-> events[k]]
OwnLines(events, lines) ==
  /\ lines \in Seq(Range(lines))
  /\ \A l \in Range(lines) : l = Torn \/ OwnRecord(events, l)
AsWritten(events, s, lines) ==
  /\ Len(lines) = s.lines + (IF s.half THEN 1 ELSE 0)
  /\ s.half => lines[s.lines + 1] = Torn
  /\ \A k \in 1..s.lines : lines[k] = WrittenLine(events, k)
TimelineOK ==
  /\ sent \in [Monitors -> [lines : Nat, half : BOOLEAN]]
  /\ DOMAIN timeline = Monitors
  /\ \A m \in Monitors :
       /\ sent[m].lines + (IF sent[m].half THEN 1 ELSE 0) <= Len(log[m])
       /\ OwnLines(log[m], timeline[m])
       /\ <<m, "timeline.jsonl">> \notin edited =>
            AsWritten(log[m], sent[m], timeline[m])

(* Checksums are those of the files of one write().                        *)
Sealed(logs, s) ==
  LET inc == s["incident.json"]
  IN /\ inc.by \in Monitors /\ inc.recorded \in 0..Len(logs[inc.by])
     /\ inc.incident.first \in Nat \ {0}
     /\ s = Contents(inc.by, inc.incident,
                     SubSeq(logs[inc.by], 1, inc.recorded), inc.final)

(* The directories.                                                        *)
DirsOK ==
  /\ DOMAIN dirs = Ids
  /\ \A id \in Ids :
       /\ dirs[id] = {} \/ \E d : dirs[id] = {d}
       /\ \A d \in dirs[id] :
            /\ DOMAIN d = Names \cup {"checksums.txt"}
            /\ d["checksums.txt"] # Absent => Sealed(log, d["checksums.txt"])

(* Every open incident has a directory of its own.                         *)
OpenOK ==
  \A m \in Monitors : \A i \in open[m] :
    /\ dirs[i.id] # {}
    /\ \A k \in open[m] : k.id = i.id => k = i
    /\ \A n \in Monitors \ {m} : \A k \in open[n] : k.id # i.id

(* One monitor owns each.                                                  *)
Owns(m, id) ==
  /\ \A n \in Monitors \ {m} : \A i \in open[n] : i.id # id
  /\ \A d \in dirs[id] :
       /\ d["policy.yaml"] \in {Absent, Edited, <<m>>}
       /\ d["incident.json"] \in {Absent, Edited} \/ d["incident.json"].by = m
OwnersOK == \A id \in Ids : dirs[id] # {} => \E m \in Monitors : Owns(m, id)

(* The files of a bundle that is being written, as far as they are, and of *)
(* one that is not.                                                        *)
BeingWritten ==
  \A m \in Monitors : \A j \in job[m], i \in open[m] :
    j.claimed /\ i.id = j.id =>
      \A d \in dirs[j.id], k \in 1..(j.at - 1) :
        d[FILES[k]] = Contents(m, i, log[m], j.final)[FILES[k]]
Settled ==
  \A id \in Ids : ~Writing(id) => \A d \in dirs[id], f \in Names :
    d["checksums.txt"] # Absent /\ <<id, f>> \notin edited =>
      d[f] = d["checksums.txt"][f]

(* A verification under way, of a directory ds, when logs are recorded.    *)
Reads(r, ds, logs) ==
  /\ DOMAIN r = {"id", "sums", "got", "at", "calm"}
  /\ r.id \in Ids /\ ds # {} /\ r.at \in 1..(Len(FILES) + 1)
  /\ Sealed(logs, r.sums)
  /\ DOMAIN r.got = {FILES[k] : k \in 1..(r.at - 1)}
  /\ r.at > 1 => r.got = [f \in DOMAIN r.got |-> r.got[f]]
  /\ r.calm =>
       /\ \A d \in ds, f \in Names : d[f] = r.sums[f]
       /\ \A f \in DOMAIN r.got : r.got[f] = r.sums[f]

ReaderOK == \A r \in reader : Reads(r, dirs[r.id], log)

Inv == /\ MonitorsOK /\ TimelineOK /\ DirsOK /\ OpenOK /\ OwnersOK
       /\ BeingWritten /\ Settled /\ ReaderOK

-----------------------------------------------------------------------------
(* What the operators make.                                                *)

LEMMA FilesFacts ==
  /\ Len(FILES) \in Nat
  /\ \A k \in 1..Len(FILES) : FILES[k] \in Names
  /\ Names = {FILES[k] : k \in 1..Len(FILES)}
  /\ "checksums.txt" \notin Names
  /\ {"incident.json", "timeline.jsonl", "process_tree.json", "policy.yaml"} \subseteq Names
<1>1. DOMAIN FILES = 1..Len(FILES) /\ Len(FILES) \in Nat BY EvidenceFiles
<1> QED BY <1>1, EvidenceFiles DEF Names, Range

LEMMA ContentsFunction ==
  ASSUME NEW m, NEW i, NEW events, NEW final
  PROVE  /\ Contents(m, i, events, final) =
              [f \in Names |-> Contents(m, i, events, final)[f]]
         /\ DOMAIN Contents(m, i, events, final) = Names
<1> DEFINE c == Contents(m, i, events, final)
           context == SubSeq(events, i.first, Len(events))
           Net(e)  == e.net
           Else(e) == ~e.net
           E(f) == CASE f = "incident.json" ->
                          [by |-> m, incident |-> i, recorded |-> Len(events),
                           final |-> final]
                     [] f = "timeline.jsonl" -> context
                     [] f = "process_tree.json" -> ProcessTree(Table(events))
                     [] f = "network_events.json" -> SelectSeq(context, Net)
                     [] f = "filesystem_events.json" -> SelectSeq(context, Else)
                     [] f = "policy.yaml" -> <<m>>
                     [] f = "system_metadata.json" -> <<m, Len(events)>>
<1>1. c = [f \in Names |-> E(f)] BY Zenon DEF Contents
<1> HIDE DEF E, c
<1>2. c = [f \in Names |-> c[f]] /\ DOMAIN c = Names BY <1>1
<1> QED BY <1>2, Zenon DEF c

LEMMA ContentsFields ==
  ASSUME NEW m, NEW i, NEW events, NEW final
  PROVE  /\ Contents(m, i, events, final)["incident.json"] =
              [by |-> m, incident |-> i, recorded |-> Len(events), final |-> final]
         /\ Contents(m, i, events, final)["policy.yaml"] = <<m>>
<1> QED BY FilesFacts DEF Contents

LEMMA ContentsTimeline ==
  ASSUME NEW m, NEW i, NEW events, NEW final
  PROVE  Contents(m, i, events, final)["timeline.jsonl"] =
           SubSeq(events, i.first, Len(events))
BY FilesFacts DEF Contents

LEMMA ContentsTree ==
  ASSUME NEW m, NEW i, NEW events, NEW final
  PROVE  Contents(m, i, events, final)["process_tree.json"] = ProcessTree(Table(events))
BY FilesFacts DEF Contents

(* A write() of what is recorded is sealed, and stays so.                  *)
LEMMA SealedNew ==
  ASSUME NEW logs \in [Monitors -> Seq(Events)], NEW m \in Monitors, NEW i,
         i.first \in Nat \ {0}, NEW final
  PROVE  Sealed(logs, Contents(m, i, logs[m], final))
<1> DEFINE c == Contents(m, i, logs[m], final)
           inc == c["incident.json"]
<1>1. inc = [by |-> m, incident |-> i, recorded |-> Len(logs[m]), final |-> final]
  BY ContentsFields
<1>2. logs[m] \in Seq(Events) OBVIOUS
<1>3. SubSeq(logs[m], 1, Len(logs[m])) = logs[m] BY <1>2, SubSeqFull
<1>4. Len(logs[m]) \in 0..Len(logs[m]) BY <1>2
<1>5. /\ inc.by = m /\ inc.incident = i /\ inc.recorded = Len(logs[m])
      /\ inc.final = final
  BY <1>1
<1>6. Contents(inc.by, inc.incident, SubSeq(logs[inc.by], 1, inc.recorded), inc.final) = c
  BY <1>3, <1>5
<1> HIDE DEF c
<1>7. Sealed(logs, c) BY <1>4, <1>5, <1>6 DEF Sealed
<1> QED BY <1>7 DEF c

LEMMA SealedGrows ==
  ASSUME NEW logs \in [Monitors -> Seq(Events)], NEW m \in Monitors, NEW e \in Events,
         NEW s, Sealed(logs, s)
  PROVE  Sealed([logs EXCEPT ![m] = Append(@, e)], s)
<1> DEFINE inc == s["incident.json"]
           more == [logs EXCEPT ![m] = Append(@, e)]
<1>1. /\ inc.by \in Monitors /\ inc.recorded \in 0..Len(logs[inc.by])
      /\ inc.incident.first \in Nat \ {0}
      /\ s = Contents(inc.by, inc.incident,
                      SubSeq(logs[inc.by], 1, inc.recorded), inc.final)
  BY DEF Sealed
<1>2. /\ inc.recorded \in 0..Len(more[inc.by])
      /\ SubSeq(more[inc.by], 1, inc.recorded) = SubSeq(logs[inc.by], 1, inc.recorded)
  <2>1. CASE inc.by = m
    <3>1. more[inc.by] = Append(logs[m], e) /\ logs[m] \in Seq(Events)
      BY <2>1
    <3>2. Len(more[inc.by]) = Len(logs[m]) + 1 BY <3>1
    <3> QED BY <1>1, <2>1, <3>1, <3>2, BeginningGrows
  <2>2. CASE inc.by # m BY <1>1, <2>2
  <2> QED BY <2>1, <2>2
<1> QED BY <1>1, <1>2 DEF Sealed

-----------------------------------------------------------------------------
(* The monitors.                                                           *)

LEMMA JobChanges ==
  ASSUME NEW j \in Jobs
  PROVE  /\ j.id \in Ids => [j EXCEPT !.id = @ + 1] \in Jobs
         /\ [j EXCEPT !.claimed = TRUE] \in Jobs
         /\ j.at <= Len(FILES) => [j EXCEPT !.at = @ + 1] \in Jobs
<1> USE DEF Jobs
<1>1. Len(FILES) \in Nat /\ MaxId \in Nat BY EvidenceBounds, FilesFacts
<1>2. ASSUME j.id \in Ids PROVE [j EXCEPT !.id = @ + 1] \in Jobs
  <2>1. j.id + 1 \in 1..(MaxId + 1) BY <1>1, <1>2 DEF Ids
  <2> QED BY <2>1
<1>3. [j EXCEPT !.claimed = TRUE] \in Jobs OBVIOUS
<1>4. ASSUME j.at <= Len(FILES) PROVE [j EXCEPT !.at = @ + 1] \in Jobs
  <2>1. j.at + 1 \in 1..(Len(FILES) + 1) BY <1>1, <1>4
  <2> QED BY <2>1
<1> HIDE DEF Jobs
<1> QED BY <1>2, <1>3, <1>4

(* One monitor's step.                                                     *)
LEMMA MonitorMoves ==
  ASSUME MonitorsOK, NEW m \in Monitors, limit' \in Limits, edits' \in 0..MaxEdits,
         NEW jobs \in SUBSET Jobs, NEW incidents \in SUBSET Incidents,
         NEW events \in Seq(Events), Doing(jobs, incidents, events),
         job' = [job EXCEPT ![m] = jobs], open' = [open EXCEPT ![m] = incidents],
         log' = [log EXCEPT ![m] = events]
  PROVE  MonitorsOK'
<1> USE DEF MonitorsOK
<1>1. /\ log' \in [Monitors -> Seq(Events)] /\ job' \in [Monitors -> SUBSET Jobs]
      /\ open' \in [Monitors -> SUBSET Incidents]
  OBVIOUS
<1>2. job'[m] = jobs /\ open'[m] = incidents /\ log'[m] = events OBVIOUS
<1>3. \A n \in Monitors \ {m} : job'[n] = job[n] /\ open'[n] = open[n] /\ log'[n] = log[n]
  OBVIOUS
<1>4. \A n \in Monitors : Doing(job'[n], open'[n], log'[n])
  <2> TAKE n \in Monitors
  <2>1. CASE n = m BY <2>1, <1>2
  <2>2. CASE n # m BY <2>2, <1>3
  <2> QED BY <2>1, <2>2
<1> QED BY <1>1, <1>4

LEMMA MonitorsStep ==
  ASSUME MonitorsOK, [Next]_vars
  PROVE  MonitorsOK'
<1>0. /\ limit \in Limits /\ edits \in 0..MaxEdits
      /\ log \in [Monitors -> Seq(Events)]
      /\ job \in [Monitors -> SUBSET Jobs] /\ open \in [Monitors -> SUBSET Incidents]
      /\ \A m \in Monitors : Doing(job[m], open[m], log[m])
  BY DEF MonitorsOK
<1>1. ASSUME NEW m \in Monitors, NEW e \in Events, Record(m, e) PROVE MonitorsOK'
  <2> DEFINE j == [id |-> 1, claimed |-> FALSE, at |-> 1, final |-> FALSE]
             jobs == IF e.breach THEN {j} ELSE {}
             events == Append(log[m], e)
  <2>1. j \in Jobs BY EvidenceBounds, FilesFacts DEF Jobs
  <2>2. events \in Seq(Events) /\ Len(events) > 0 BY <1>0
  <2>3. jobs \in SUBSET Jobs /\ Doing(jobs, open[m], events)
    <3>1. ~j.claimed /\ j.at = 1 /\ ~j.final OBVIOUS
    <3> HIDE DEF j, events
    <3> QED BY <2>1, <2>2, <3>1 DEF Doing
  <2>4. /\ job' = [job EXCEPT ![m] = jobs] /\ log' = [log EXCEPT ![m] = events]
        /\ open' = [open EXCEPT ![m] = open[m]] /\ limit' = limit /\ edits' = edits
    BY <1>0, <1>1 DEF Record
  <2> HIDE DEF j, jobs, events
  <2> QED BY <1>0, <2>2, <2>3, <2>4, MonitorMoves
<1>2. ASSUME NEW m \in Monitors, Claim(m) PROVE MonitorsOK'
  <2>1. PICK j \in job[m] :
          /\ ~j.claimed /\ Flushed(m) /\ j.id \in Ids
          /\ IF dirs[j.id] # {}
             THEN /\ job' = [job EXCEPT ![m] = {[j EXCEPT !.id = @ + 1]}]
                  /\ UNCHANGED <<open, dirs>>
             ELSE /\ job' = [job EXCEPT ![m] = {[j EXCEPT !.claimed = TRUE]}]
                  /\ open' = [open EXCEPT ![m] = @ \cup {NewIncident(m, j.id)}]
                  /\ dirs' = [dirs EXCEPT ![j.id] = {NoFiles}]
    BY <1>2 DEF Claim
  <2>2. j \in Jobs /\ Len(log[m]) > 0 /\ j.at = 1 /\ ~j.final BY <1>0, <2>1 DEF Doing
  <2>3. limit' = limit /\ edits' = edits /\ log' = [log EXCEPT ![m] = log[m]]
    BY <1>0, <1>2 DEF Claim
  <2>4. CASE dirs[j.id] # {}
    <3> DEFINE k == [j EXCEPT !.id = @ + 1]
    <3>1. k \in Jobs BY <2>1, <2>2, JobChanges
    <3>2. ~k.claimed /\ k.at = 1 /\ ~k.final BY <2>1, <2>2 DEF Jobs
    <3>3. job' = [job EXCEPT ![m] = {k}] /\ open' = [open EXCEPT ![m] = open[m]]
      BY <1>0, <2>1, <2>4
    <3> HIDE DEF k
    <3>4. Doing({k}, open[m], log[m]) BY <2>2, <3>1, <3>2 DEF Doing
    <3> QED BY <1>0, <2>3, <3>1, <3>3, <3>4, MonitorMoves
  <2>5. CASE dirs[j.id] = {}
    <3> DEFINE k == [j EXCEPT !.claimed = TRUE]
               i == NewIncident(m, j.id)
    <3>1. k \in Jobs BY <2>2, JobChanges
    <3>2. k.claimed /\ k.id = j.id BY <2>2 DEF Jobs
    <3>3. i \in Incidents /\ i.id = j.id
      <4>1. Len(log[m]) \in Nat BY <1>0
      <4> QED BY <4>1, <2>1, <2>2, EvidenceBounds DEF NewIncident, Incidents
    <3>4. job' = [job EXCEPT ![m] = {k}] /\ open' = [open EXCEPT ![m] = open[m] \cup {i}]
      BY <2>1, <2>5
    <3> HIDE DEF k, i
    <3>5. Doing({k}, open[m] \cup {i}, log[m]) BY <3>1, <3>2, <3>3 DEF Doing
    <3> QED BY <1>0, <2>3, <3>1, <3>3, <3>4, <3>5, MonitorMoves
  <2> QED BY <2>4, <2>5
<1>3. ASSUME NEW m \in Monitors, NEW i \in open[m], Finalise(m, i) PROVE MonitorsOK'
  <2> DEFINE k == [id |-> i.id, claimed |-> TRUE, at |-> 1, final |-> TRUE]
  <2>1. k \in Jobs /\ k.claimed /\ k.id = i.id
    <3>1. i.id \in Ids BY <1>0 DEF Incidents
    <3> QED BY <3>1, EvidenceBounds, FilesFacts DEF Jobs, Ids
  <2>2. /\ job' = [job EXCEPT ![m] = {k}] /\ log' = [log EXCEPT ![m] = log[m]]
        /\ open' = [open EXCEPT ![m] = open[m]] /\ limit' = limit /\ edits' = edits
    BY <1>0, <1>3 DEF Finalise
  <2> HIDE DEF k
  <2>3. Doing({k}, open[m], log[m]) BY <2>1 DEF Doing
  <2> QED BY <1>0, <2>1, <2>2, <2>3, MonitorMoves
<1>4. ASSUME NEW m \in Monitors, WriteFile(m) PROVE MonitorsOK'
  <2>1. PICK j \in job[m], i \in open[m] :
          /\ j.claimed /\ i.id = j.id /\ j.at <= Len(FILES)
          /\ job' = [job EXCEPT ![m] = {[j EXCEPT !.at = @ + 1]}]
    BY <1>4 DEF WriteFile
  <2> DEFINE k == [j EXCEPT !.at = @ + 1]
  <2>2. j \in Jobs BY <1>0
  <2>3. k \in Jobs BY <2>1, <2>2, JobChanges
  <2>4. k.claimed /\ k.id = i.id BY <2>1, <2>2 DEF Jobs
  <2>5. /\ job' = [job EXCEPT ![m] = {k}] /\ log' = [log EXCEPT ![m] = log[m]]
        /\ open' = [open EXCEPT ![m] = open[m]] /\ limit' = limit /\ edits' = edits
    BY <1>0, <1>4, <2>1 DEF WriteFile
  <2> HIDE DEF k
  <2>6. Doing({k}, open[m], log[m]) BY <2>3, <2>4 DEF Doing
  <2> QED BY <1>0, <2>3, <2>5, <2>6, MonitorMoves
<1>5. ASSUME NEW m \in Monitors, WriteChecksums(m) PROVE MonitorsOK'
  <2>1. PICK j \in job[m], i \in open[m] :
          open' = IF j.final THEN [open EXCEPT ![m] = @ \ {i}] ELSE open
    BY <1>5 DEF WriteChecksums
  <2> DEFINE incidents == IF j.final THEN open[m] \ {i} ELSE open[m]
  <2>2. /\ job' = [job EXCEPT ![m] = {}] /\ log' = [log EXCEPT ![m] = log[m]]
        /\ limit' = limit /\ edits' = edits
    BY <1>0, <1>5 DEF WriteChecksums
  <2>3. open' = [open EXCEPT ![m] = incidents] BY <1>0, <2>1
  <2>4. incidents \in SUBSET Incidents BY <1>0
  <2> HIDE DEF incidents
  <2>5. Doing({}, incidents, log[m]) BY DEF Doing
  <2> QED BY <1>0, <2>2, <2>3, <2>4, <2>5, MonitorMoves
<1>6. ASSUME UNCHANGED <<log, job, open, limit>>, edits' \in 0..MaxEdits PROVE MonitorsOK'
  BY <1>6 DEF MonitorsOK
<1>7. ASSUME NEW id \in Ids, NEW f \in Names, EditFile(id, f) PROVE MonitorsOK'
  <2>1. edits' \in 0..MaxEdits BY <1>0, <1>7, EvidenceBounds DEF EditFile
  <2> QED BY <2>1, <1>6, <1>7 DEF EditFile, monitorVars
<1>8. ASSUME NEW m \in Monitors, EditTimeline(m) PROVE MonitorsOK'
  <2>1. edits' \in 0..MaxEdits BY <1>0, <1>8, EvidenceBounds DEF EditTimeline
  <2> QED BY <2>1, <1>6, <1>8 DEF EditTimeline
<1>9. ASSUME NEW m \in Monitors, WriteOut(m) PROVE MonitorsOK'
  BY <1>0, <1>6, <1>9 DEF WriteOut
<1>10. ASSUME NEW id \in Ids, Begin(id) PROVE MonitorsOK'
  BY <1>0, <1>6, <1>10 DEF Begin, monitorVars
<1>11. ASSUME ReadFile PROVE MonitorsOK' BY <1>0, <1>6, <1>11 DEF ReadFile, monitorVars
<1>12. CASE UNCHANGED vars BY <1>0, <1>6, <1>12 DEF vars
<1> QED BY <1>1, <1>2, <1>3, <1>4, <1>5, <1>7, <1>8, <1>9, <1>10, <1>11, <1>12 DEF Next

-----------------------------------------------------------------------------
(* The timelines.                                                          *)

LEMMA LinesFrom ==
  ASSUME NEW events, NEW S, NEW lines \in Seq(S),
         \A l \in S : l = Torn \/ OwnRecord(events, l)
  PROVE  OwnLines(events, lines)
<1>1. DOMAIN lines = 1..Len(lines) /\ \A k \in 1..Len(lines) : lines[k] \in S OBVIOUS
<1>2. Range(lines) \subseteq S BY <1>1 DEF Range
<1>3. lines \in Seq(Range(lines))
  <2>1. Len(lines) \in Nat /\ \A k \in 1..Len(lines) : lines[k] \in Range(lines)
    BY <1>1 DEF Range
  <2>2. lines = [k \in 1..Len(lines) |-> lines[k]] BY <1>1
  <2>3. [k \in 1..Len(lines) |-> lines[k]] \in Seq(Range(lines))
    BY <2>1, IsASeq
  <2> QED BY <2>2, <2>3
<1> QED BY <1>2, <1>3 DEF OwnLines

(* An own record stays one when more is recorded.                          *)
LEMMA OwnRecordGrows ==
  ASSUME NEW events \in Seq(Events), NEW e \in Events, NEW l, OwnRecord(events, l)
  PROVE  OwnRecord(Append(events, e), l)
<1>1. PICK j \in 1..Len(events) :
        /\ l.prev = SubSeq(events, 1, j - 1)
        /\ l.hash = <<>> \/ l.hash = SubSeq(events, 1, j)
  BY DEF OwnRecord
<1>2. Len(events) \in Nat /\ Len(Append(events, e)) = Len(events) + 1 OBVIOUS
<1>3. j \in 1..Len(Append(events, e)) /\ j \in 0..Len(events) /\ j - 1 \in 0..Len(events)
  BY <1>2
<1>4. /\ SubSeq(Append(events, e), 1, j) = SubSeq(events, 1, j)
      /\ SubSeq(Append(events, e), 1, j - 1) = SubSeq(events, 1, j - 1)
  BY <1>3, BeginningGrows
<1> QED BY <1>1, <1>3, <1>4 DEF OwnRecord

LEMMA WrittenLineGrows ==
  ASSUME NEW events \in Seq(Events), NEW e \in Events, NEW k \in 1..Len(events)
  PROVE  WrittenLine(Append(events, e), k) = WrittenLine(events, k)
<1>1. Len(events) \in Nat OBVIOUS
<1>2. k \in 0..Len(events) /\ k - 1 \in 0..Len(events) BY <1>1
<1>3. /\ SubSeq(Append(events, e), 1, k) = SubSeq(events, 1, k)
      /\ SubSeq(Append(events, e), 1, k - 1) = SubSeq(events, 1, k - 1)
  BY <1>2, BeginningGrows
<1>4. Append(events, e)[k] = events[k] BY <1>1
<1> QED BY <1>3, <1>4 DEF WrittenLine

LEMMA LineWritten ==
  ASSUME NEW m \in Monitors, log[m] \in Seq(Events), NEW k \in 1..Len(log[m])
  PROVE  Line(m, k) = WrittenLine(log[m], k) /\ OwnRecord(log[m], Line(m, k))
<1>1. Append(SubSeq(log[m], 1, k - 1), log[m][k]) = SubSeq(log[m], 1, k)
  BY NextBeginning
<1>2. Line(m, k) = WrittenLine(log[m], k) BY <1>1, Zenon DEF Line, WrittenLine, ChainHash
<1>3. OwnRecord(log[m], WrittenLine(log[m], k)) BY DEF OwnRecord, WrittenLine
<1> QED BY <1>2, <1>3

(* Whatever an edit makes of a timeline has own lines only.                *)
LEMMA EditedLines ==
  ASSUME NEW events, NEW lines, OwnLines(events, lines), NEW new \in EditsOf(lines)
  PROVE  OwnLines(events, new)
<1> DEFINE R == Range(lines)
           own(l) == l = Torn \/ OwnRecord(events, l)
<1>1. lines \in Seq(R) /\ \A l \in R : own(l) BY DEF OwnLines
<1>2. Len(lines) \in Nat /\ \A k \in 1..Len(lines) : lines[k] \in R BY <1>1
<1> HIDE DEF R
<1>3. ASSUME NEW k \in 1..Len(lines), new = RemoveAt(lines, k) PROVE new \in Seq(R)
  <2>1. SubSeq(lines, 1, k - 1) \in Seq(R) BY <1>1, <1>2, Beginning
  <2>2. \A i \in (k + 1)..Len(lines) : lines[i] \in R BY <1>2
  <2>3. SubSeq(lines, k + 1, Len(lines)) \in Seq(R)
    BY <2>2, SubSeqProperties, <1>2, k + 1 \in Int, Len(lines) \in Int
  <2> QED BY <1>3, <2>1, <2>3 DEF RemoveAt
<1>4. ASSUME NEW k \in 1..Len(lines), new = InsertAt(lines, k, lines[k]) PROVE new \in Seq(R)
  <2>1. SubSeq(lines, 1, k - 1) \in Seq(R) BY <1>1, <1>2, Beginning
  <2>2. \A i \in k..Len(lines) : lines[i] \in R BY <1>2
  <2>3. SubSeq(lines, k, Len(lines)) \in Seq(R)
    BY <2>2, SubSeqProperties, <1>2, k \in Int, Len(lines) \in Int
  <2>4. <<lines[k]>> \in Seq(R) BY <1>2
  <2> QED BY <1>4, <2>1, <2>3, <2>4 DEF InsertAt
<1>5. ASSUME NEW k \in (1..Len(lines)) \ {Len(lines)},
             new = [lines EXCEPT ![k] = lines[k + 1], ![k + 1] = lines[k]]
      PROVE  new \in Seq(R)
  <2>1. lines[k] \in R /\ lines[k + 1] \in R BY <1>2
  <2> QED BY <1>1, <1>5, <2>1
<1>6. ASSUME new \in Seq(R) PROVE OwnLines(events, new) BY <1>1, <1>6, LinesFrom
<1>7. ASSUME NEW k \in 1..Len(lines), NEW l, own(l), new = [lines EXCEPT ![k] = l]
      PROVE  OwnLines(events, new)
  <2>1. lines \in Seq(R \cup {l}) BY <1>1
  <2>2. new \in Seq(R \cup {l}) BY <2>1, <1>7
  <2>3. \A x \in R \cup {l} : own(x) BY <1>1, <1>7
  <2> QED BY <2>2, <2>3, LinesFrom
<1>8. ASSUME NEW k \in 1..Len(lines), lines[k] # Torn
      PROVE  OwnRecord(events, lines[k])
  BY <1>1, <1>2, <1>8
<1>9. ASSUME NEW k \in 1..Len(lines), lines[k] # Torn,
             new = [lines EXCEPT ![k].seq = @ + 1]
      PROVE  OwnLines(events, new)
  <2> DEFINE l == [lines[k] EXCEPT !.seq = @ + 1]
  <2>1. new = [lines EXCEPT ![k] = l] BY <1>1, <1>9
  <2>2. OwnRecord(events, l) BY <1>8, <1>9 DEF OwnRecord
  <2> HIDE DEF l
  <2> QED BY <2>1, <2>2, <1>7
<1>10. ASSUME NEW k \in 1..Len(lines), lines[k] # Torn,
              new = [lines EXCEPT ![k].hash = <<>>]
       PROVE  OwnLines(events, new)
  <2> DEFINE l == [lines[k] EXCEPT !.hash = <<>>]
  <2>1. new = [lines EXCEPT ![k] = l] BY <1>1, <1>10
  <2>2. OwnRecord(events, l) BY <1>8, <1>10 DEF OwnRecord
  <2> HIDE DEF l
  <2> QED BY <2>1, <2>2, <1>7
<1>11. ASSUME NEW k \in 1..Len(lines), lines[k] # Torn,
              new = [lines EXCEPT ![k].event.net = ~@]
       PROVE  OwnLines(events, new)
  <2> DEFINE l == [lines[k] EXCEPT !.event.net = ~@]
  <2>1. new = [lines EXCEPT ![k] = l] BY <1>1, <1>11
  <2>2. OwnRecord(events, l) BY <1>8, <1>11 DEF OwnRecord
  <2> HIDE DEF l
  <2> QED BY <2>1, <2>2, <1>7
<1> QED BY <1>3, <1>4, <1>5, <1>6, <1>9, <1>10, <1>11 DEF EditsOf

(* The piece that WriteOut adds.                                           *)
LEMMA PieceWritten ==
  ASSUME NEW m \in Monitors, log[m] \in Seq(Events),
         NEW s \in [lines : Nat, half : BOOLEAN], s.lines < Len(log[m]),
         NEW lines, OwnLines(log[m], lines), NEW unedited \in BOOLEAN,
         unedited => AsWritten(log[m], s, lines)
  PROVE  LET torn == s.half /\ lines # <<>> /\ Last(lines) = Torn
             new == IF torn THEN Append(Front(lines), Line(m, s.lines + 1))
                    ELSE Append(lines, Torn)
             next == IF s.half THEN [lines |-> s.lines + 1, half |-> FALSE]
                     ELSE [s EXCEPT !.half = TRUE]
         IN /\ OwnLines(log[m], new) /\ next \in [lines : Nat, half : BOOLEAN]
            /\ next.lines + (IF next.half THEN 1 ELSE 0) <= Len(log[m])
            /\ unedited => AsWritten(log[m], next, new)
<1> DEFINE R == Range(lines)
           line == Line(m, s.lines + 1)
           torn == s.half /\ lines # <<>> /\ Last(lines) = Torn
           new == IF torn THEN Append(Front(lines), line) ELSE Append(lines, Torn)
           next == IF s.half THEN [lines |-> s.lines + 1, half |-> FALSE]
                   ELSE [s EXCEPT !.half = TRUE]
<1>1. Len(log[m]) \in Nat /\ s.lines + 1 \in 1..Len(log[m]) OBVIOUS
<1>2. line = WrittenLine(log[m], s.lines + 1) /\ OwnRecord(log[m], line)
  BY <1>1, LineWritten
<1>3. lines \in Seq(R) /\ \A l \in R : l = Torn \/ OwnRecord(log[m], l) BY DEF OwnLines
<1> HIDE DEF R, line
<1>4. Len(lines) \in Nat BY <1>3
<1>5. /\ next \in [lines : Nat, half : BOOLEAN]
      /\ next.lines + (IF next.half THEN 1 ELSE 0) <= Len(log[m])
  <2>1. CASE s.half
    <3>1. next = [lines |-> s.lines + 1, half |-> FALSE] BY <2>1
    <3> QED BY <1>1, <3>1
  <2>2. CASE ~s.half
    <3>1. next = [s EXCEPT !.half = TRUE] BY <2>2
    <3>2. next.lines = s.lines /\ next.half = TRUE BY <3>1
    <3>3. next \in [lines : Nat, half : BOOLEAN] BY <3>1
    <3> HIDE DEF next
    <3> QED BY <1>1, <3>2, <3>3
  <2> QED BY <2>1, <2>2
<1>6. CASE torn
  <2>1. Len(lines) > 0 BY <1>3, <1>6
  <2>2. Len(lines) - 1 \in 0..Len(lines) BY <1>4, <2>1
  <2>3. /\ Front(lines) \in Seq(R) /\ Len(Front(lines)) = Len(lines) - 1
        /\ \A i \in 1..(Len(lines) - 1) : Front(lines)[i] = lines[i]
    BY <1>3, <2>2, Beginning DEF Front
  <2>4. new = Append(Front(lines), line) BY <1>6
  <2>5. Front(lines) \in Seq(R \cup {line}) BY <2>3
  <2>6. /\ new \in Seq(R \cup {line}) /\ Len(new) = Len(lines)
        /\ \A i \in 1..(Len(lines) - 1) : new[i] = lines[i]
        /\ new[Len(lines)] = line
    BY <2>3, <2>4, <2>5, <1>4, <2>1
  <2> HIDE DEF new
  <2>7. OwnLines(log[m], new)
    <3>1. \A l \in R \cup {line} : l = Torn \/ OwnRecord(log[m], l) BY <1>2, <1>3
    <3> QED BY <2>6, <3>1, LinesFrom
  <2>8. ASSUME unedited PROVE AsWritten(log[m], next, new)
    <3>1. next.lines = s.lines + 1 /\ ~next.half BY <1>6
    <3>2. Len(lines) = s.lines + 1 /\ \A k \in 1..s.lines : lines[k] = WrittenLine(log[m], k)
      BY <2>8, <1>6 DEF AsWritten
    <3> HIDE DEF next
    <3>3. ASSUME NEW k \in 1..(s.lines + 1) PROVE new[k] = WrittenLine(log[m], k)
      <4>1. CASE k = s.lines + 1 BY <4>1, <3>2, <2>6, <1>2
      <4>2. CASE k # s.lines + 1
        <5>1. k \in 1..s.lines /\ k \in 1..(Len(lines) - 1) BY <4>2, <3>2
        <5> QED BY <5>1, <3>2, <2>6
      <4> QED BY <4>1, <4>2
    <3> QED BY <3>1, <3>2, <3>3, <2>6 DEF AsWritten
  <2> HIDE DEF next
  <2> QED BY <1>5, <2>7, <2>8 DEF new, next, torn, line
<1>7. CASE ~torn
  <2>1. new = Append(lines, Torn) BY <1>7
  <2>2. lines \in Seq(R \cup {Torn}) BY <1>3
  <2>3. /\ new \in Seq(R \cup {Torn}) /\ Len(new) = Len(lines) + 1
        /\ \A i \in 1..Len(lines) : new[i] = lines[i]
        /\ new[Len(lines) + 1] = Torn
    <3>1. Torn \in R \cup {Torn} OBVIOUS
    <3> HIDE DEF new, torn
    <3> QED BY <2>1, <2>2, <3>1, AppendProperties
  <2> HIDE DEF new
  <2>4. OwnLines(log[m], new)
    <3>1. \A l \in R \cup {Torn} : l = Torn \/ OwnRecord(log[m], l) BY <1>3
    <3> QED BY <2>3, <3>1, LinesFrom
  <2>5. ASSUME unedited PROVE AsWritten(log[m], next, new)
    <3>1. /\ Len(lines) = s.lines + (IF s.half THEN 1 ELSE 0)
          /\ s.half => lines[s.lines + 1] = Torn
          /\ \A k \in 1..s.lines : lines[k] = WrittenLine(log[m], k)
      BY <2>5 DEF AsWritten
    <3>2. ~s.half
      <4> SUFFICES ASSUME s.half PROVE FALSE OBVIOUS
      <4>1. Len(lines) = s.lines + 1 /\ lines[Len(lines)] = Torn BY <3>1
      <4>2. lines # <<>> BY <4>1
      <4> QED BY <4>1, <4>2, <1>7 DEF Last
    <3>3. next.lines = s.lines /\ next.half BY <3>2
    <3> HIDE DEF next
    <3>4. Len(lines) = s.lines BY <3>1, <3>2
    <3> QED BY <3>1, <3>3, <3>4, <2>3 DEF AsWritten
  <2> HIDE DEF next
  <2> QED BY <1>5, <2>4, <2>5 DEF new, next, torn, line
<1> QED BY <1>6, <1>7

LEMMA TimelineStep ==
  ASSUME MonitorsOK, TimelineOK, [Next]_vars
  PROVE  TimelineOK'
<1> DEFINE Touched(m) == <<m, "timeline.jsonl">> \in edited
<1>0. /\ log \in [Monitors -> Seq(Events)]
      /\ job \in [Monitors -> SUBSET Jobs] /\ open \in [Monitors -> SUBSET Incidents]
  BY DEF MonitorsOK
<1>1. /\ sent \in [Monitors -> [lines : Nat, half : BOOLEAN]]
      /\ DOMAIN timeline = Monitors
      /\ \A m \in Monitors :
           /\ sent[m].lines + (IF sent[m].half THEN 1 ELSE 0) <= Len(log[m])
           /\ OwnLines(log[m], timeline[m])
           /\ ~Touched(m) => AsWritten(log[m], sent[m], timeline[m])
  BY DEF TimelineOK
<1>2. ASSUME NEW m \in Monitors, WriteOut(m) PROVE TimelineOK'
  <2> DEFINE s == sent[m]
             lines == timeline[m]
             torn == s.half /\ lines # <<>> /\ Last(lines) = Torn
             new == IF torn THEN Append(Front(lines), Line(m, s.lines + 1))
                    ELSE Append(lines, Torn)
             next == IF s.half THEN [lines |-> s.lines + 1, half |-> FALSE]
                     ELSE [s EXCEPT !.half = TRUE]
             unedited == ~Touched(m)
  <2>1. log[m] \in Seq(Events) /\ s \in [lines : Nat, half : BOOLEAN] BY <1>0, <1>1
  <2>2. s.lines < Len(log[m]) BY <1>2 DEF WriteOut
  <2>3. OwnLines(log[m], lines) /\ (unedited => AsWritten(log[m], s, lines)) BY <1>1
  <2>4. unedited \in BOOLEAN OBVIOUS
  <2>5. sent' = [sent EXCEPT ![m] = next] BY <1>2 DEF WriteOut
  <2>6. timeline' = [timeline EXCEPT ![m] = new] BY <1>2 DEF WriteOut
  <2>7. log' = log /\ edited' = edited BY <1>2 DEF WriteOut
  <2> HIDE DEF s, lines, unedited
  <2>8. /\ OwnLines(log[m], new) /\ next \in [lines : Nat, half : BOOLEAN]
        /\ next.lines + (IF next.half THEN 1 ELSE 0) <= Len(log[m])
        /\ unedited => AsWritten(log[m], next, new)
    BY <2>1, <2>2, <2>3, <2>4, PieceWritten
  <2> HIDE DEF new, next
  <2>9. /\ sent' \in [Monitors -> [lines : Nat, half : BOOLEAN]]
        /\ DOMAIN timeline' = Monitors /\ sent'[m] = next /\ timeline'[m] = new
        /\ \A n \in Monitors \ {m} : sent'[n] = sent[n] /\ timeline'[n] = timeline[n]
    BY <1>1, <2>5, <2>6, <2>8
  <2>10. ASSUME NEW n \in Monitors
         PROVE  /\ sent'[n].lines + (IF sent'[n].half THEN 1 ELSE 0) <= Len(log'[n])
                /\ OwnLines(log'[n], timeline'[n])
                /\ <<n, "timeline.jsonl">> \notin edited' =>
                     AsWritten(log'[n], sent'[n], timeline'[n])
    <3>1. CASE n = m BY <3>1, <2>7, <2>8, <2>9 DEF unedited
    <3>2. CASE n # m BY <3>2, <1>1, <2>7, <2>9
    <3> QED BY <3>1, <3>2
  <2> QED BY <2>9, <2>10 DEF TimelineOK
<1>3. ASSUME NEW m \in Monitors, NEW e \in Events, Record(m, e) PROVE TimelineOK'
  <2>1. sent' = sent /\ timeline' = timeline /\ edited' = edited BY <1>3 DEF Record
  <2>2. log'[m] = Append(log[m], e) /\ \A n \in Monitors \ {m} : log'[n] = log[n]
    BY <1>0, <1>3 DEF Record
  <2>3. log[m] \in Seq(Events) /\ Len(log[m]) \in Nat /\ Len(log'[m]) = Len(log[m]) + 1
    BY <1>0, <2>2
  <2>4. OwnLines(log'[m], timeline[m]) BY <1>1, <2>2, <2>3, OwnRecordGrows DEF OwnLines
  <2>8. sent[m].lines \in Nat /\ sent[m].lines <= Len(log[m])
    <3>1. sent[m] \in [lines : Nat, half : BOOLEAN] BY <1>1
    <3>2. sent[m].lines + (IF sent[m].half THEN 1 ELSE 0) <= Len(log[m]) BY <1>1
    <3>3. CASE sent[m].half BY <2>3, <3>1, <3>2, <3>3
    <3>4. CASE ~sent[m].half BY <2>3, <3>1, <3>2, <3>4
    <3> QED BY <3>3, <3>4
  <2>5. AsWritten(log[m], sent[m], timeline[m]) => AsWritten(log'[m], sent[m], timeline[m])
    <3> SUFFICES ASSUME AsWritten(log[m], sent[m], timeline[m]), NEW k \in 1..sent[m].lines
                 PROVE  timeline[m][k] = WrittenLine(log'[m], k)
      BY DEF AsWritten
    <3>1. k \in 1..Len(log[m]) BY <2>3, <2>8
    <3> QED BY <3>1, <2>2, <2>3, WrittenLineGrows DEF AsWritten
  <2>6. sent[m].lines + (IF sent[m].half THEN 1 ELSE 0) <= Len(log'[m])
    BY <2>3, <2>8
  <2>7. ASSUME NEW n \in Monitors
        PROVE  /\ sent'[n].lines + (IF sent'[n].half THEN 1 ELSE 0) <= Len(log'[n])
               /\ OwnLines(log'[n], timeline'[n])
               /\ <<n, "timeline.jsonl">> \notin edited' =>
                    AsWritten(log'[n], sent'[n], timeline'[n])
    <3>1. CASE n = m BY <3>1, <1>1, <2>1, <2>4, <2>5, <2>6
    <3>2. CASE n # m BY <3>2, <1>1, <2>1, <2>2
    <3> QED BY <3>1, <3>2
  <2> QED BY <1>1, <2>1, <2>7 DEF TimelineOK
<1>4. ASSUME NEW m \in Monitors, EditTimeline(m) PROVE TimelineOK'
  <2>1. PICK new \in EditsOf(timeline[m]) : timeline' = [timeline EXCEPT ![m] = new]
    BY <1>4 DEF EditTimeline
  <2>2. OwnLines(log[m], new) BY <1>1, EditedLines
  <2>3. /\ log' = log /\ sent' = sent /\ edited' = edited \cup {<<m, "timeline.jsonl">>}
    BY <1>4 DEF EditTimeline
  <2>4. /\ DOMAIN timeline' = Monitors /\ timeline'[m] = new
        /\ \A n \in Monitors \ {m} : timeline'[n] = timeline[n]
    BY <1>1, <2>1
  <2>5. ASSUME NEW n \in Monitors
        PROVE  /\ sent'[n].lines + (IF sent'[n].half THEN 1 ELSE 0) <= Len(log'[n])
               /\ OwnLines(log'[n], timeline'[n])
               /\ <<n, "timeline.jsonl">> \notin edited' =>
                    AsWritten(log'[n], sent'[n], timeline'[n])
    <3>1. CASE n = m BY <3>1, <1>1, <2>2, <2>3, <2>4
    <3>2. CASE n # m BY <3>2, <1>1, <2>3, <2>4
    <3> QED BY <3>1, <3>2
  <2> QED BY <1>1, <2>3, <2>4, <2>5 DEF TimelineOK
<1>5. ASSUME UNCHANGED <<log, sent, timeline>>,
             \A m \in Monitors : Touched(m) => <<m, "timeline.jsonl">> \in edited'
      PROVE  TimelineOK'
  BY <1>1, <1>5 DEF TimelineOK
<1>6. ASSUME NEW m \in Monitors, WriteFile(m) PROVE TimelineOK'
  <2>1. PICK j \in job[m], i \in open[m] :
          i.id = j.id /\ edited' = edited \ {<<j.id, FILES[j.at]>>}
    BY <1>6 DEF WriteFile
  <2>2. i.id \in Ids BY <1>0 DEF Incidents
  <2>3. \A n \in Monitors : n # i.id BY <2>2, EvidenceNames
  <2>4. \A n \in Monitors : Touched(n) => <<n, "timeline.jsonl">> \in edited'
    BY <2>1, <2>3
  <2> QED BY <1>5, <1>6, <2>4 DEF WriteFile
<1>7. ASSUME NEW m \in Monitors, Claim(m) \/ WriteChecksums(m) PROVE TimelineOK'
  BY <1>5, <1>7 DEF Claim, WriteChecksums
<1>8. ASSUME NEW m \in Monitors, NEW i \in open[m], Finalise(m, i) PROVE TimelineOK'
  BY <1>5, <1>8 DEF Finalise
<1>9. ASSUME NEW id \in Ids, NEW f \in Names, EditFile(id, f) PROVE TimelineOK'
  BY <1>5, <1>9 DEF EditFile, monitorVars
<1>10. ASSUME NEW id \in Ids, Begin(id) PROVE TimelineOK'
  BY <1>5, <1>10 DEF Begin, monitorVars
<1>11. ASSUME ReadFile PROVE TimelineOK' BY <1>5, <1>11 DEF ReadFile, monitorVars
<1>12. CASE UNCHANGED vars BY <1>5, <1>12 DEF vars
<1> QED BY <1>2, <1>3, <1>4, <1>6, <1>7, <1>8, <1>9, <1>10, <1>11, <1>12 DEF Next

(* A timeline of own lines that verifies is a beginning of the events: by  *)
(* the first line whose hash is another.                                   *)
LEMMA VerifiedLines ==
  ASSUME NEW events \in Seq(Events), NEW lines, OwnLines(events, lines),
         VerifyTimeline(lines)
  PROVE  IsPrefix([k \in 1..Len(lines) |-> lines[k].event], events)
<1> DEFINE n == Len(lines)
           Right(k) == /\ k <= Len(events) /\ lines[k].hash = SubSeq(events, 1, k)
                       /\ lines[k].event = events[k]
           T == {k \in 1..n : ~Right(k)}
<1>1. /\ lines \in Seq(Range(lines)) /\ n \in Nat
      /\ \A k \in 1..n : lines[k] \in Range(lines)
  BY DEF OwnLines
<1>2. ASSUME NEW k \in 1..n PROVE OwnRecord(events, lines[k]) /\ Intact(lines, k)
  BY <1>1 DEF OwnLines, VerifyTimeline
<1>3. ASSUME NEW k \in 1..n, k > 1 => Right(k - 1) PROVE Right(k)
  <2> DEFINE l == lines[k]
             prev == IF k = 1 THEN <<>> ELSE lines[k - 1].hash
  <2>1. PICK j \in 1..Len(events) :
          /\ l.prev = SubSeq(events, 1, j - 1)
          /\ l.hash = <<>> \/ l.hash = SubSeq(events, 1, j)
    BY <1>2 DEF OwnRecord
  <2>2. l.prev = prev /\ l.hash = Append(prev, l.event)
    BY <1>2 DEF Intact, ChainHash
  <2>3. Len(events) \in Nat /\ j - 1 \in 0..Len(events) /\ j \in 0..Len(events) BY <1>1
  <2>4. /\ SubSeq(events, 1, j - 1) \in Seq(Events) /\ Len(SubSeq(events, 1, j - 1)) = j - 1
        /\ SubSeq(events, 1, j) \in Seq(Events) /\ Len(SubSeq(events, 1, j)) = j
    BY <2>3, Beginning
  <2>5. prev \in Seq(Events) /\ Len(prev) = k - 1
    <3>1. CASE k = 1 BY <3>1
    <3>2. CASE k # 1
      <4>1. k - 1 \in 0..Len(events) /\ prev = SubSeq(events, 1, k - 1)
        BY <1>1, <1>3, <2>3, <3>2
      <4> QED BY <4>1, Beginning
    <3> QED BY <3>1, <3>2
  <2>6. j = k
    <3>1. Len(SubSeq(events, 1, j - 1)) = k - 1 BY <2>1, <2>2, <2>5
    <3> QED BY <3>1, <2>4, <1>1
  <2> HIDE DEF prev, l
  <2>7. prev \in Seq(Events \cup {l.event}) /\ l.event \in Events \cup {l.event}
    BY <2>5
  <2>8. Append(prev, l.event) # <<>> BY <2>7, AppendProperties
  <2>9. l.hash = SubSeq(events, 1, k) BY <2>1, <2>2, <2>6, <2>8
  <2>10. Append(SubSeq(events, 1, k - 1), events[k]) = SubSeq(events, 1, k)
    BY <2>6, NextBeginning
  <2>11. events[k] \in Events \cup {l.event} BY <2>6
  <2>12. Append(prev, l.event) = Append(prev, events[k])
    BY <2>1, <2>2, <2>6, <2>9, <2>10
  <2>13. l.event = events[k] BY <2>7, <2>11, <2>12, AppendInjective
  <2> QED BY <2>3, <2>6, <2>9, <2>13 DEF l
<1>4. T = {}
  <2> SUFFICES ASSUME T # {} PROVE FALSE OBVIOUS
  <2> HIDE DEF Right
  <2>1. PICK k \in T : \A j \in T : k <= j BY Smallest, T \in SUBSET Nat
  <2>2. k \in 1..n /\ ~Right(k) OBVIOUS
  <2>3. ASSUME k > 1 PROVE Right(k - 1)
    <3>1. k - 1 \in 1..n /\ ~(k <= k - 1) BY <1>1, <2>2, <2>3
    <3> QED BY <2>1, <3>1
  <2> QED BY <1>3, <2>2, <2>3
<1>5. \A k \in 1..n : Right(k)
  <2> HIDE DEF Right
  <2> QED BY <1>4
<1> DEFINE s == [k \in 1..n |-> lines[k].event]
<1>6. n <= Len(events)
  <2>1. CASE n = 0 BY <2>1
  <2>2. CASE n # 0 BY <1>1, <1>5, <2>2
  <2> QED BY <2>1, <2>2
<1>7. s \in Seq(Events) /\ Len(s) = n
  <2>1. \A k \in 1..n : lines[k].event \in Events BY <1>1, <1>5, <1>6
  <2> QED BY <1>1, <2>1, IsASeq
<1>8. n \in 0..Len(s) /\ n \in 0..Len(events) BY <1>1, <1>6, <1>7
<1>9. /\ SubSeq(s, 1, n) \in Seq(Events) /\ Len(SubSeq(s, 1, n)) = n
      /\ \A i \in 1..n : SubSeq(s, 1, n)[i] = s[i]
      /\ SubSeq(events, 1, n) \in Seq(Events) /\ Len(SubSeq(events, 1, n)) = n
      /\ \A i \in 1..n : SubSeq(events, 1, n)[i] = events[i]
  <2> HIDE DEF s, n
  <2> QED BY <1>7, <1>8, Beginning
<1>10. \A i \in 1..n : s[i] = events[i] BY <1>5
<1> HIDE DEF s, n
<1>11. SubSeq(s, 1, n) = SubSeq(events, 1, n) BY <1>9, <1>10
<1> QED BY <1>6, <1>7, <1>11 DEF IsPrefix, s, n

(* A timeline as it was written verifies if it is not torn.                *)
LEMMA WrittenVerifies ==
  ASSUME NEW events \in Seq(Events), NEW s \in [lines : Nat, half : BOOLEAN],
         s.lines + (IF s.half THEN 1 ELSE 0) <= Len(events),
         NEW lines, OwnLines(events, lines), AsWritten(events, s, lines),
         Torn \notin Range(lines)
  PROVE  VerifyTimeline(lines)
<1>1. /\ lines \in Seq(Range(lines)) /\ Len(lines) \in Nat /\ Len(events) \in Nat
      /\ \A k \in 1..Len(lines) : lines[k] \in Range(lines)
  BY DEF OwnLines
<1>2. ~s.half
  <2> SUFFICES ASSUME s.half PROVE FALSE OBVIOUS
  <2>1. Len(lines) = s.lines + 1 /\ lines[s.lines + 1] = Torn BY DEF AsWritten
  <2> QED BY <1>1, <2>1
<1>3. Len(lines) = s.lines /\ Len(lines) <= Len(events) BY <1>2 DEF AsWritten
<1>4. \A k \in 1..Len(lines) : lines[k] = WrittenLine(events, k) BY <1>3 DEF AsWritten
<1>5. ASSUME NEW k \in 1..Len(lines) PROVE Intact(lines, k)
  <2>1. /\ lines[k].prev = SubSeq(events, 1, k - 1) /\ lines[k].hash = SubSeq(events, 1, k)
        /\ lines[k].event = events[k] /\ lines[k].seq = k
    <3>1. lines[k] = WrittenLine(events, k) BY <1>4
    <3> QED BY <3>1 DEF WrittenLine
  <2>2. k \in 1..Len(events) BY <1>1, <1>3
  <2>3. Append(SubSeq(events, 1, k - 1), events[k]) = SubSeq(events, 1, k)
    BY <2>2, NextBeginning
  <2>4. CASE k = 1
    <3>1. SubSeq(events, 1, k - 1) = <<>>
      BY <2>4, SubSeqEmpty, 1 \in Int, k - 1 \in Int
    <3>2. lines[k].prev = <<>> /\ lines[k].hash = Append(<<>>, lines[k].event)
      BY <2>1, <2>3, <3>1
    <3> QED BY <2>4, <3>2 DEF Intact, ChainHash
  <2>5. CASE k # 1
    <3>1. k - 1 \in 1..Len(lines) BY <1>1, <2>5
    <3>2. lines[k - 1].hash = SubSeq(events, 1, k - 1) /\ lines[k - 1].seq = k - 1
      <4>1. lines[k - 1] = WrittenLine(events, k - 1) BY <1>4, <3>1
      <4> QED BY <4>1 DEF WrittenLine
    <3>3. k > k - 1 OBVIOUS
    <3> QED BY <2>1, <2>3, <2>5, <3>2, <3>3 DEF Intact, ChainHash
  <2> QED BY <2>4, <2>5
<1> QED BY <1>5 DEF VerifyTimeline

LEMMA TimelinesVerify == ASSUME MonitorsOK, TimelineOK PROVE ChainIsPrefix
<1> SUFFICES ASSUME NEW m \in Monitors
             PROVE  /\ VerifyTimeline(timeline[m]) =>
                         IsPrefix([k \in 1..Len(timeline[m]) |-> timeline[m][k].event], log[m])
                    /\ <<m, "timeline.jsonl">> \notin edited /\ Torn \notin Range(timeline[m])
                         => VerifyTimeline(timeline[m])
  BY Zenon DEF ChainIsPrefix
<1>1. log[m] \in Seq(Events) BY DEF MonitorsOK
<1>2. /\ sent[m] \in [lines : Nat, half : BOOLEAN] /\ OwnLines(log[m], timeline[m])
      /\ sent[m].lines + (IF sent[m].half THEN 1 ELSE 0) <= Len(log[m])
      /\ <<m, "timeline.jsonl">> \notin edited =>
           AsWritten(log[m], sent[m], timeline[m])
  BY DEF TimelineOK
<1> QED BY <1>1, <1>2, VerifiedLines, WrittenVerifies

-----------------------------------------------------------------------------
(* The bundles: what the actions do to them, in terms of the one directory *)
(* they change.                                                            *)

LEMMA OneJob ==
  ASSUME MonitorsOK, NEW m \in Monitors, NEW j \in job[m]
  PROVE  job[m] = {j} /\ j \in Jobs /\ (j.claimed => \E i \in open[m] : i.id = j.id)
<1>1. Doing(job[m], open[m], log[m]) BY DEF MonitorsOK
<1> QED BY <1>1 DEF Doing

LEMMA OneDir ==
  ASSUME MonitorsOK, DirsOK, OpenOK, NEW m \in Monitors, NEW i \in open[m]
  PROVE  /\ i \in Incidents /\ i.id \in Ids /\ i.first \in Nat \ {0}
         /\ \E d : dirs[i.id] = {d} /\ DOMAIN d = Names \cup {"checksums.txt"}
<1>1. i \in Incidents BY DEF MonitorsOK
<1>2. i.id \in Ids /\ i.first \in Nat \ {0} BY <1>1 DEF Incidents
<1>3. dirs[i.id] # {} /\ (dirs[i.id] = {} \/ \E d : dirs[i.id] = {d})
  BY <1>2 DEF DirsOK, OpenOK
<1>4. PICK d : dirs[i.id] = {d} BY <1>3
<1>5. DOMAIN d = Names \cup {"checksums.txt"} BY <1>2, <1>4 DEF DirsOK
<1> QED BY <1>1, <1>2, <1>4, <1>5

WroteFile(m, j, i, d) ==
  LET f == FILES[j.at]
  IN /\ j \in job[m] /\ i \in open[m] /\ j.claimed /\ i.id = j.id /\ j.id \in Ids
     /\ j.at \in 1..Len(FILES) /\ f \in Names
     /\ dirs[j.id] = {d} /\ DOMAIN d = Names \cup {"checksums.txt"}
     /\ job' = [job EXCEPT ![m] = {[j EXCEPT !.at = @ + 1]}]
     /\ dirs' = [dirs EXCEPT ![j.id] =
                   {[d EXCEPT ![f] = Contents(m, i, log[m], j.final)[f]]}]
     /\ reader' = Disturbed(j.id) /\ edited' = edited \ {<<j.id, f>>}
     /\ log' = log /\ open' = open

LEMMA WriteFileDoes ==
  ASSUME MonitorsOK, DirsOK, OpenOK, NEW m \in Monitors, WriteFile(m)
  PROVE  \E j, i, d : WroteFile(m, j, i, d)
<1>1. PICK j \in job[m], i \in open[m] :
        /\ j.claimed /\ i.id = j.id /\ j.at <= Len(FILES)
        /\ job' = [job EXCEPT ![m] = {[j EXCEPT !.at = @ + 1]}]
        /\ dirs' = [dirs EXCEPT ![j.id] =
             {[d EXCEPT ![FILES[j.at]] = Contents(m, i, log[m], j.final)[FILES[j.at]]] :
                d \in @}]
        /\ reader' = Disturbed(j.id) /\ edited' = edited \ {<<j.id, FILES[j.at]>>}
  BY DEF WriteFile
<1>2. j \in Jobs BY OneJob
<1>3. j.at \in 1..Len(FILES) /\ FILES[j.at] \in Names BY <1>1, <1>2, FilesFacts DEF Jobs
<1>4. PICK d : dirs[i.id] = {d} /\ DOMAIN d = Names \cup {"checksums.txt"} BY OneDir
<1>5. i.id \in Ids BY OneDir
<1>6. log' = log /\ open' = open BY DEF WriteFile
<1> DEFINE F(x) == [x EXCEPT ![FILES[j.at]] = Contents(m, i, log[m], j.final)[FILES[j.at]]]
<1>7. {F(x) : x \in dirs[j.id]} = {F(d)} BY <1>1, <1>4
<1>8. dirs' = [dirs EXCEPT ![j.id] = {F(d)}] BY <1>1, <1>7
<1> QED BY <1>1, <1>3, <1>4, <1>5, <1>6, <1>8 DEF WroteFile

WroteChecksums(m, j, i, d) ==
  /\ j \in job[m] /\ i \in open[m] /\ j.claimed /\ i.id = j.id /\ j.id \in Ids
  /\ j.at = Len(FILES) + 1
  /\ dirs[j.id] = {d} /\ DOMAIN d = Names \cup {"checksums.txt"}
  /\ job' = [job EXCEPT ![m] = {}]
  /\ dirs' = [dirs EXCEPT ![j.id] = {[d EXCEPT !["checksums.txt"] = [f \in Names |-> d[f]]]}]
  /\ DOMAIN open' = Monitors /\ \A n \in Monitors : open'[n] \subseteq open[n]
  /\ reader' = Disturbed(j.id) /\ edited' = edited /\ log' = log

LEMMA WriteChecksumsDoes ==
  ASSUME MonitorsOK, DirsOK, OpenOK, NEW m \in Monitors, WriteChecksums(m)
  PROVE  \E j, i, d : WroteChecksums(m, j, i, d)
<1>1. PICK j \in job[m], i \in open[m] :
        /\ j.claimed /\ i.id = j.id /\ j.at > Len(FILES)
        /\ dirs' = [dirs EXCEPT ![j.id] =
             {[d EXCEPT !["checksums.txt"] = [f \in Names |-> d[f]]] : d \in @}]
        /\ open' = IF j.final THEN [open EXCEPT ![m] = @ \ {i}] ELSE open
        /\ reader' = Disturbed(j.id)
  BY DEF WriteChecksums
<1>2. j \in Jobs BY OneJob
<1>3. j.at = Len(FILES) + 1 BY <1>1, <1>2, FilesFacts DEF Jobs
<1>4. PICK d : dirs[i.id] = {d} /\ DOMAIN d = Names \cup {"checksums.txt"} BY OneDir
<1>5. i.id \in Ids BY OneDir
<1>6. log' = log /\ edited' = edited /\ job' = [job EXCEPT ![m] = {}] BY DEF WriteChecksums
<1> DEFINE F(x) == [x EXCEPT !["checksums.txt"] = [f \in Names |-> x[f]]]
<1>7. {F(x) : x \in dirs[j.id]} = {F(d)} BY <1>1, <1>4
<1>8. dirs' = [dirs EXCEPT ![j.id] = {F(d)}] BY <1>1, <1>7
<1>9. DOMAIN open' = Monitors /\ \A n \in Monitors : open'[n] \subseteq open[n]
  BY <1>1 DEF MonitorsOK
<1> QED BY <1>1, <1>3, <1>4, <1>5, <1>6, <1>8, <1>9 DEF WroteChecksums

Claimed(m, j, i) ==
  /\ j \in job[m] /\ ~j.claimed /\ j.id \in Ids /\ dirs[j.id] = {}
  /\ i.id = j.id
  /\ job' = [job EXCEPT ![m] = {[j EXCEPT !.claimed = TRUE]}]
  /\ open' = [open EXCEPT ![m] = @ \cup {i}]
  /\ dirs' = [dirs EXCEPT ![j.id] = {NoFiles}]
  /\ log' = log /\ reader' = reader /\ edited' = edited

PassedOver(m, j) ==
  /\ j \in job[m] /\ ~j.claimed
  /\ job' = [job EXCEPT ![m] = {[j EXCEPT !.id = @ + 1]}]
  /\ UNCHANGED <<log, open, dirs, reader, edited>>

LEMMA ClaimDoes ==
  ASSUME NEW m \in Monitors, Claim(m)
  PROVE  (\E j, i : Claimed(m, j, i)) \/ (\E j : PassedOver(m, j))
<1>1. PICK j \in job[m] :
        /\ ~j.claimed /\ Flushed(m) /\ j.id \in Ids
        /\ IF dirs[j.id] # {}
           THEN /\ job' = [job EXCEPT ![m] = {[j EXCEPT !.id = @ + 1]}]
                /\ UNCHANGED <<open, dirs>>
           ELSE /\ job' = [job EXCEPT ![m] = {[j EXCEPT !.claimed = TRUE]}]
                /\ open' = [open EXCEPT ![m] = @ \cup {NewIncident(m, j.id)}]
                /\ dirs' = [dirs EXCEPT ![j.id] = {NoFiles}]
  BY DEF Claim
<1>2. log' = log /\ reader' = reader /\ edited' = edited BY DEF Claim
<1>3. CASE dirs[j.id] # {}
  <2>1. PassedOver(m, j) BY <1>1, <1>2, <1>3 DEF PassedOver
  <2> QED BY <2>1
<1>4. CASE dirs[j.id] = {}
  <2>1. NewIncident(m, j.id).id = j.id BY DEF NewIncident
  <2>2. Claimed(m, j, NewIncident(m, j.id)) BY <1>1, <1>2, <1>4, <2>1 DEF Claimed
  <2> QED BY <2>2
<1> QED BY <1>3, <1>4

FileEdited(id, f, d, to) ==
  /\ ~Writing(id) /\ dirs[id] = {d} /\ DOMAIN d = Names \cup {"checksums.txt"}
  /\ to \in {Edited, Absent}
  /\ dirs' = [dirs EXCEPT ![id] = {[d EXCEPT ![f] = to]}]
  /\ edited' = edited \cup {<<id, f>>} /\ reader' = Disturbed(id)
  /\ log' = log /\ job' = job /\ open' = open

LEMMA EditFileDoes ==
  ASSUME MonitorsOK, DirsOK, NEW id \in Ids, NEW f \in Names, EditFile(id, f)
  PROVE  \E d, to : FileEdited(id, f, d, to)
<1>1. PICK d \in dirs[id], to \in {Edited, Absent} :
        dirs' = [dirs EXCEPT ![id] = {[d EXCEPT ![f] = to]}]
  BY DEF EditFile
<1>2. dirs[id] = {d} /\ DOMAIN d = Names \cup {"checksums.txt"} BY DEF DirsOK
<1>3. /\ ~Writing(id) /\ edited' = edited \cup {<<id, f>>} /\ reader' = Disturbed(id)
      /\ log' = log /\ job' = job /\ open' = open
  BY DEF EditFile, monitorVars
<1> QED BY <1>1, <1>2, <1>3 DEF FileEdited

LEMMA DirReplaced ==
  ASSUME DirsOK, NEW x \in Ids, NEW d, DOMAIN d = Names \cup {"checksums.txt"},
         d["checksums.txt"] # Absent => Sealed(log, d["checksums.txt"]),
         dirs' = [dirs EXCEPT ![x] = {d}], log' = log
  PROVE  DirsOK'
<1>1. DOMAIN dirs' = Ids /\ dirs'[x] = {d} /\ \A id \in Ids \ {x} : dirs'[id] = dirs[id]
  BY DEF DirsOK
<1>2. ASSUME NEW id \in Ids
      PROVE  /\ dirs'[id] = {} \/ \E e : dirs'[id] = {e}
             /\ \A e \in dirs'[id] :
                  /\ DOMAIN e = Names \cup {"checksums.txt"}
                  /\ e["checksums.txt"] # Absent => Sealed(log', e["checksums.txt"])
  <2>1. CASE id = x BY <1>1, <2>1
  <2>2. CASE id # x
    <3>1. dirs'[id] = dirs[id] BY <1>1, <2>2
    <3> QED BY <3>1 DEF DirsOK
  <2> QED BY <2>1, <2>2
<1> QED BY <1>1, <1>2 DEF DirsOK

(* What is written while checksums.txt is written is sealed.               *)
LEMMA SumsSealed ==
  ASSUME MonitorsOK, DirsOK, OpenOK, BeingWritten, NEW m \in Monitors, NEW j, NEW i, NEW d,
         WroteChecksums(m, j, i, d)
  PROVE  [f \in Names |-> d[f]] = Contents(m, i, log[m], j.final)
<1> DEFINE c == Contents(m, i, log[m], j.final)
<1>1. c = [f \in Names |-> c[f]] BY ContentsFunction, Zenon
<1>2. \A k \in 1..Len(FILES) : d[FILES[k]] = c[FILES[k]]
  <2>1. j.at - 1 = Len(FILES) BY FilesFacts DEF WroteChecksums
  <2> QED BY <2>1 DEF WroteChecksums, BeingWritten
<1> HIDE DEF c
<1>3. \A f \in Names : d[f] = c[f] BY <1>2, FilesFacts
<1>4. [f \in Names |-> d[f]] = c BY <1>1, <1>3
<1> QED BY <1>4 DEF c

LEMMA DirsStep ==
  ASSUME MonitorsOK, DirsOK, OpenOK, BeingWritten, [Next]_vars
  PROVE  DirsOK'
<1>1. ASSUME UNCHANGED <<log, dirs>> PROVE DirsOK' BY <1>1 DEF DirsOK
<1>2. ASSUME NEW m \in Monitors, NEW e \in Events, Record(m, e) PROVE DirsOK'
  <2>1. dirs' = dirs /\ log' = [log EXCEPT ![m] = Append(@, e)] BY <1>2 DEF Record
  <2>2. log \in [Monitors -> Seq(Events)] BY DEF MonitorsOK
  <2>3. \A s : Sealed(log, s) => Sealed(log', s) BY <2>1, <2>2, SealedGrows
  <2> QED BY <2>1, <2>3 DEF DirsOK
<1>3. ASSUME NEW m \in Monitors, Claim(m) PROVE DirsOK'
  <2>1. ASSUME NEW j, NEW i, Claimed(m, j, i) PROVE DirsOK'
    <3>1. /\ DOMAIN NoFiles = Names \cup {"checksums.txt"}
          /\ NoFiles["checksums.txt"] = Absent
      BY DEF NoFiles
    <3> QED BY <2>1, <3>1, DirReplaced DEF Claimed
  <2>2. ASSUME NEW j, PassedOver(m, j) PROVE DirsOK' BY <1>1, <2>2 DEF PassedOver
  <2> QED BY <1>3, <2>1, <2>2, ClaimDoes
<1>4. ASSUME NEW m \in Monitors, WriteFile(m) PROVE DirsOK'
  <2>1. PICK j, i, d : WroteFile(m, j, i, d) BY <1>4, WriteFileDoes
  <2> DEFINE e == [d EXCEPT ![FILES[j.at]] = Contents(m, i, log[m], j.final)[FILES[j.at]]]
  <2>2. /\ DOMAIN e = Names \cup {"checksums.txt"}
        /\ e["checksums.txt"] = d["checksums.txt"]
    BY <2>1, FilesFacts DEF WroteFile
  <2>3. d["checksums.txt"] # Absent => Sealed(log, d["checksums.txt"])
    BY <2>1 DEF WroteFile, DirsOK
  <2>4. j.id \in Ids /\ dirs' = [dirs EXCEPT ![j.id] = {e}] /\ log' = log
    BY <2>1 DEF WroteFile
  <2> HIDE DEF e
  <2> QED BY <2>2, <2>3, <2>4, DirReplaced
<1>5. ASSUME NEW m \in Monitors, WriteChecksums(m) PROVE DirsOK'
  <2>1. PICK j, i, d : WroteChecksums(m, j, i, d) BY <1>5, WriteChecksumsDoes
  <2> DEFINE s == [f \in Names |-> d[f]]
             e == [d EXCEPT !["checksums.txt"] = s]
  <2>2. s = Contents(m, i, log[m], j.final) BY <2>1, SumsSealed
  <2>3. Sealed(log, s)
    <3>1. i.first \in Nat \ {0} BY <2>1, OneDir DEF WroteChecksums
    <3>2. log \in [Monitors -> Seq(Events)] BY DEF MonitorsOK
    <3>3. Sealed(log, Contents(m, i, log[m], j.final)) BY <3>1, <3>2, SealedNew
    <3> HIDE DEF s
    <3> QED BY <2>2, <3>3
  <2> HIDE DEF s
  <2>4. DOMAIN e = Names \cup {"checksums.txt"} /\ e["checksums.txt"] = s
    BY <2>1 DEF WroteChecksums
  <2>5. j.id \in Ids /\ dirs' = [dirs EXCEPT ![j.id] = {e}] /\ log' = log
    BY <2>1 DEF WroteChecksums, s
  <2> HIDE DEF e
  <2> QED BY <2>3, <2>4, <2>5, DirReplaced
<1>6. ASSUME NEW id \in Ids, NEW f \in Names, EditFile(id, f) PROVE DirsOK'
  <2>1. PICK d, to : FileEdited(id, f, d, to) BY <1>6, EditFileDoes
  <2> DEFINE e == [d EXCEPT ![f] = to]
  <2>2. /\ DOMAIN e = Names \cup {"checksums.txt"}
        /\ e["checksums.txt"] = d["checksums.txt"]
    BY <2>1, FilesFacts DEF FileEdited
  <2>3. d["checksums.txt"] # Absent => Sealed(log, d["checksums.txt"])
    BY <2>1 DEF FileEdited, DirsOK
  <2>4. dirs' = [dirs EXCEPT ![id] = {e}] /\ log' = log BY <2>1 DEF FileEdited
  <2> HIDE DEF e
  <2> QED BY <2>2, <2>3, <2>4, DirReplaced
<1>7. ASSUME NEW m \in Monitors, WriteOut(m) \/ EditTimeline(m) PROVE DirsOK'
  BY <1>1, <1>7 DEF WriteOut, EditTimeline
<1>8. ASSUME NEW m \in Monitors, NEW i \in open[m], Finalise(m, i) PROVE DirsOK'
  BY <1>1, <1>8 DEF Finalise
<1>9. ASSUME NEW id \in Ids, Begin(id) PROVE DirsOK' BY <1>1, <1>9 DEF Begin, monitorVars
<1>10. ASSUME ReadFile PROVE DirsOK' BY <1>1, <1>10 DEF ReadFile, monitorVars
<1>11. CASE UNCHANGED vars BY <1>1, <1>11 DEF vars
<1> QED
  BY <1>2, <1>3, <1>4, <1>5, <1>6, <1>7, <1>8, <1>9, <1>10, <1>11 DEF Next

LEMMA OpenStep ==
  ASSUME MonitorsOK, DirsOK, OpenOK, [Next]_vars
  PROVE  OpenOK'
<1>1. ASSUME \A m \in Monitors : open'[m] \subseteq open[m],
             \A m \in Monitors : \A i \in open[m] : dirs'[i.id] # {}
      PROVE  OpenOK'
  BY <1>1 DEF OpenOK
<1>2. ASSUME UNCHANGED <<open, dirs>> PROVE OpenOK' BY <1>1, <1>2 DEF OpenOK
<1>3. ASSUME NEW x \in Ids, NEW d, dirs' = [dirs EXCEPT ![x] = {d}]
      PROVE  \A m \in Monitors : \A i \in open[m] : dirs'[i.id] # {}
  BY <1>3, OneDir DEF DirsOK, OpenOK
<1>4. ASSUME NEW m \in Monitors, Claim(m) PROVE OpenOK'
  <2>1. ASSUME NEW j, NEW i, Claimed(m, j, i) PROVE OpenOK'
    <3>1. \A n \in Monitors : \A k \in open[n] : k.id # i.id
      BY <2>1 DEF Claimed, OpenOK
    <3>2. /\ open'[m] = open[m] \cup {i} /\ \A n \in Monitors \ {m} : open'[n] = open[n]
      BY <2>1 DEF Claimed, MonitorsOK
    <3>3. dirs' = [dirs EXCEPT ![j.id] = {NoFiles}] /\ j.id \in Ids /\ i.id = j.id
      BY <2>1 DEF Claimed
    <3>4. dirs'[i.id] # {} BY <3>3 DEF DirsOK
    <3>5. \A n \in Monitors : \A k \in open[n] : dirs'[k.id] # {} BY <3>3, <1>3
    <3>6. ASSUME NEW n \in Monitors, NEW k \in open'[n]
          PROVE  /\ dirs'[k.id] # {}
                 /\ \A l \in open'[n] : l.id = k.id => l = k
                 /\ \A o \in Monitors \ {n} : \A l \in open'[o] : l.id # k.id
      <4>1. CASE n = m /\ k = i BY <4>1, <3>1, <3>2, <3>4
      <4>2. CASE n = m /\ k # i
        <5>1. k \in open[n] BY <4>2, <3>2
        <5> QED BY <4>2, <5>1, <3>1, <3>2, <3>5 DEF OpenOK
      <4>3. CASE n # m
        <5>1. k \in open[n] BY <4>3, <3>2
        <5> QED BY <4>3, <5>1, <3>1, <3>2, <3>5 DEF OpenOK
      <4> QED BY <4>1, <4>2, <4>3
    <3> QED BY <3>6 DEF OpenOK
  <2>2. ASSUME NEW j, PassedOver(m, j) PROVE OpenOK' BY <1>2, <2>2 DEF PassedOver
  <2> QED BY <1>4, <2>1, <2>2, ClaimDoes
<1>5. ASSUME NEW m \in Monitors, WriteFile(m) PROVE OpenOK'
  <2>1. PICK j, i, d : WroteFile(m, j, i, d) BY <1>5, WriteFileDoes
  <2> QED BY <2>1, <1>1, <1>3 DEF WroteFile
<1>6. ASSUME NEW m \in Monitors, WriteChecksums(m) PROVE OpenOK'
  <2>1. PICK j, i, d : WroteChecksums(m, j, i, d) BY <1>6, WriteChecksumsDoes
  <2> QED BY <2>1, <1>1, <1>3 DEF WroteChecksums
<1>7. ASSUME NEW id \in Ids, NEW f \in Names, EditFile(id, f) PROVE OpenOK'
  <2>1. PICK d, to : FileEdited(id, f, d, to) BY <1>7, EditFileDoes
  <2> QED BY <2>1, <1>1, <1>3 DEF FileEdited
<1>8. ASSUME NEW m \in Monitors, WriteOut(m) \/ EditTimeline(m) PROVE OpenOK'
  BY <1>2, <1>8 DEF WriteOut, EditTimeline
<1>9. ASSUME NEW m \in Monitors, NEW i \in open[m], Finalise(m, i) PROVE OpenOK'
  BY <1>2, <1>9 DEF Finalise
<1>10. ASSUME NEW m \in Monitors, NEW e \in Events, Record(m, e) PROVE OpenOK'
  BY <1>2, <1>10 DEF Record
<1>11. ASSUME NEW id \in Ids, Begin(id) PROVE OpenOK' BY <1>2, <1>11 DEF Begin, monitorVars
<1>12. ASSUME ReadFile PROVE OpenOK' BY <1>2, <1>12 DEF ReadFile, monitorVars
<1>13. CASE UNCHANGED vars BY <1>2, <1>13 DEF vars
<1> QED
  BY <1>4, <1>5, <1>6, <1>7, <1>8, <1>9, <1>10, <1>11, <1>12, <1>13 DEF Next

LEMMA OwnerKept ==
  ASSUME DirsOK, OwnersOK, NEW x \in Ids, NEW d, NEW e, dirs[x] = {d},
         dirs' = [dirs EXCEPT ![x] = {e}],
         \A n \in Monitors : open'[n] \subseteq open[n],
         \A m \in Monitors : Owns(m, x) =>
           /\ e["policy.yaml"] \in {Absent, Edited, <<m>>}
           /\ e["incident.json"] \in {Absent, Edited} \/ e["incident.json"].by = m
  PROVE  OwnersOK'
<1>1. dirs'[x] = {e} /\ \A id \in Ids \ {x} : dirs'[id] = dirs[id] BY DEF DirsOK
<1>2. ASSUME NEW id \in Ids, dirs'[id] # {} PROVE \E m \in Monitors : Owns(m, id)'
  <2>1. dirs[id] # {} BY <1>1, <1>2
  <2>2. PICK m \in Monitors : Owns(m, id) BY <2>1 DEF OwnersOK
  <2>3. \A n \in Monitors \ {m} : \A i \in open'[n] : i.id # id BY <2>2 DEF Owns
  <2>4. CASE id = x BY <1>1, <2>2, <2>3, <2>4 DEF Owns
  <2>5. CASE id # x BY <1>1, <2>2, <2>3, <2>5 DEF Owns
  <2> QED BY <2>4, <2>5
<1> QED BY <1>2 DEF OwnersOK

LEMMA OwnersStep ==
  ASSUME MonitorsOK, DirsOK, OpenOK, OwnersOK, [Next]_vars
  PROVE  OwnersOK'
<1>1. ASSUME UNCHANGED <<open, dirs>> PROVE OwnersOK' BY <1>1 DEF OwnersOK, Owns
<1>2. ASSUME NEW m \in Monitors, Claim(m) PROVE OwnersOK'
  <2>1. ASSUME NEW j, NEW i, Claimed(m, j, i) PROVE OwnersOK'
    <3>1. \A n \in Monitors : \A k \in open[n] : k.id # j.id
      BY <2>1 DEF Claimed, OpenOK
    <3>2. open'[m] = open[m] \cup {i} /\ \A n \in Monitors \ {m} : open'[n] = open[n]
      BY <2>1 DEF Claimed, MonitorsOK
    <3>3. /\ j.id \in Ids /\ i.id = j.id
          /\ dirs'[j.id] = {NoFiles} /\ \A id \in Ids \ {j.id} : dirs'[id] = dirs[id]
      BY <2>1 DEF Claimed, DirsOK
    <3>4. NoFiles["policy.yaml"] = Absent /\ NoFiles["incident.json"] = Absent
      BY FilesFacts DEF NoFiles
    <3>5. ASSUME NEW id \in Ids, dirs'[id] # {} PROVE \E o \in Monitors : Owns(o, id)'
      <4>1. CASE id = j.id
        <5>1. Owns(m, id)' BY <4>1, <3>1, <3>2, <3>3, <3>4 DEF Owns
        <5> QED BY <5>1
      <4>2. CASE id # j.id
        <5>1. dirs'[id] = dirs[id] BY <3>3, <4>2
        <5>2. PICK o \in Monitors : Owns(o, id) BY <3>5, <5>1 DEF OwnersOK
        <5>3. Owns(o, id)' BY <4>2, <5>1, <5>2, <3>2, <3>3 DEF Owns
        <5> QED BY <5>3
      <4> QED BY <4>1, <4>2
    <3> QED BY <3>5 DEF OwnersOK
  <2>2. ASSUME NEW j, PassedOver(m, j) PROVE OwnersOK' BY <1>1, <2>2 DEF PassedOver
  <2> QED BY <1>2, <2>1, <2>2, ClaimDoes
<1>3. ASSUME NEW m \in Monitors, WriteFile(m) PROVE OwnersOK'
  <2>1. PICK j, i, d : WroteFile(m, j, i, d) BY <1>3, WriteFileDoes
  <2> DEFINE f == FILES[j.at]
             c == Contents(m, i, log[m], j.final)
             e == [d EXCEPT ![f] = c[f]]
  <2>2. c["policy.yaml"] = <<m>> /\ c["incident.json"].by = m
    <3>1. /\ c["policy.yaml"] = <<m>>
          /\ c["incident.json"] = [by |-> m, incident |-> i, recorded |-> Len(log[m]),
                                   final |-> j.final]
      BY ContentsFields
    <3> HIDE DEF c
    <3> QED BY <3>1
  <2>3. /\ dirs' = [dirs EXCEPT ![j.id] = {e}] /\ dirs[j.id] = {d} /\ j.id \in Ids
        /\ open' = open /\ DOMAIN d = Names \cup {"checksums.txt"}
        /\ i \in open[m] /\ i.id = j.id
    BY <2>1 DEF WroteFile
  <2>4. ASSUME NEW o \in Monitors, Owns(o, j.id)
        PROVE  /\ e["policy.yaml"] \in {Absent, Edited, <<o>>}
               /\ e["incident.json"] \in {Absent, Edited} \/ e["incident.json"].by = o
    <3>1. o = m BY <2>3, <2>4 DEF Owns
    <3>2. /\ d["policy.yaml"] \in {Absent, Edited, <<m>>}
          /\ d["incident.json"] \in {Absent, Edited} \/ d["incident.json"].by = m
      BY <2>3, <2>4, <3>1 DEF Owns
    <3> HIDE DEF c
    <3> QED BY <2>2, <2>3, <3>1, <3>2, FilesFacts
  <2> HIDE DEF e
  <2> QED BY <2>3, <2>4, OwnerKept
<1>4. ASSUME NEW m \in Monitors, WriteChecksums(m) PROVE OwnersOK'
  <2>1. PICK j, i, d : WroteChecksums(m, j, i, d) BY <1>4, WriteChecksumsDoes
  <2> DEFINE s == [f \in Names |-> d[f]]
             e == [d EXCEPT !["checksums.txt"] = s]
  <2>2. /\ dirs' = [dirs EXCEPT ![j.id] = {e}] /\ dirs[j.id] = {d} /\ j.id \in Ids
        /\ \A n \in Monitors : open'[n] \subseteq open[n]
        /\ DOMAIN d = Names \cup {"checksums.txt"}
    BY <2>1 DEF WroteChecksums
  <2> HIDE DEF s
  <2>3. e["policy.yaml"] = d["policy.yaml"] /\ e["incident.json"] = d["incident.json"]
    BY <2>2, FilesFacts
  <2> HIDE DEF e
  <2>4. ASSUME NEW o \in Monitors, Owns(o, j.id)
        PROVE  /\ e["policy.yaml"] \in {Absent, Edited, <<o>>}
               /\ e["incident.json"] \in {Absent, Edited} \/ e["incident.json"].by = o
    BY <2>2, <2>3, <2>4 DEF Owns
  <2> QED BY <2>2, <2>4, OwnerKept
<1>5. ASSUME NEW id \in Ids, NEW f \in Names, EditFile(id, f) PROVE OwnersOK'
  <2>1. PICK d, to : FileEdited(id, f, d, to) BY <1>5, EditFileDoes
  <2> DEFINE e == [d EXCEPT ![f] = to]
  <2>2. /\ dirs' = [dirs EXCEPT ![id] = {e}] /\ dirs[id] = {d} /\ open' = open
        /\ DOMAIN d = Names \cup {"checksums.txt"} /\ to \in {Edited, Absent}
    BY <2>1 DEF FileEdited
  <2>3. /\ e["policy.yaml"] \in {d["policy.yaml"], Edited, Absent}
        /\ e["incident.json"] \in {d["incident.json"], Edited, Absent}
    BY <2>2, FilesFacts
  <2> HIDE DEF e
  <2>4. ASSUME NEW o \in Monitors, Owns(o, id)
        PROVE  /\ e["policy.yaml"] \in {Absent, Edited, <<o>>}
               /\ e["incident.json"] \in {Absent, Edited} \/ e["incident.json"].by = o
    BY <2>2, <2>3, <2>4 DEF Owns
  <2> QED BY <2>2, <2>4, OwnerKept
<1>6. ASSUME NEW m \in Monitors, WriteOut(m) \/ EditTimeline(m) PROVE OwnersOK'
  BY <1>1, <1>6 DEF WriteOut, EditTimeline
<1>7. ASSUME NEW m \in Monitors, NEW i \in open[m], Finalise(m, i) PROVE OwnersOK'
  BY <1>1, <1>7 DEF Finalise
<1>8. ASSUME NEW m \in Monitors, NEW e \in Events, Record(m, e) PROVE OwnersOK'
  BY <1>1, <1>8 DEF Record
<1>9. ASSUME NEW id \in Ids, Begin(id) PROVE OwnersOK' BY <1>1, <1>9 DEF Begin, monitorVars
<1>10. ASSUME ReadFile PROVE OwnersOK' BY <1>1, <1>10 DEF ReadFile, monitorVars
<1>11. CASE UNCHANGED vars BY <1>1, <1>11 DEF vars
<1> QED
  BY <1>2, <1>3, <1>4, <1>5, <1>6, <1>7, <1>8, <1>9, <1>10, <1>11 DEF Next

(* A claimed job of another monitor, or of the same one, is for another    *)
(* directory than an open incident that is not its own.                    *)
LEMMA JobElsewhere ==
  ASSUME MonitorsOK, OpenOK, NEW m \in Monitors, NEW i \in open[m],
         NEW n \in Monitors \ {m}, NEW k \in job[n], k.claimed
  PROVE  k.id # i.id
<1>1. PICK l \in open[n] : l.id = k.id BY OneJob
<1> QED BY <1>1 DEF OpenOK

LEMMA BeingWrittenStep ==
  ASSUME MonitorsOK, DirsOK, OpenOK, BeingWritten, [Next]_vars
  PROVE  BeingWritten'
<1>1. ASSUME UNCHANGED <<log, open, dirs>>,
             \A n \in Monitors : \A k \in job'[n] :
               k.claimed => k \in job[n] \/ k.at = 1
      PROVE  BeingWritten'
  <2> SUFFICES ASSUME NEW n \in Monitors, NEW k \in job'[n], NEW l \in open[n],
                      k.claimed, l.id = k.id, NEW d \in dirs[k.id], NEW x \in 1..(k.at - 1)
               PROVE  d[FILES[x]] = Contents(n, l, log[n], k.final)[FILES[x]]
    BY <1>1 DEF BeingWritten
  <2>1. CASE k \in job[n] BY <2>1 DEF BeingWritten
  <2>2. CASE k.at = 1
    <3>1. 1..(k.at - 1) = {} BY <2>2
    <3> QED BY <3>1
  <2> QED BY <1>1, <2>1, <2>2
<1>2. ASSUME UNCHANGED <<log, job, open, dirs>> PROVE BeingWritten'
  BY <1>2 DEF BeingWritten
(* A step that leaves the jobs and the directories of other monitors.      *)
<1>3. ASSUME NEW m \in Monitors, \A n \in Monitors \ {m} : log'[n] = log[n],
             \A n \in Monitors \ {m} : job'[n] = job[n] /\ open'[n] \subseteq open[n],
             \A n \in Monitors \ {m} : \A k \in job[n] : k.claimed => dirs'[k.id] = dirs[k.id],
             NEW k \in {j \in job'[m] : j.claimed}, \A j \in job'[m] : j = k,
             \A l \in open'[m], d \in dirs'[k.id], x \in 1..(k.at - 1) : l.id = k.id =>
               d[FILES[x]] = Contents(m, l, log'[m], k.final)[FILES[x]]
      PROVE  BeingWritten'
  <2> SUFFICES ASSUME NEW n \in Monitors, NEW j \in job'[n], NEW l \in open'[n],
                      j.claimed, l.id = j.id, NEW d \in dirs'[j.id], NEW x \in 1..(j.at - 1)
               PROVE  d[FILES[x]] = Contents(n, l, log'[n], j.final)[FILES[x]]
    BY DEF BeingWritten
  <2>1. CASE n = m BY <1>3, <2>1
  <2>2. CASE n # m
    <3>1. j \in job[n] /\ l \in open[n] /\ d \in dirs[j.id] /\ log'[n] = log[n]
      BY <1>3, <2>2
    <3> QED BY <3>1 DEF BeingWritten
  <2> QED BY <2>1, <2>2
<1>4. ASSUME NEW m \in Monitors, \A n \in Monitors \ {m} : log'[n] = log[n],
             \A n \in Monitors \ {m} : job'[n] = job[n] /\ open'[n] \subseteq open[n],
             \A n \in Monitors \ {m} : \A k \in job[n] : k.claimed => dirs'[k.id] = dirs[k.id],
             \A j \in job'[m] : ~j.claimed
      PROVE  BeingWritten'
  <2> SUFFICES ASSUME NEW n \in Monitors, NEW j \in job'[n], NEW l \in open'[n],
                      j.claimed, l.id = j.id, NEW d \in dirs'[j.id], NEW x \in 1..(j.at - 1)
               PROVE  d[FILES[x]] = Contents(n, l, log'[n], j.final)[FILES[x]]
    BY DEF BeingWritten
  <2>1. n # m /\ j \in job[n] /\ l \in open[n] /\ d \in dirs[j.id] /\ log'[n] = log[n]
    BY <1>4
  <2> QED BY <2>1 DEF BeingWritten
<1>5. DOMAIN job = Monitors /\ DOMAIN log = Monitors /\ DOMAIN open = Monitors
  BY DEF MonitorsOK
<1>6. ASSUME NEW m \in Monitors, NEW e \in Events, Record(m, e) PROVE BeingWritten'
  <2>1. /\ \A n \in Monitors \ {m} : log'[n] = log[n] /\ job'[n] = job[n]
        /\ open' = open /\ dirs' = dirs
    BY <1>5, <1>6 DEF Record
  <2>2. \A j \in job'[m] : ~j.claimed BY <1>5, <1>6 DEF Record
  <2> QED BY <1>4, <2>1, <2>2
<1>7. ASSUME NEW m \in Monitors, Claim(m) PROVE BeingWritten'
  <2>1. ASSUME NEW j, NEW i, Claimed(m, j, i) PROVE BeingWritten'
    <3> DEFINE k == [j EXCEPT !.claimed = TRUE]
    <3>1. j \in Jobs /\ j.at = 1
      <4>1. Doing(job[m], open[m], log[m]) /\ j \in job[m] /\ ~j.claimed /\ job[m] \subseteq Jobs
        BY <2>1 DEF MonitorsOK, Claimed
      <4> QED BY <4>1 DEF Doing
    <3>2. k.claimed /\ k.at = 1 BY <3>1 DEF Jobs
    <3>3. /\ job'[m] = {k} /\ \A n \in Monitors \ {m} : job'[n] = job[n]
          /\ \A n \in Monitors \ {m} : open'[n] = open[n]
          /\ log' = log
      BY <1>5, <2>1 DEF Claimed
    <3>4. \A n \in Monitors \ {m} : \A x \in job[n] : x.claimed => dirs'[x.id] = dirs[x.id]
      <4> SUFFICES ASSUME NEW n \in Monitors \ {m}, NEW x \in job[n], x.claimed
                   PROVE  dirs'[x.id] = dirs[x.id]
        OBVIOUS
      <4>1. PICK l \in open[n] : l.id = x.id BY OneJob
      <4>2. dirs[x.id] # {} /\ x.id \in Ids BY <4>1, OneDir DEF OpenOK
      <4> QED BY <2>1, <4>2 DEF Claimed, DirsOK
    <3>5. 1..(k.at - 1) = {}
      <4> HIDE DEF k
      <4> QED BY <3>2
    <3> HIDE DEF k
    <3>6. k \in {x \in job'[m] : x.claimed} /\ \A x \in job'[m] : x = k BY <3>2, <3>3
    <3> QED BY <3>3, <3>4, <3>5, <3>6, <1>3
  <2>2. ASSUME NEW j, PassedOver(m, j) PROVE BeingWritten'
    <3> DEFINE k == [j EXCEPT !.id = @ + 1]
    <3>1. j \in Jobs BY <2>2, OneJob DEF PassedOver
    <3>2. ~k.claimed BY <2>2, <3>1 DEF PassedOver, Jobs
    <3>3. job'[m] = {k} /\ \A n \in Monitors \ {m} : job'[n] = job[n]
      BY <1>5, <2>2 DEF PassedOver
    <3> HIDE DEF k
    <3> QED BY <2>2, <3>2, <3>3, <1>1 DEF PassedOver
  <2> QED BY <1>7, <2>1, <2>2, ClaimDoes
<1>8. ASSUME NEW m \in Monitors, NEW i \in open[m], Finalise(m, i) PROVE BeingWritten'
  <2> DEFINE k == [id |-> i.id, claimed |-> TRUE, at |-> 1, final |-> TRUE]
  <2>1. /\ job'[m] = {k} /\ \A n \in Monitors \ {m} : job'[n] = job[n]
        /\ UNCHANGED <<log, open, dirs>>
    BY <1>5, <1>8 DEF Finalise
  <2>2. k.at = 1 OBVIOUS
  <2> HIDE DEF k
  <2> QED BY <2>1, <2>2, <1>1
<1>9. ASSUME NEW m \in Monitors, WriteFile(m) PROVE BeingWritten'
  <2>1. PICK j, i, d : WroteFile(m, j, i, d) BY <1>9, WriteFileDoes
  <2> DEFINE f == FILES[j.at]
             c == Contents(m, i, log[m], j.final)
             k == [j EXCEPT !.at = @ + 1]
             e == [d EXCEPT ![f] = c[f]]
  <2>2. j \in Jobs /\ j \in job[m] BY <2>1, OneJob DEF WroteFile
  <2>3. k.claimed /\ k.id = j.id /\ k.at = j.at + 1 /\ k.final = j.final /\ j.at \in Nat
    BY <2>1, <2>2 DEF WroteFile, Jobs
  <2>4. /\ job'[m] = {k} /\ \A n \in Monitors \ {m} : job'[n] = job[n]
        /\ open' = open /\ log' = log /\ dirs' = [dirs EXCEPT ![j.id] = {e}]
        /\ DOMAIN d = Names \cup {"checksums.txt"} /\ f \in Names /\ dirs[j.id] = {d}
        /\ i \in open[m] /\ i.id = j.id /\ j.id \in Ids /\ j.at \in 1..Len(FILES)
        /\ j.claimed
    BY <1>5, <2>1 DEF WroteFile
  <2>5. dirs'[j.id] = {e} /\ \A id \in Ids \ {j.id} : dirs'[id] = dirs[id]
    BY <2>4 DEF DirsOK
  <2>6. \A n \in Monitors \ {m} : \A x \in job[n] : x.claimed => dirs'[x.id] = dirs[x.id]
    <3> SUFFICES ASSUME NEW n \in Monitors \ {m}, NEW x \in job[n], x.claimed
                 PROVE  dirs'[x.id] = dirs[x.id]
      OBVIOUS
    <3>1. x.id # j.id BY <2>4, JobElsewhere
    <3>2. PICK l \in open[n] : l.id = x.id BY OneJob
    <3>3. x.id \in Ids BY <3>2, OneDir
    <3> QED BY <2>5, <3>1, <3>3
  <2> HIDE DEF c
  <2>7. ASSUME NEW x \in 1..j.at PROVE e[FILES[x]] = c[FILES[x]]
    <3>1. x \in 1..Len(FILES) BY <2>4
    <3>2. FILES[x] \in Names BY <3>1, FilesFacts
    <3>3. CASE FILES[x] = f BY <2>4, <3>2, <3>3
    <3>4. CASE FILES[x] # f
      <4>1. x # j.at BY <3>4
      <4>2. x \in 1..(j.at - 1) BY <2>3, <4>1
      <4>3. d[FILES[x]] = c[FILES[x]] BY <2>2, <2>4, <4>2 DEF BeingWritten, c
      <4> QED BY <2>4, <3>2, <3>4, <4>3
    <3> QED BY <3>3, <3>4
  <2>8. \A l \in open'[m] : l.id = k.id => l = i BY <2>3, <2>4 DEF OpenOK
  <2>9. k.at - 1 = j.at BY <2>3
  <2> HIDE DEF e, k
  <2>10. ASSUME NEW l \in open'[m], NEW y \in dirs'[k.id], NEW x \in 1..(k.at - 1),
                l.id = k.id
         PROVE  y[FILES[x]] = Contents(m, l, log'[m], k.final)[FILES[x]]
    <3>1. l = i /\ y = e /\ x \in 1..j.at BY <2>3, <2>5, <2>8, <2>9, <2>10
    <3> QED BY <2>3, <2>4, <2>7, <3>1 DEF c
  <2>11. k \in {x \in job'[m] : x.claimed} /\ \A x \in job'[m] : x = k BY <2>3, <2>4
  <2>12. /\ \A n \in Monitors \ {m} : log'[n] = log[n]
         /\ \A n \in Monitors \ {m} : job'[n] = job[n] /\ open'[n] \subseteq open[n]
    BY <2>4
  <2>13. \A l \in open'[m], y \in dirs'[k.id], x \in 1..(k.at - 1) : l.id = k.id =>
           y[FILES[x]] = Contents(m, l, log'[m], k.final)[FILES[x]]
    BY <2>10
  <2> QED BY <2>6, <2>11, <2>12, <2>13, <1>3, Zenon
<1>10. ASSUME NEW m \in Monitors, WriteChecksums(m) PROVE BeingWritten'
  <2>1. PICK j, i, d : WroteChecksums(m, j, i, d) BY <1>10, WriteChecksumsDoes
  <2>2. /\ job'[m] = {} /\ \A n \in Monitors \ {m} : job'[n] = job[n]
        /\ \A n \in Monitors : open'[n] \subseteq open[n]
        /\ log' = log /\ i \in open[m] /\ i.id = j.id
        /\ \A id \in Ids \ {j.id} : dirs'[id] = dirs[id]
    BY <1>5, <2>1 DEF WroteChecksums, DirsOK
  <2>3. \A n \in Monitors \ {m} : \A x \in job[n] : x.claimed => dirs'[x.id] = dirs[x.id]
    <3> SUFFICES ASSUME NEW n \in Monitors \ {m}, NEW x \in job[n], x.claimed
                 PROVE  dirs'[x.id] = dirs[x.id]
      OBVIOUS
    <3>1. x.id # j.id BY <2>2, JobElsewhere
    <3>2. PICK l \in open[n] : l.id = x.id BY OneJob
    <3>3. x.id \in Ids BY <3>2, OneDir
    <3> QED BY <2>2, <3>1, <3>3
  <2> QED BY <2>2, <2>3, <1>4
<1>11. ASSUME NEW id \in Ids, NEW f \in Names, EditFile(id, f) PROVE BeingWritten'
  <2>1. PICK d, to : FileEdited(id, f, d, to) BY <1>11, EditFileDoes
  <2>2. /\ \A x \in Ids \ {id} : dirs'[x] = dirs[x]
        /\ ~Writing(id) /\ log' = log /\ job' = job /\ open' = open
    BY <2>1 DEF FileEdited, DirsOK
  <2> SUFFICES ASSUME NEW n \in Monitors, NEW j \in job[n], NEW l \in open[n],
                      j.claimed, l.id = j.id, NEW e \in dirs'[j.id], NEW x \in 1..(j.at - 1)
               PROVE  e[FILES[x]] = Contents(n, l, log[n], j.final)[FILES[x]]
    BY <2>2 DEF BeingWritten
  <2>3. j.id # id BY <2>2 DEF Writing
  <2>4. j.id \in Ids BY OneDir
  <2>5. dirs'[j.id] = dirs[j.id] BY <2>2, <2>3, <2>4
  <2> QED BY <2>5 DEF BeingWritten
<1>12. ASSUME NEW m \in Monitors, WriteOut(m) \/ EditTimeline(m) PROVE BeingWritten'
  BY <1>2, <1>12 DEF WriteOut, EditTimeline
<1>13. ASSUME NEW id \in Ids, Begin(id) PROVE BeingWritten'
  BY <1>2, <1>13 DEF Begin, monitorVars
<1>14. ASSUME ReadFile PROVE BeingWritten' BY <1>2, <1>14 DEF ReadFile, monitorVars
<1>15. CASE UNCHANGED vars BY <1>2, <1>15 DEF vars
<1> QED
  BY <1>6, <1>7, <1>8, <1>9, <1>10, <1>11, <1>12, <1>13, <1>14, <1>15 DEF Next

LEMMA SettledStep ==
  ASSUME MonitorsOK, DirsOK, OpenOK, Settled, [Next]_vars
  PROVE  Settled'
<1> DEFINE Rests(x) ==  \* of a directory, in the next state
             ~Writing(x)' => \A d \in dirs'[x], f \in Names :
               d["checksums.txt"] # Absent /\ <<x, f>> \notin edited' =>
                 d[f] = d["checksums.txt"][f]
<1>1. ASSUME NEW x \in Ids, dirs'[x] = dirs[x], Writing(x) => Writing(x)',
             \A f \in Names : <<x, f>> \in edited => <<x, f>> \in edited'
      PROVE  Rests(x)
  BY <1>1 DEF Settled
<1>2. ASSUME \A x \in Ids : Rests(x) PROVE Settled' BY <1>2 DEF Settled
<1> HIDE DEF Rests
<1>3. ASSUME dirs' = dirs, \A x \in Ids : Writing(x) => Writing(x)',
             \A x \in Ids, f \in Names : <<x, f>> \in edited => <<x, f>> \in edited'
      PROVE  Settled'
  BY <1>1, <1>2, <1>3
<1>4. DOMAIN job = Monitors BY DEF MonitorsOK
<1>5. ASSUME NEW m \in Monitors, \A n \in Monitors \ {m} : job'[n] = job[n],
             \A j \in job[m] : ~j.claimed
      PROVE  \A x \in Ids : Writing(x) => Writing(x)'
  BY <1>5 DEF Writing
<1>6. ASSUME NEW m \in Monitors, NEW e \in Events, Record(m, e) PROVE Settled'
  <2>1. /\ dirs' = dirs /\ edited' = edited /\ job[m] = {}
        /\ \A n \in Monitors \ {m} : job'[n] = job[n]
    BY <1>4, <1>6 DEF Record
  <2> QED BY <2>1, <1>3, <1>5
<1>7. ASSUME NEW m \in Monitors, Claim(m) PROVE Settled'
  <2>1. ASSUME NEW j, NEW i, Claimed(m, j, i) PROVE Settled'
    <3>1. /\ job[m] = {j} /\ ~j.claimed /\ \A n \in Monitors \ {m} : job'[n] = job[n]
          /\ dirs'[j.id] = {NoFiles} /\ \A x \in Ids \ {j.id} : dirs'[x] = dirs[x]
          /\ edited' = edited
      BY <1>4, <2>1, OneJob DEF Claimed, DirsOK
    <3>2. NoFiles["checksums.txt"] = Absent BY DEF NoFiles
    <3>3. Rests(j.id) BY <3>1, <3>2 DEF Rests
    <3>4. \A x \in Ids : Writing(x) => Writing(x)' BY <3>1, <1>5
    <3>5. \A x \in Ids \ {j.id} : Rests(x) BY <1>1, <3>1, <3>4
    <3> QED BY <1>2, <3>3, <3>5
  <2>2. ASSUME NEW j, PassedOver(m, j) PROVE Settled'
    <3>1. /\ job[m] = {j} /\ ~j.claimed /\ \A n \in Monitors \ {m} : job'[n] = job[n]
          /\ dirs' = dirs /\ edited' = edited
      BY <1>4, <2>2, OneJob DEF PassedOver
    <3> QED BY <3>1, <1>3, <1>5
  <2> QED BY <1>7, <2>1, <2>2, ClaimDoes
<1>8. ASSUME NEW m \in Monitors, NEW i \in open[m], Finalise(m, i) PROVE Settled'
  <2>1. /\ dirs' = dirs /\ edited' = edited /\ job[m] = {}
        /\ \A n \in Monitors \ {m} : job'[n] = job[n]
    BY <1>4, <1>8 DEF Finalise
  <2> QED BY <2>1, <1>3, <1>5
<1>9. ASSUME NEW m \in Monitors, WriteFile(m) PROVE Settled'
  <2>1. PICK j, i, d : WroteFile(m, j, i, d) BY <1>9, WriteFileDoes
  <2> DEFINE k == [j EXCEPT !.at = @ + 1]
  <2>2. j \in Jobs /\ job[m] = {j} BY <2>1, OneJob DEF WroteFile
  <2>3. k.claimed /\ k.id = j.id BY <2>1, <2>2 DEF WroteFile, Jobs
  <2>4. /\ job'[m] = {k} /\ \A n \in Monitors \ {m} : job'[n] = job[n]
        /\ \A x \in Ids \ {j.id} : dirs'[x] = dirs[x]
        /\ edited' = edited \ {<<j.id, FILES[j.at]>>}
    BY <1>4, <2>1 DEF WroteFile, DirsOK
  <2> HIDE DEF k
  <2>5. Writing(j.id)' BY <2>3, <2>4 DEF Writing
  <2>6. Rests(j.id) BY <2>5 DEF Rests
  <2>7. ASSUME NEW x \in Ids \ {j.id} PROVE Rests(x)
    <3>1. Writing(x) => Writing(x)' BY <2>2, <2>4 DEF Writing
    <3>2. \A f \in Names : <<x, f>> \in edited => <<x, f>> \in edited' BY <2>4
    <3> QED BY <1>1, <2>4, <3>1, <3>2
  <2> QED BY <1>2, <2>6, <2>7
<1>10. ASSUME NEW m \in Monitors, WriteChecksums(m) PROVE Settled'
  <2>1. PICK j, i, d : WroteChecksums(m, j, i, d) BY <1>10, WriteChecksumsDoes
  <2> DEFINE s == [f \in Names |-> d[f]]
             e == [d EXCEPT !["checksums.txt"] = s]
  <2>2. job[m] = {j} BY <2>1, OneJob DEF WroteChecksums
  <2>3. /\ job'[m] = {} /\ \A n \in Monitors \ {m} : job'[n] = job[n]
        /\ dirs'[j.id] = {e} /\ \A x \in Ids \ {j.id} : dirs'[x] = dirs[x]
        /\ edited' = edited /\ DOMAIN d = Names \cup {"checksums.txt"}
    BY <1>4, <2>1 DEF WroteChecksums, DirsOK
  <2>4. \A f \in Names : s[f] = d[f] OBVIOUS
  <2> HIDE DEF s
  <2>5. e["checksums.txt"] = s /\ \A f \in Names : e[f] = d[f] BY <2>3, FilesFacts
  <2> HIDE DEF e
  <2>6. Rests(j.id) BY <2>3, <2>4, <2>5 DEF Rests
  <2>7. ASSUME NEW x \in Ids \ {j.id} PROVE Rests(x)
    <3>1. Writing(x) => Writing(x)' BY <2>2, <2>3 DEF Writing
    <3> QED BY <1>1, <2>3, <3>1
  <2> QED BY <1>2, <2>6, <2>7
<1>11. ASSUME NEW id \in Ids, NEW f \in Names, EditFile(id, f) PROVE Settled'
  <2>1. PICK d, to : FileEdited(id, f, d, to) BY <1>11, EditFileDoes
  <2> DEFINE e == [d EXCEPT ![f] = to]
  <2>2. /\ dirs[id] = {d} /\ dirs'[id] = {e} /\ \A x \in Ids \ {id} : dirs'[x] = dirs[x]
        /\ edited' = edited \cup {<<id, f>>} /\ job' = job /\ ~Writing(id)
        /\ DOMAIN d = Names \cup {"checksums.txt"}
    BY <2>1 DEF FileEdited, DirsOK
  <2>3. /\ e["checksums.txt"] = d["checksums.txt"]
        /\ \A g \in Names \ {f} : e[g] = d[g]
    BY <2>2, FilesFacts
  <2> HIDE DEF e
  <2>4. Rests(id) BY <2>2, <2>3 DEF Rests, Settled
  <2>5. \A x \in Ids : Writing(x) => Writing(x)' BY <2>2 DEF Writing
  <2>6. \A x \in Ids \ {id} : Rests(x) BY <1>1, <2>2, <2>5
  <2> QED BY <1>2, <2>4, <2>6
<1>12. ASSUME job' = job, dirs' = dirs,
              \A x \in Ids, f \in Names : <<x, f>> \in edited => <<x, f>> \in edited'
       PROVE  Settled'
  <2>1. \A x \in Ids : Writing(x) => Writing(x)' BY <1>12 DEF Writing
  <2> QED BY <1>3, <1>12, <2>1
<1>13. ASSUME NEW m \in Monitors, WriteOut(m) \/ EditTimeline(m) PROVE Settled'
  BY <1>12, <1>13 DEF WriteOut, EditTimeline
<1>14. ASSUME NEW id \in Ids, Begin(id) PROVE Settled'
  BY <1>12, <1>14 DEF Begin, monitorVars
<1>15. ASSUME ReadFile PROVE Settled' BY <1>12, <1>15 DEF ReadFile, monitorVars
<1>16. CASE UNCHANGED vars BY <1>12, <1>16 DEF vars
<1> QED
  BY <1>6, <1>7, <1>8, <1>9, <1>10, <1>11, <1>13, <1>14, <1>15, <1>16 DEF Next

-----------------------------------------------------------------------------
(* The reader.                                                             *)

LEMMA ReaderStep ==
  ASSUME MonitorsOK, DirsOK, OpenOK, Settled, ReaderOK, [Next]_vars
  PROVE  ReaderOK'
<1>0. \A r \in reader : Reads(r, dirs[r.id], log) /\ r.id \in Ids BY DEF ReaderOK, Reads
<1>1. ASSUME \A r \in reader' : Reads(r, dirs'[r.id], log') PROVE ReaderOK'
  BY <1>1 DEF ReaderOK
<1>2. ASSUME UNCHANGED <<log, dirs, reader>> PROVE ReaderOK' BY <1>0, <1>1, <1>2
<1>3. ASSUME NEW m \in Monitors, NEW e \in Events, Record(m, e) PROVE ReaderOK'
  <2>1. /\ dirs' = dirs /\ reader' = reader
        /\ log' = [log EXCEPT ![m] = Append(@, e)]
    BY <1>3 DEF Record
  <2>2. log \in [Monitors -> Seq(Events)] BY DEF MonitorsOK
  <2>3. \A s : Sealed(log, s) => Sealed(log', s) BY <2>1, <2>2, SealedGrows
  <2>4. \A r \in reader : Reads(r, dirs[r.id], log') BY <1>0, <2>3 DEF Reads
  <2> QED BY <1>1, <2>1, <2>4
<1>4. ASSUME NEW m \in Monitors, Claim(m) PROVE ReaderOK'
  <2>1. ASSUME NEW j, NEW i, Claimed(m, j, i) PROVE ReaderOK'
    <3>1. /\ dirs[j.id] = {} /\ \A x \in Ids \ {j.id} : dirs'[x] = dirs[x]
          /\ reader' = reader /\ log' = log
      BY <2>1 DEF Claimed, DirsOK
    <3>2. \A r \in reader : r.id # j.id BY <1>0, <3>1 DEF Reads
    <3>3. \A r \in reader : dirs'[r.id] = dirs[r.id] BY <1>0, <3>1, <3>2
    <3> QED BY <1>0, <1>1, <3>1, <3>3
  <2>2. ASSUME NEW j, PassedOver(m, j) PROVE ReaderOK' BY <1>2, <2>2 DEF PassedOver
  <2> QED BY <1>4, <2>1, <2>2, ClaimDoes
(* A directory is changed, which a verification of it is told.             *)
<1>5. ASSUME NEW x \in Ids, NEW e, dirs' = [dirs EXCEPT ![x] = {e}],
             reader' = Disturbed(x), log' = log
      PROVE  ReaderOK'
  <2>1. dirs'[x] = {e} /\ \A y \in Ids \ {x} : dirs'[y] = dirs[y] BY <1>5 DEF DirsOK
  <2>2. ASSUME NEW q \in reader' PROVE Reads(q, dirs'[q.id], log')
    <3>1. PICK r \in reader : q = IF r.id = x THEN [r EXCEPT !.calm = FALSE] ELSE r
      BY <1>5 DEF Disturbed
    <3>2. Reads(r, dirs[r.id], log) /\ r.id \in Ids BY <1>0
    <3>3. CASE r.id = x
      <4>1. q = [r EXCEPT !.calm = FALSE] BY <3>1, <3>3
      <4>2. DOMAIN r = {"id", "sums", "got", "at", "calm"} BY <3>2 DEF Reads
      <4>3. /\ DOMAIN q = DOMAIN r /\ q.id = r.id /\ q.sums = r.sums /\ q.got = r.got
            /\ q.at = r.at /\ q.calm = FALSE
        BY <4>1, <4>2
      <4>4. dirs'[q.id] # {} BY <2>1, <3>3, <4>3
      <4> QED BY <1>5, <3>2, <4>3, <4>4 DEF Reads
    <3>4. CASE r.id # x
      <4>1. q = r /\ dirs'[q.id] = dirs[r.id] BY <2>1, <3>1, <3>2, <3>4
      <4> QED BY <1>5, <3>2, <4>1
    <3> QED BY <3>3, <3>4
  <2> QED BY <1>1, <2>2
<1>6. ASSUME NEW m \in Monitors, WriteFile(m) PROVE ReaderOK'
  <2>1. PICK j, i, d : WroteFile(m, j, i, d) BY <1>6, WriteFileDoes
  <2> DEFINE e == [d EXCEPT ![FILES[j.at]] = Contents(m, i, log[m], j.final)[FILES[j.at]]]
  <2>2. /\ j.id \in Ids /\ dirs' = [dirs EXCEPT ![j.id] = {e}]
        /\ reader' = Disturbed(j.id) /\ log' = log
    BY <2>1 DEF WroteFile
  <2> HIDE DEF e
  <2> QED BY <2>2, <1>5
<1>7. ASSUME NEW m \in Monitors, WriteChecksums(m) PROVE ReaderOK'
  <2>1. PICK j, i, d : WroteChecksums(m, j, i, d) BY <1>7, WriteChecksumsDoes
  <2> DEFINE e == [d EXCEPT !["checksums.txt"] = [f \in Names |-> d[f]]]
  <2>2. /\ j.id \in Ids /\ dirs' = [dirs EXCEPT ![j.id] = {e}]
        /\ reader' = Disturbed(j.id) /\ log' = log
    BY <2>1 DEF WroteChecksums
  <2> HIDE DEF e
  <2> QED BY <2>2, <1>5
<1>8. ASSUME NEW id \in Ids, NEW f \in Names, EditFile(id, f) PROVE ReaderOK'
  <2>1. PICK d, to : FileEdited(id, f, d, to) BY <1>8, EditFileDoes
  <2> DEFINE e == [d EXCEPT ![f] = to]
  <2>2. /\ dirs' = [dirs EXCEPT ![id] = {e}] /\ reader' = Disturbed(id) /\ log' = log
    BY <2>1 DEF FileEdited
  <2> HIDE DEF e
  <2> QED BY <2>2, <1>5
<1>9. ASSUME NEW id \in Ids, Begin(id) PROVE ReaderOK'
  <2>1. PICK d \in dirs[id] :
          /\ d["checksums.txt"] # Absent
          /\ reader' = {[id |-> id, sums |-> d["checksums.txt"], got |-> <<>>, at |-> 1,
                         calm |-> ~Writing(id) /\ \A f \in Names : <<id, f>> \notin edited]}
    BY <1>9 DEF Begin
  <2> DEFINE calm == ~Writing(id) /\ \A f \in Names : <<id, f>> \notin edited
             q == [id |-> id, sums |-> d["checksums.txt"], got |-> <<>>, at |-> 1,
                   calm |-> calm]
  <2>2. reader' = {q} BY <2>1
  <2>3. log' = log /\ dirs' = dirs BY <1>9 DEF Begin, monitorVars
  <2>4. Sealed(log, d["checksums.txt"]) /\ dirs[id] = {d} BY <2>1 DEF DirsOK
  <2>5. calm => \A f \in Names : d[f] = d["checksums.txt"][f] BY <2>1 DEF Settled
  <2> HIDE DEF calm
  <2>6. /\ DOMAIN q = {"id", "sums", "got", "at", "calm"} /\ q.id = id
        /\ q.sums = d["checksums.txt"] /\ q.got = <<>> /\ q.at = 1 /\ q.calm = calm
    OBVIOUS
  <2> HIDE DEF q
  <2>7. DOMAIN q.got = {} /\ 1..(q.at - 1) = {} /\ ~(q.at > 1) BY <2>6
  <2>8. DOMAIN q.got = {FILES[k] : k \in 1..(q.at - 1)} BY <2>7
  <2>9. q.at \in 1..(Len(FILES) + 1) BY <2>6, FilesFacts
  <2>10. Reads(q, dirs[id], log)
    BY <2>4, <2>5, <2>6, <2>7, <2>8, <2>9 DEF Reads
  <2> QED BY <1>1, <2>2, <2>3, <2>6, <2>10
<1>10. ASSUME ReadFile PROVE ReaderOK'
  <2>1. PICK r \in reader :
          /\ r.at <= Len(FILES)
          /\ \E d \in dirs[r.id] :
               reader' = {[r EXCEPT !.at = @ + 1,
                 !.got = [f \in DOMAIN r.got \cup {FILES[r.at]} |->
                            IF f = FILES[r.at] THEN d[f] ELSE r.got[f]]]}
    BY <1>10, Zenon DEF ReadFile
  <2>2. PICK d \in dirs[r.id] :
          reader' = {[r EXCEPT !.at = @ + 1,
            !.got = [f \in DOMAIN r.got \cup {FILES[r.at]} |->
                       IF f = FILES[r.at] THEN d[f] ELSE r.got[f]]]}
    BY <2>1, Zenon
  <2> DEFINE got == [f \in DOMAIN r.got \cup {FILES[r.at]} |->
                       IF f = FILES[r.at] THEN d[f] ELSE r.got[f]]
             q == [r EXCEPT !.at = @ + 1, !.got = got]
  <2>3. reader' = {q} BY <2>2, Zenon
  <2>4. log' = log /\ dirs' = dirs BY <1>10, Zenon DEF ReadFile, monitorVars
  <2>5. Reads(r, dirs[r.id], log) BY <1>0
  <2>6. /\ DOMAIN got = DOMAIN r.got \cup {FILES[r.at]}
        /\ got = [f \in DOMAIN got |-> got[f]]
        /\ \A f \in DOMAIN got : got[f] = IF f = FILES[r.at] THEN d[f] ELSE r.got[f]
    OBVIOUS
  <2> HIDE DEF got
  <2>7. r.at \in 1..Len(FILES)
    <3>1. r.at <= Len(FILES) BY <2>1, Zenon
    <3> QED BY <2>5, <3>1, FilesFacts DEF Reads
  <2>8. FILES[r.at] \in Names BY <2>7, FilesFacts
  <2>9. /\ DOMAIN q = {"id", "sums", "got", "at", "calm"} /\ q.id = r.id
        /\ q.sums = r.sums /\ q.calm = r.calm /\ q.at = r.at + 1 /\ q.got = got
    <3>1. DOMAIN r = {"id", "sums", "got", "at", "calm"} BY <2>5 DEF Reads
    <3> QED BY <3>1
  <2> HIDE DEF q
  <2>10. DOMAIN got = {FILES[k] : k \in 1..(q.at - 1)}
    <3>1. q.at - 1 = r.at BY <2>7, <2>9
    <3>2. 1..r.at = 1..(r.at - 1) \cup {r.at} BY <2>7
    <3>3. DOMAIN r.got = {FILES[k] : k \in 1..(r.at - 1)} BY <2>5 DEF Reads
    <3> QED BY <2>6, <3>1, <3>2, <3>3
  <2>11. q.at \in 1..(Len(FILES) + 1) BY <2>7, <2>9, FilesFacts
  <2>12. r.calm => \A f \in DOMAIN got : got[f] = r.sums[f]
    <3> SUFFICES ASSUME r.calm, NEW f \in DOMAIN got PROVE got[f] = r.sums[f] OBVIOUS
    <3>1. CASE f = FILES[r.at] BY <2>5, <2>6, <2>8, <3>1 DEF Reads
    <3>2. CASE f # FILES[r.at] BY <2>5, <2>6, <3>2 DEF Reads
    <3> QED BY <3>1, <3>2
  <2>13. Reads(q, dirs[q.id], log)
    BY <2>5, <2>6, <2>9, <2>10, <2>11, <2>12 DEF Reads
  <2> QED BY <1>1, <2>3, <2>4, <2>13
<1>11. ASSUME NEW m \in Monitors, WriteOut(m) \/ EditTimeline(m) PROVE ReaderOK'
  BY <1>2, <1>11 DEF WriteOut, EditTimeline
<1>12. ASSUME NEW m \in Monitors, NEW i \in open[m], Finalise(m, i) PROVE ReaderOK'
  BY <1>2, <1>12 DEF Finalise
<1>13. CASE UNCHANGED vars BY <1>2, <1>13 DEF vars
<1> QED
  BY <1>3, <1>4, <1>6, <1>7, <1>8, <1>9, <1>10, <1>11, <1>12, <1>13 DEF Next

-----------------------------------------------------------------------------
(* The theorems.                                                           *)

LEMMA InvInit == Init => Inv
<1> SUFFICES ASSUME Init PROVE Inv OBVIOUS
<1> USE DEF Init
<1>1. MonitorsOK
  <2>1. <<>> \in Seq(Events) OBVIOUS
  <2>2. Doing({}, {}, <<>>) BY DEF Doing
  <2> QED BY <2>1, <2>2, EvidenceBounds DEF MonitorsOK
<1>2. TimelineOK
  <2> DEFINE s == [lines |-> 0, half |-> FALSE]
  <2>1. s \in [lines : Nat, half : BOOLEAN] OBVIOUS
  <2>2. OwnLines(<<>>, <<>>) BY DEF OwnLines, Range
  <2>3. AsWritten(<<>>, s, <<>>) BY DEF AsWritten
  <2>4. s.lines + (IF s.half THEN 1 ELSE 0) <= Len(<<>>) OBVIOUS
  <2> HIDE DEF s
  <2>5. sent = [m \in Monitors |-> s] BY DEF s
  <2> QED BY <2>1, <2>2, <2>3, <2>4, <2>5 DEF TimelineOK
<1>3. DirsOK /\ OpenOK /\ OwnersOK BY DEF DirsOK, OpenOK, OwnersOK
<1>4. BeingWritten /\ Settled /\ ReaderOK BY DEF BeingWritten, Settled, ReaderOK
<1> QED BY <1>1, <1>2, <1>3, <1>4 DEF Inv

LEMMA InvStep == Inv /\ [Next]_vars => Inv'
<1> SUFFICES ASSUME Inv, [Next]_vars PROVE Inv' OBVIOUS
<1>0. /\ MonitorsOK /\ TimelineOK /\ DirsOK /\ OpenOK /\ OwnersOK
      /\ BeingWritten /\ Settled /\ ReaderOK
  BY DEF Inv
<1>1. MonitorsOK' BY <1>0, MonitorsStep
<1>2. TimelineOK' BY <1>0, TimelineStep
<1>3. DirsOK' BY <1>0, DirsStep
<1>4. OpenOK' BY <1>0, OpenStep
<1>5. OwnersOK' BY <1>0, OwnersStep
<1>6. BeingWritten' BY <1>0, BeingWrittenStep
<1>7. Settled' BY <1>0, SettledStep
<1>8. ReaderOK' BY <1>0, ReaderStep
<1> QED BY <1>1, <1>2, <1>3, <1>4, <1>5, <1>6, <1>7, <1>8 DEF Inv

LEMMA InvAlways == Spec => []Inv
<1> QED BY InvInit, InvStep, PTL DEF Spec

LEMMA InvTypes == Inv => TypeOK
<1> SUFFICES ASSUME Inv PROVE TypeOK OBVIOUS
<1>1. limit \in Limits /\ edits \in 0..MaxEdits BY DEF Inv, MonitorsOK
<1>2. ASSUME NEW m \in Monitors
      PROVE  /\ log[m] \in Seq(Events)
             /\ sent[m] \in [lines : 0..Len(log[m]), half : BOOLEAN]
  <2>1. log[m] \in Seq(Events) BY DEF Inv, MonitorsOK
  <2>2. /\ sent[m] \in [lines : Nat, half : BOOLEAN]
        /\ sent[m].lines + (IF sent[m].half THEN 1 ELSE 0) <= Len(log[m])
    BY DEF Inv, TimelineOK
  <2>3. Len(log[m]) \in Nat BY <2>1
  <2>4. sent[m].lines <= Len(log[m])
    <3>1. CASE sent[m].half BY <2>2, <2>3, <3>1
    <3>2. CASE ~sent[m].half BY <2>2, <2>3, <3>2
    <3> QED BY <3>1, <3>2
  <2> QED BY <2>1, <2>2, <2>3, <2>4
<1>3. ASSUME NEW m \in Monitors PROVE job[m] \subseteq Jobs /\ Cardinality(job[m]) <= 1
  <2>1. job[m] \subseteq Jobs /\ Doing(job[m], open[m], log[m]) BY DEF Inv, MonitorsOK
  <2>2. CASE job[m] = {} BY <2>1, <2>2, FS_EmptySet
  <2>3. CASE \E j \in Jobs : job[m] = {j}
    <3>1. Cardinality(job[m]) = 1 BY <2>3, FS_Singleton
    <3> QED BY <2>1, <3>1
  <2> QED BY <2>1, <2>2, <2>3 DEF Doing
<1>4. ASSUME NEW m \in Monitors, NEW i \in open[m] PROVE i.id \in Ids /\ i.first <= i.trigger
  BY DEF Inv, MonitorsOK, Incidents
<1>5. \A m \in Monitors : \A n \in Monitors \ {m} : \A i \in open[m], k \in open[n] : i.id # k.id
  BY DEF Inv, OpenOK
<1>6. ASSUME NEW id \in Ids, NEW d \in dirs[id]
      PROVE  \/ d["policy.yaml"] \in {Absent, Edited} \/ d["incident.json"] \in {Absent, Edited}
             \/ d["policy.yaml"] = <<d["incident.json"].by>>
  <2>1. PICK m \in Monitors : Owns(m, id) BY DEF Inv, OwnersOK
  <2> QED BY <2>1 DEF Owns
<1> QED BY <1>1, <1>2, <1>3, <1>4, <1>5, <1>6 DEF TypeOK

(* Type correctness; a monitor writes one thing at a time, and "two        *)
(* monitors cannot claim the same id" (incident.rs:65), so that every      *)
(* bundle names the monitor whose policy is in it.                         *)
THEOREM TypeCorrect == Spec => []TypeOK
<1> QED BY InvAlways, InvTypes, PTL

(* However a timeline was edited, if `verify' finds it intact its records  *)
(* are a beginning of what its monitor recorded; and one that nobody       *)
(* edited is found intact unless its last line is torn (store.rs:13).      *)
THEOREM TimelineIsTrusted == Spec => []ChainIsPrefix
<1>1. Inv => ChainIsPrefix BY TimelinesVerify DEF Inv
<1> QED BY <1>1, InvAlways, PTL

(* Every recorded process is in the table, and in the tree or too deep.    *)
LEMMA ProcessPlaced ==
  ASSUME NEW events \in Seq(Events), NEW k \in 1..Len(events)
  PROVE  LET p == events[k].pid
         IN p \in ProcessTree(Table(events)) \/ Deep(Table(events), p)
<1> DEFINE p == events[k].pid
<1>1. DOMAIN Table(events) = {events[i].pid : i \in 1..Len(events)} BY DEF Table
<1>2. p \in DOMAIN Table(events) BY <1>1
<1> QED BY <1>2, Outside

LEMMA InvWhole == Inv => VerifiedIsWhole
<1> SUFFICES ASSUME Inv, NEW r \in reader
             PROVE  /\ r.calm => Bad(r) = {}
                    /\ r.at > Len(FILES) /\ Bad(r) = {} =>
                         LET inc    == r.got["incident.json"]
                             events == SubSeq(log[inc.by], 1, inc.recorded)
                             table  == Table(events)
                         IN /\ r.got = Contents(inc.by, inc.incident, events, inc.final)
                            /\ \A k \in 1..Len(r.got["timeline.jsonl"]) :
                                 LET p == r.got["timeline.jsonl"][k].pid
                                 IN p \in r.got["process_tree.json"] \/ Deep(table, p)
  BY Zenon DEF VerifiedIsWhole
<1>0. Reads(r, dirs[r.id], log) BY DEF Inv, ReaderOK
<1>1. r.calm => Bad(r) = {} BY <1>0 DEF Reads, Bad
<1>2. ASSUME r.at > Len(FILES), Bad(r) = {}
      PROVE  LET inc    == r.got["incident.json"]
                 events == SubSeq(log[inc.by], 1, inc.recorded)
                 table  == Table(events)
             IN /\ r.got = Contents(inc.by, inc.incident, events, inc.final)
                /\ \A k \in 1..Len(r.got["timeline.jsonl"]) :
                     LET p == r.got["timeline.jsonl"][k].pid
                     IN p \in r.got["process_tree.json"] \/ Deep(table, p)
  <2> DEFINE s      == r.sums
             inc    == s["incident.json"]
             events == SubSeq(log[inc.by], 1, inc.recorded)
             c      == Contents(inc.by, inc.incident, events, inc.final)
  <2>1. r.at = Len(FILES) + 1 /\ r.at - 1 = Len(FILES) /\ r.at > 1
    <3>1. Len(FILES) > 0
      <4>1. "incident.json" \in {FILES[k] : k \in 1..Len(FILES)} BY FilesFacts
      <4> QED BY <4>1, FilesFacts
    <3> QED BY <1>0, <1>2, <3>1, FilesFacts DEF Reads
  <2>2. DOMAIN r.got = Names /\ r.got = [f \in Names |-> r.got[f]]
    BY <1>0, <2>1, FilesFacts DEF Reads
  <2>3. \A f \in Names : r.got[f] = s[f] BY <1>2, <2>2 DEF Bad
  <2>4. /\ inc.by \in Monitors /\ inc.recorded \in 0..Len(log[inc.by])
        /\ inc.incident.first \in Nat \ {0} /\ s = c
    <3>1. Sealed(log, s) BY <1>0 DEF Reads
    <3> HIDE DEF s
    <3> QED BY <3>1, Zenon DEF Sealed
  <2>5. c = [f \in Names |-> c[f]]
    <3> DEFINE by == inc.by
               i == inc.incident
               final == inc.final
    <3> HIDE DEF inc, events, by, i, final
    <3>1. c = Contents(by, i, events, final) BY DEF by, i, final
    <3> HIDE DEF c
    <3> QED BY <3>1, ContentsFunction
  <2>6. r.got = c
    <3> HIDE DEF c
    <3>1. \A f \in Names : r.got[f] = c[f] BY <2>3, <2>4
    <3> QED BY <2>2, <2>5, <3>1
  <2>7. r.got["incident.json"] = inc BY <2>3, FilesFacts
  <2>8. log[inc.by] \in Seq(Events) BY <2>4 DEF Inv, MonitorsOK
  <2>9. events \in Seq(Events)
    <3> HIDE DEF inc
    <3> QED BY <2>4, <2>8, Beginning
  <2> DEFINE first == inc.incident.first
             context == SubSeq(events, first, Len(events))
  <2>10. c["timeline.jsonl"] = context /\ c["process_tree.json"] = ProcessTree(Table(events))
    <3> HIDE DEF events, inc
    <3> DEFINE by == inc.by
               i == inc.incident
               final == inc.final
    <3> HIDE DEF by, i, final
    <3>1. /\ Contents(by, i, events, final)["timeline.jsonl"] =
               SubSeq(events, i.first, Len(events))
          /\ Contents(by, i, events, final)["process_tree.json"] = ProcessTree(Table(events))
      BY ContentsTimeline, ContentsTree
    <3> QED BY <3>1, Zenon DEF by, i, final
  <2>11. r.got["timeline.jsonl"] = context
         /\ r.got["process_tree.json"] = ProcessTree(Table(events))
    <3> HIDE DEF c
    <3> QED BY <2>6, <2>10
  <2> HIDE DEF events, inc
  <2>12. ASSUME NEW k \in 1..Len(context)
         PROVE  LET p == context[k].pid
                IN p \in ProcessTree(Table(events)) \/ Deep(Table(events), p)
    <3>1. Len(events) \in Nat /\ first \in Nat \ {0} BY <2>4, <2>9
    <3>2. \A i \in first..Len(events) : events[i] \in Events BY <2>9, <3>1
    <3>3. /\ Len(context) = IF first <= Len(events) THEN Len(events) - first + 1 ELSE 0
          /\ \A i \in 1..(Len(events) - first + 1) : context[i] = events[first + i - 1]
      BY <3>1, <3>2, SubSeqProperties, first \in Int, Len(events) \in Int
    <3>4. first <= Len(events) /\ k \in 1..(Len(events) - first + 1)
      <4>1. CASE first <= Len(events) BY <3>1, <3>3, <4>1
      <4>2. CASE ~(first <= Len(events)) BY <3>1, <3>3, <4>2
      <4> QED BY <4>1, <4>2
    <3>5. context[k] = events[first + k - 1] /\ first + k - 1 \in 1..Len(events)
      BY <3>1, <3>3, <3>4
    <3> HIDE DEF context
    <3> QED BY <2>9, <3>5, ProcessPlaced
  <2> HIDE DEF c, context
  <2>13. /\ r.got = Contents(inc.by, inc.incident, events, inc.final)
         /\ \A k \in 1..Len(r.got["timeline.jsonl"]) :
              LET p == r.got["timeline.jsonl"][k].pid
              IN p \in r.got["process_tree.json"] \/ Deep(Table(events), p)
    BY <2>6, <2>11, <2>12 DEF c
  <2> QED BY <2>7, <2>13, Zenon DEF events
<1> QED BY <1>1, <1>2, Zenon

(* A bundle that a reader found unmodified, however its reading interleaved*)
(* with a rewrite, is what one write() made, and every process of its      *)
(* timeline is in its tree unless it is too deep; and a bundle that nobody *)
(* was writing or had edited is never found modified (incident.rs:198).    *)
THEOREM BundleIsWhole == Spec => []VerifiedIsWhole
<1> QED BY InvAlways, InvWhole, PTL
=============================================================================

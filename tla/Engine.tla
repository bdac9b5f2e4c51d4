------------------------------- MODULE Engine ------------------------------
(***************************************************************************)
(* Policy evaluation, killline-core/src/engine.rs: what Engine::process    *)
(* makes of the observations that the decoder hands on.  Observations of   *)
(* one thread come in the order of its calls (Decoder, ThreadOrder); those *)
(* of different threads come in any order, each with the time of its call. *)
(*                                                                         *)
(* An observation carries, as `facts', which of the policy's lists its     *)
(* path, program, address or name is on and what its arguments say; the    *)
(* decision functions are translated over these facts.  `call' numbers the *)
(* system calls and `hooked' says whether an open has an entry record of   *)
(* its own; both are looked at by the properties only.                     *)
(***************************************************************************)
EXTENDS Anomaly

CONSTANTS
  Tids,
  Agents,
  Shapes,          \* the calls each agent makes: sequences of observations
  Denied,          \* the toggles set to deny: privileged, credentials,
                   \* metadata, runtime
  NetworkMode,     \* "deny", "allowlist" or "allow"
  AllowLocalhost, ListsPrograms,  \* network.allow_localhost; processes.allow
                                  \* is not empty
  WindowsHost,     \* Platform::Windows
  AnomalyEnabled, MonitorKnown,
  AttributionSecs, \* DNS_ATTRIBUTION_SECS
  MaxDns,          \* queries remembered
  CorrelationSecs, History, \* CORRELATION_SECS, HISTORY
  ManyReads,       \* file reads that make a data-collection pattern
  MaxCalls, MaxDrops, MaxTime \* bounds of each agent: calls, dropped
                              \* observations, time

ASSUME EngineBounds ==
  /\ AttributionSecs \in Nat /\ MaxDns \in Nat \ {0}
  /\ CorrelationSecs \in Nat /\ History \in Nat \ {0}
  /\ ManyReads \in Nat \ {0}
  /\ MaxCalls \in [Agents -> Nat] /\ MaxDrops \in [Agents -> Nat]
  /\ MaxTime \in [Agents -> Nat]
ASSUME EngineMode == NetworkMode \in {"deny", "allowlist", "allow"}

Kinds == {"exec", "open", "unlink", "rename", "chmod", "net", "dns", "unix",
          "privileged", "capset", "kill", "exit", "other"}

(* What is known of a path, program, address or name, and of arguments.    *)
Facts == {"allow", "allow_read", "allow_write", "deny", "runtime_read", "runtime_write",
          "escape", "escape_proc", "other_proc", "credential", "credential_proc",
          "credential_allow", "runtime_socket", "unresolved", "ancestor", "untrusted",
          "benign", "denied_program", "privilege_tool", "listed_program", "missing",
          "loopback", "port0", "metadata", "cidr", "domain", "setuid", "monitor",
          "everyone"}

Observations ==
  [kind : Kinds, path : Names, facts : SUBSET Facts, to : SUBSET Facts, op : STRING,
   res : STRING, setup : BOOLEAN, hooked : BOOLEAN, outcome : STRING, call : Nat,
   ts : Nat]

(* kl_file_open and decode(): the kernel's account of an open or of        *)
(* opening the program of an exec.  It says "write" of a descriptor that   *)
(* can be written only; the entry's flags may say more (open(2) with       *)
(* O_CREAT) or less (kl_openat2 reads them from the caller's memory and    *)
(* does not look whether that failed).                                     *)
Account(first, second) ==
  /\ first.res # "kernel" /\ second.kind = "open" /\ second.res = "kernel"
  /\ \/ first.kind = "open" /\ first.setup = second.setup /\ second.hooked
     \/ first.kind = "exec" /\ second.op = "read" /\ ~second.hooked

(* A call gives one record, or two if it opens a file: that of its entry   *)
(* and the kernel's account.  An open that no hook sees the entry of, one  *)
(* of io_uring's or by file handle, gives the account alone.               *)
ShapeOfCall(s) ==
  \/ Len(s) = 1 /\ (s[1].res = "kernel" => s[1].kind = "open" /\ ~s[1].hooked)
  \/ Len(s) = 2 /\ Account(s[1], s[2])

(* Policies are about paths: those that opens name have the same facts,    *)
(* but for whose /proc they are in.                                        *)
ASSUME EngineShapes ==
  \A a \in Agents :
    /\ \A s \in Shapes[a] :
         s \in Seq(Observations) /\ ShapeOfCall(s)
    /\ \A s, u \in Shapes[a] : \A i \in 1..Len(s), j \in 1..Len(u) :
         s[i].kind = "open" /\ u[j].kind = "open" /\ s[i].path = u[j].path =>
           s[i].facts \ {"other_proc"} = u[j].facts \ {"other_proc"}

Verdicts == {"allowed", "violation", "anomaly"}

VARIABLES
  agent,           \* the monitored agent
  clock, calls,    \* the time; the number of calls made
  inbox,           \* per thread, observations on their way to the engine
  drops,
  events,          \* what process() returned, in order; seq is the position
  lastOpen,        \* last_open: per thread, {} or the set of one record
  dns,             \* allowed_dns: times of allowed queries
  history,         \* the events that correlate() looks at
  detector,
  silenced         \* the observations process() returned nothing for

vars == <<agent, clock, calls, inbox, drops, events, lastOpen, dns, history,
          detector, silenced>>

Init ==
  /\ agent \in Agents /\ clock = 0 /\ calls = 0 /\ inbox = [t \in Tids |-> <<>>] /\ drops = 0
  /\ events = <<>> /\ lastOpen = [t \in Tids |-> {}] /\ dns = <<>>
  /\ history = <<>> /\ detector = NewDetector /\ silenced = {}

-----------------------------------------------------------------------------
(* Decisions.                                                              *)

Decision(verdict, category, note) ==
  [verdict |-> verdict, category |-> category, note |-> note]
Allow(category)   == Decision("allowed", category, "")
Violate(category) == Decision("violation", category, "")
AllowIf(p, category) == IF p THEN Allow(category) ELSE Violate(category)

(* Faulty: a writable path is not made readable.                           *)
CompiledApart(f) ==
  f \cup (IF f \cap {"allow", "allow_read"} # {} THEN {"read"} ELSE {})
    \cup (IF f \cap {"allow", "allow_write"} # {} THEN {"write"} ELSE {})

(* Policy::compile_for: "Writable implies readable."                       *)
Compiled(f) ==
  f \cup (IF f \cap {"allow", "allow_read", "allow_write"} # {}
          THEN {"read"} ELSE {})
    \cup (IF f \cap {"allow", "allow_write"} # {} THEN {"write"} ELSE {})

Privileged(category) ==
  IF "privileged" \in Denied THEN Violate(category)
  ELSE Decision("anomaly", category, "")

(* Rules for /proc/<pid>/... hold for lexical paths of other processes.    *)
ProcRule(f, res) == res # "kernel" /\ "other_proc" \in f

DecideFile(facts, access, res) ==
  LET f == Compiled(facts)
      escape == "escape" \in f \/ ("escape_proc" \in f /\ ProcRule(f, res))
      credential == /\ "credentials" \in Denied /\ "credential_allow" \notin f
                    /\ \/ "credential" \in f
                       \/ "credential_proc" \in f /\ ProcRule(f, res)
  IN IF "unresolved" \in f THEN Allow("filesystem")
     ELSE IF escape THEN Violate("escape")
     ELSE IF "runtime_socket" \in f /\ "runtime" \in Denied
          THEN Violate("runtime")
     ELSE IF credential THEN Violate("credential")
     ELSE IF "deny" \in f THEN Violate("filesystem")
     ELSE IF access = "write"
          THEN AllowIf(f \cap {"write", "runtime_write"} # {}, "filesystem")
     ELSE IF "read" \in f \/ (WindowsHost /\ "ancestor" \in f)
          THEN Allow("filesystem")
     ELSE IF "runtime_read" \in f
          THEN Decision("allowed", "filesystem", "runtime_read")
     ELSE Violate("filesystem")

(* unlink, chmod and both ends of a rename.                                *)
DecideMutation(facts) ==
  LET d == DecideFile(facts, "write", "lexical")
  IN IF d.verdict = "violation" THEN d ELSE Allow("filesystem")

DecideExec(o) ==
  IF "denied_program" \in o.facts THEN Violate("process")
  ELSE IF "privileged" \in Denied /\ "privilege_tool" \in o.facts
       THEN Violate("privilege")
  ELSE AllowIf("missing" \in o.facts \/ o.outcome = "enoent" \/ ~ListsPrograms
                 \/ "listed_program" \in o.facts, "process")

(* Faulty: only the latest query is looked at.                             *)
AttributedLatest(now) == dns # <<>> /\ now - dns[Len(dns)] <= AttributionSecs

(* An allowed query was made at most AttributionSecs before `now'.         *)
Attributed(now) ==
  \E i \in 1..Len(dns) : now - dns[i] <= AttributionSecs

DecideNet(o) ==
  IF o.op = "bind"
  THEN AllowIf("loopback" \in o.facts \/ "port0" \in o.facts
                 \/ NetworkMode # "deny", "network")
  ELSE IF "metadata" \in o.facts
       THEN AllowIf("metadata" \notin Denied, "metadata")
  ELSE IF "loopback" \in o.facts
       THEN AllowIf(AllowLocalhost \/ NetworkMode = "allow", "network")
  ELSE IF NetworkMode = "allowlist" /\ "cidr" \notin o.facts
       THEN IF Attributed(o.ts) THEN Decision("allowed", "network", "attributed")
            ELSE Decision("violation", "network", "unlisted")
  ELSE AllowIf(NetworkMode # "deny", "network")

DecideDns(o) ==
  IF "metadata" \in o.facts /\ "metadata" \in Denied THEN Violate("metadata")
  ELSE IF NetworkMode = "allowlist" /\ "domain" \in o.facts
       THEN Decision("allowed", "dns", "remembered")
  ELSE AllowIf(NetworkMode = "allow", "dns")

(* decide().  "privileged" stands for mount, umount, chroot, pivot_root,   *)
(* setns, bpf, module loading, raw sockets, unshare of a namespace, ptrace *)
(* of another process and setuid to root; "other" for the harmless forms.  *)
Decide(o) ==
  IF o.setup THEN Allow("process")
  ELSE CASE o.kind = "exec" -> DecideExec(o)
         [] o.kind = "open" -> DecideFile(o.facts, o.op, o.res)
         [] o.kind = "unlink" -> DecideMutation(o.facts)
         [] o.kind = "rename" ->
              IF DecideMutation(o.facts).verdict = "violation"
              THEN DecideMutation(o.facts) ELSE DecideMutation(o.to)
         [] o.kind = "chmod" ->
              IF "setuid" \in o.facts /\ "privileged" \in Denied
              THEN Violate("privilege") ELSE DecideMutation(o.facts)
         [] o.kind = "net" -> DecideNet(o)
         [] o.kind = "dns" -> DecideDns(o)
         [] o.kind = "unix" ->
              AllowIf("runtime_socket" \notin o.facts \/ "runtime" \notin Denied,
                      "runtime")
         [] o.kind = "privileged" -> Privileged("privilege")
         [] o.kind = "capset" ->
              IF "privileged" \in Denied
              THEN Decision("anomaly", "privilege", "") ELSE Allow("privilege")
         [] o.kind = "kill" ->
              IF "monitor" \in o.facts /\ MonitorKnown THEN Violate("tamper")
              ELSE IF "everyone" \in o.facts
                   THEN Decision("anomaly", "process", "")
              ELSE Allow("process")
         [] OTHER -> Allow("process")

(* A refused write of an interpreter's cache is not held against anybody.  *)
Judged(o) ==
  LET d == Decide(o)
  IN IF /\ d.verdict = "violation" /\ o.kind = "open" /\ o.op = "write"
        /\ "benign" \in o.facts /\ o.outcome \in {"failed", "enoent"}
     THEN Decision("allowed", "filesystem", "benign") ELSE d

-----------------------------------------------------------------------------
(* Correlation and history.                                                *)

Latest(rs) == {r \in rs : \A q \in rs : q.seq <= r.seq}
Earliest(rs) == {r \in rs : \A q \in rs : r.seq <= q.seq}

(* correlate(): the events of history h that an event is linked to.        *)
Correlate(h, ev) ==
  LET recent == {r \in {h[i] : i \in 1..Len(h)} : r.ts >= ev.ts - CorrelationSecs}
      network == ev.category \in {"network", "dns", "metadata"}
      reads == {r \in recent : r.read /\ ~r.credential}
      linked == Latest({r \in recent : r.untrusted})
           \cup (IF network THEN {r \in recent : r.credential} ELSE {})
           \cup (IF network /\ Cardinality(reads) >= ManyReads
                 THEN Latest(reads) \cup Earliest(reads) ELSE {})
           \cup (IF ev.verdict = "violation"
                 THEN Latest({r \in recent : r.verdict = "anomaly"}) ELSE {})
  IN {r.seq : r \in linked}

(* Faulty: the history is one event shorter.                               *)
RememberShort(h, r) ==
  LET longer == Append(h, r)
  IN IF Len(longer) >= History THEN Tail(longer) ELSE longer

(* remember(): the history after the event.                                *)
Remember(h, r) ==
  LET longer == Append(h, r)
  IN IF Len(longer) > History THEN Tail(longer) ELSE longer

Recent(n, ev) ==
  [seq |-> n, ts |-> ev.ts, verdict |-> ev.verdict,
   untrusted |-> ev.kind = "open" /\ "untrusted" \in ev.facts,
   credential |-> ev.category = "credential",
   read |-> /\ ev.kind = "open" /\ ev.op # "write"
            /\ ev.note # "runtime_read" \/ ev.confirms # 0]

-----------------------------------------------------------------------------
(* The agent and the sensor.                                               *)

(* Thread t makes a call; each of its observations reaches the engine's    *)
(* queue or is dropped.                                                    *)
Call(t, shape) ==
  /\ calls < MaxCalls[agent]
  /\ calls' = calls + 1
  /\ \E kept \in SUBSET (1..Len(shape)) :
       /\ LET obs(i) == [shape[i] EXCEPT !.call = calls + 1, !.ts = clock]
              sent == [i \in 1..Len(shape) |->
                         IF i \in kept THEN <<obs(i)>> ELSE <<>>]
          IN inbox' = [inbox EXCEPT ![t] =
               IF Len(shape) = 1 THEN inbox[t] \o sent[1]
               ELSE inbox[t] \o sent[1] \o sent[2]]
       /\ drops' = drops + Len(shape) - Cardinality(kept) /\ drops' <= MaxDrops[agent]
  /\ UNCHANGED <<agent, clock, events, lastOpen, dns, history, detector, silenced>>

Elapse ==
  /\ clock < MaxTime[agent]
  /\ clock' = clock + 1
  /\ UNCHANGED <<agent, calls, inbox, drops, events, lastOpen, dns, history, detector,
                 silenced>>

-----------------------------------------------------------------------------
(* Engine::process for the next observation of thread t.                   *)

(* Faulty: the path is not compared.                                       *)
LastOpenAny(o, t) ==
  IF o.kind = "open" /\ o.res = "kernel" THEN lastOpen[t] ELSE {}

(* The thread's last open, if the kernel's account o is of the same path.  *)
LastOpen(o, t) ==
  IF o.kind = "open" /\ o.res = "kernel"
  THEN {l \in lastOpen[t] : l.path = o.path} ELSE {}

(* The kernel confirms an allowed open: nothing new.                       *)
ProcessSilently(t) ==
  /\ inbox[t] # <<>>
  /\ LET o == Head(inbox[t])
     IN /\ \E l \in LastOpen(o, t) : l.verdict = "allowed"
        /\ silenced' = silenced \cup {[tid |-> t, of |-> o]}
  /\ inbox' = [inbox EXCEPT ![t] = Tail(inbox[t])]
  /\ UNCHANGED <<agent, clock, calls, drops, events, lastOpen, dns, history, detector>>

(* The window that AnomalyDetector::observe keeps for an observation.      *)
WindowOf(o) ==
  IF ~AnomalyEnabled \/ o.setup THEN "none"
  ELSE IF o.kind = "open" /\ "runtime_read" \notin o.facts THEN "files"
  ELSE IF o.kind = "net" /\ o.op \in {"connect", "send"} THEN "dests"
  ELSE IF o.kind = "exec" THEN "execs"
  ELSE "none"

EventOf(o, t, d, confirms) ==
  [call |-> o.call, tid |-> t, ts |-> o.ts, kind |-> o.kind, path |-> o.path,
   facts |-> o.facts, op |-> o.op, res |-> o.res, setup |-> o.setup,
   hooked |-> o.hooked, verdict |-> d.verdict, category |-> d.category, note |-> d.note,
   confirms |-> confirms, related |-> {}]

AnomalyOf(ev, w) ==
  [ev EXCEPT !.kind = w, !.facts = {}, !.verdict = "anomaly",
             !.category = "anomaly", !.note = "", !.confirms = 0]

Process(t) ==
  /\ inbox[t] # <<>>
  /\ \A l \in LastOpen(Head(inbox[t]), t) : l.verdict # "allowed"
  /\ LET o   == Head(inbox[t])
         n   == Len(events) + 1
         own == LastOpen(o, t)
         d   == Judged(o)
         ev  == EventOf(o, t, d, IF own = {} THEN 0
                                 ELSE (CHOOSE l \in own : TRUE).seq)
         ev1 == IF ev.verdict = "violation" /\ own = {}
                THEN [ev EXCEPT !.related = Correlate(history, ev)] ELSE ev
         h   == Remember(history, Recent(n, ev1))
         w   == WindowOf(o)
         seen == Observe(detector, w, o.path, o.ts)
         an  == AnomalyOf(ev, w)
         an1 == [an EXCEPT !.related = Correlate(h, an)]
     IN /\ lastOpen' = [lastOpen EXCEPT ![t] =
             IF o.kind = "open" /\ o.res # "kernel"
             THEN {[path |-> o.path, seq |-> n, verdict |-> ev.verdict]}
             ELSE IF o.kind = "exit" THEN {} ELSE lastOpen[t]]
        /\ dns' = IF d.note # "remembered" THEN dns
                  ELSE IF Len(dns) < MaxDns THEN Append(dns, o.ts)
                  ELSE Append(Tail(dns), o.ts)
        /\ IF w # "none" /\ seen.report
           THEN /\ events' = events \o <<ev1, an1>>
                /\ history' = Remember(h, Recent(n + 1, an))
           ELSE events' = Append(events, ev1) /\ history' = h
        /\ detector' = IF w = "none" THEN detector ELSE seen.detector
  /\ inbox' = [inbox EXCEPT ![t] = Tail(inbox[t])]
  /\ UNCHANGED <<agent, clock, calls, drops, silenced>>

Next ==
  \/ \E t \in Tids, shape \in Shapes[agent] : Call(t, shape)
  \/ Elapse
  \/ \E t \in Tids : ProcessSilently(t) \/ Process(t)

Spec == Init /\ [][Next]_vars

-----------------------------------------------------------------------------
(* Properties.                                                             *)

(* Detector entries come from observations, every thread's last open and   *)
(* every link name an event there is, the bounded queues keep their bounds *)
(* and the counts of files agree with the window they are maintained       *)
(* beside (anomaly.rs:20).                                                 *)
TypeOK ==
  /\ clock \in 0..MaxTime[agent] /\ calls \in 0..MaxCalls[agent] /\ drops \in Nat
  /\ detector.queue \in [Windows -> Seq(Entries)]
  /\ detector.counts = [x \in Names |-> Occurrences(detector.queue["files"], x)]
  /\ detector.fired \in [Windows -> 0..clock \cup {Never}]
  /\ Len(detector.queue["files"]) <= MaxFiles
  /\ \A t \in Tids : \A l \in lastOpen[t] :
       l.seq \in 1..Len(events) /\ events[l.seq].verdict = l.verdict
  /\ \A i \in 1..Len(events) : events[i].verdict \in Verdicts
  /\ Len(dns) <= MaxDns /\ Len(history) <= History

(* The kernel's account of an open is left out of the record only when it  *)
(* would itself have been allowed: by then the thread's last open of the   *)
(* path may be that of another call, made for another purpose.  The        *)
(* exceptions are an earlier open during container setup and a refused     *)
(* write of an interpreter's cache, both recorded as allowed whatever the  *)
(* policy says of the path, a device that may always be written, which     *)
(* an open that creates or appends and does not write only reads, and an   *)
(* open for writing that the thread's last open of the path did not        *)
(* announce: an entry of the same call that was misread, or the entry of   *)
(* an earlier call where this one has none.  (engine.rs:188)               *)
SilencedAreAllowed ==
  drops = 0 =>
    \A s \in silenced :
      \/ Decide(s.of).verdict = "allowed"
      \/ \E i \in 1..Len(events) :
           /\ events[i].tid = s.tid /\ events[i].path = s.of.path
           /\ \/ events[i].setup /\ events[i].call < s.of.call
              \/ events[i].note = "benign"
              \/ /\ events[i].op = "write" /\ s.of.op # "write"
                 /\ "runtime_write" \in s.of.facts
              \/ /\ events[i].op # "write" /\ s.of.op = "write"
                 /\ events[i].call = s.of.call \/ ~s.of.hooked

(* A confirmation names an earlier violation of the same thread and path   *)
(* and, when nothing was dropped, of the same call unless the open has no  *)
(* entry of its own (an exec's, io_uring's).  (engine.rs:195,              *)
(* confirms_seq)                                                           *)
ConfirmsOwn ==
  \A i \in 1..Len(events) : events[i].confirms # 0 =>
    LET e == events[i]
        c == events[e.confirms]
    IN /\ e.confirms < i /\ c.tid = e.tid /\ c.path = e.path
       /\ c.verdict = "violation" /\ c.kind = "open" /\ c.res # "kernel"
       /\ drops = 0 => c.call = e.call \/ ~e.hooked

(* The places of the allowed queries that are remembered when event i is   *)
(* judged.                                                                 *)
Queries(i) ==
  LET all == {j \in 1..(i - 1) : events[j].note = "remembered"}
  IN {j \in all : Cardinality({k \in all : k > j}) < MaxDns}

(* A connection is put down to an allowed query exactly if one of the      *)
(* remembered queries is recent enough, although queries and connections   *)
(* of different threads are judged out of the order of their times.        *)
(* (engine.rs, decide_net)                                                 *)
AttributionIsExact ==
  \A i \in 1..Len(events) : events[i].note \in {"attributed", "unlisted"} =>
    (events[i].note = "attributed" <=>
       \E j \in Queries(i) : events[i].ts - events[j].ts <= AttributionSecs)

(* A network violation is linked to every credential access of the last    *)
(* CorrelationSecs that is among the History latest events, and links of   *)
(* any event lead back to earlier events of that time.  (engine.rs,        *)
(* correlate)                                                              *)
ExfiltrationLinked ==
  \A i \in 1..Len(events) :
    LET e == events[i]
        near == {j \in 1..(i - 1) : events[j].ts >= e.ts - CorrelationSecs}
    IN /\ e.related \subseteq near
       /\ e.verdict = "violation" /\ e.category \in {"network", "dns", "metadata"} =>
            {j \in near : events[j].category = "credential" /\ i - j <= History}
              \subseteq e.related

(* "Fire at most once per three windows per detector" (anomaly.rs:40),     *)
(* counted from the report before, whatever the order of the times.        *)
CoolDown ==
  \A i, j \in 1..Len(events) :
    /\ i < j /\ events[i].kind \in Windows /\ events[j].kind = events[i].kind
    => events[j].ts - events[i].ts >= 3 * WindowSecs

(* If the opens of the latest window touch as many files as the threshold, *)
(* the burst was reported, or a report that one of them does not follow by *)
(* three windows stands for it: observations that come late neither evict  *)
(* what is recent nor hide it.  A threshold of 0, which policy.rs accepts, *)
(* is reached by the first open.  (anomaly.rs:60)                          *)
NoBurstMissed ==
  LET opens == {i \in 1..Len(events) :
                  /\ events[i].kind = "open" /\ ~events[i].setup
                  /\ "runtime_read" \notin events[i].facts}
      burst == {i \in opens : \A j \in opens : events[i].ts >= events[j].ts - WindowSecs}
  IN AnomalyEnabled /\ Cardinality(opens) <= MaxFiles /\ burst # {}
     /\ Cardinality({events[i].path : i \in burst}) >= Thresholds["files"]
     => LET fired == detector.fired["files"]
        IN /\ fired # Never
           /\ \E i \in burst : \/ events[i].ts <= fired
                               \/ events[i].ts - fired < 3 * WindowSecs
=============================================================================

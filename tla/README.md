# A verification project for Kill Line

Kill Line watches an AI agent from outside: kernel hooks report what the agent's
processes do, a policy engine gives every report a verdict, and a monitoring loop
keeps a hash-chained timeline, a session status (GREEN, AMBER, RED, GREY) and an
evidence bundle per breach; it may freeze or terminate the agent. This directory
models the parts of it whose correctness depends on order, interleaving, loss
and crashes, checks them with TLC on small instances and, with TLAPS, proves for
every instance: the invariants of the monitoring loop and that it implements an abstract
recorder, and those of the decoder, the tracked map, the responses, the ETW sensor, the
evidence on disk and the evaluation engine with its anomaly detector. Left to TLC alone are
liveness and the resolution of paths.

    tlc -config MonitorRecord.cfg MCMonitor      # likewise every other .cfg;
                                                 # PROJECT.json names its module
    tlapm MonitorProofs.tla                      # likewise every other *Proofs.tla

`PROJECT.json` lists the runs, the definitions with the source lines they model,
the hazards and the theorems.

## The system and its parts

| part | source | state | operations | what makes it correct |
|---|---|---|---|---|
| monitoring loop | `killline-cli/src/monitor.rs` | queued events, reported breaches, open incidents, response flags, drop counter, quiet ticks | record, open incident, enforce, poll, operator request, tick, drain, shutdown | nothing numbered is lost; enforcement precedes everything else; it ends when it should |
| session summary | `killline-core/src/session.rs` | counts, degradations, status, heartbeat | apply, degrade, recompute, effective_status | the status is what the timeline says; RED is sticky; a dead monitor is not GREEN |
| session store | `killline-core/src/store.rs` | `timeline.jsonl` behind a BufWriter, `session.json` | append, flush, save_session, verify | the files agree with one another after a crash |
| incident bundles | `killline-core/src/incident.rs` | one directory per incident | claim an id, new, write (again, when the post-trigger window has passed), verify | one per breach, supported by the timeline, final in the end; verification tells an edited one from a whole one |
| responses | `killline-sensor/src/respond.rs` | none | freeze, resume, terminate | all of the agent is reached although it forks meanwhile; a resume undoes a freeze (on Windows, two do); the session says what was really done |
| dashboard control | `killline-cli/src/ui.rs`, `control()` | `control.json` | write a request | an accepted request is carried out and recorded |
| decoder | `killline-sensor/src/decode.rs`, `raw.rs` | one held entry per thread | feed, release, flush_stale | outcomes belong to their calls; nothing is held for ever or handed on twice |
| eBPF sensor | `killline-sensor/src/ebpf.rs` | ring, drop counter | start (seed, attach), poll, dropped, tracked_pids | nothing of the agent is missed between seeding and attaching |
| kernel hooks | `bpf/killline.bpf.c` | `tracked` map, ring | fork, exec, exit, entry and result hooks | all of the agent is watched and nothing else |
| target resolution | `killline-sensor/src/target.rs` | none | find the pids to seed | the seeds are the agent's processes |
| evaluation engine | `killline-core/src/engine.rs` | event counter, last_open, DNS attribution, history | process, notice | one event per observation, except for confirmed opens; what it confirms, attributes and links is what the calls were |
| anomaly detector | `killline-core/src/anomaly.rs` | three sliding windows, counts of files, cool-downs | observe | a burst is reported, once, although observations come late |
| path matching | `killline-core/src/pathmatch.rs`, `resolve_at`, `realpath` of `decode.rs` | cache of directories | normalise, resolve, first_match | the path is the file the kernel opened, the rule the first that matches |
| policy, redaction | `killline-core/src/{policy,redact}.rs` | none | pure functions | |
| ETW sensor | `killline-sensor/src/etw.rs` | tracked set, parents, recent destinations, queue and its loss counter | start, callback, poll, health | the tracked set is the agent's tree; what is not delivered is counted |
| launcher, CLI, views, dashboard page, desktop shell | `killline-cli/src`, `desktop/` | | I/O | |

How they interact. The agent's system calls run the kernel hooks, which look the
process up in `tracked`, reserve a record in a bounded ring, or count a drop.
`Sensor::poll` reads records and feeds the decoder, which pairs entry and result
records of a thread. `run()` hands each observation to `Engine::process`, queues
the events it returns, and at the top of the next iteration records them: session
counts, timeline, open incidents, and a new incident for a new breach. The dashboard
is another process: it reads `session.json` and writes `control.json`, which the
loop reads and removes. Other monitors share the directory of incidents, and `killline
verify`, `inspect` and the dashboard read it while it is written. On Windows a callback
thread fills a bounded queue which `poll` empties. The loop, the agent, the host's other
processes, the dashboard, the readers, signals, the clock and a crash are the
concurrent actors.

What is hard. The loop has five ways back to its top and two ways out, each with
events possibly queued. Three files are written at different moments, so a death
in between leaves them at different points of the session. Records are dropped one
by one, so a call may keep its result and lose its entry. Task ids are reused, and
threads and processes share them. Status precedence depends on a history of
breaches, anomalies and losses. Signals go to ids, one by one, while their owners fork and
end. Two liveness questions (does the monitor of a
dead agent end; is every bundle finalised) depend on counters that other steps reset.

## Modules

| module | models |
|---|---|
| `Session` | `session.rs`: status, counts, degradation, heartbeat, staleness |
| `Monitor` (extends `Session`) | `run()` with the ring, the agent's processes, the three kinds of files, the dashboard's requests, signals, the clock, crashes |
| `Decoder` | the ring of records, `Decoder::feed/release/flush_stale` and `Sensor::poll`, with the system calls of an agent's threads as the truth |
| `Recorder` | abstract: what the directory of a session promises its readers |
| `MonitorRefines` (extends `Monitor`) | the refinement mapping from `Monitor` to `Recorder` |
| `Tracking` | the `tracked` map under fork, clone, exec, exit, adoption, with the kernel's tasks as the truth |
| `Respond` (extends `Tracking`) | freeze, terminate and resume by signals (Linux), interleaved with the steps of `Tracking` |
| `Etw` | `etw.rs` with the launcher of Windows: start, session, callbacks, tracked set, rate limits, queue |
| `EtwRespond` (extends `Etw`) | freeze, terminate and resume on Windows, where suspensions count, interleaved with the steps of `Etw` |
| `Evidence` | the hash chain, bundles file by file, claiming of ids, verification, edits by hand |
| `Paths` | `resolve_at`/`realpath` with its cache, against what the kernel opens; `PatternSet` against a reference |
| `Anomaly` | `anomaly.rs`: `observe` as an operator from a detector to a detector and whether it reports |
| `Engine` (extends `Anomaly`) | `Engine::process`: decisions, silenced and confirmed opens, DNS attribution, history and correlation, fed by the threads of an agent |
| `MC...` | instances for TLC |
| `MonitorProofs` | theorems about `Monitor`: types, timeline, status |
| `MonitorIncidentProofs` (extends `MonitorProofs`) | incidents, bundles, enforcement |
| `MonitorRefinesProofs` (extends `MonitorRefines`, `MonitorIncidentProofs`) | `Monitor` implements `Recorder` |
| `RespondProofs` | theorems about `Tracking` and `Respond` |
| `DecoderProofs` | theorems about `Decoder` |
| `EtwProofs` | theorems about `Etw` and `EtwRespond` |
| `EvidenceProofs` | theorems about `Evidence` |
| `EngineProofs` | theorems about `Engine` and `Anomaly` |

Definitions commented "Faulty:" are variants of the definition that follows, each
with one plausible mistake; no specification uses them. They exist to show that
each property can fail: substituted for the definition they vary, each makes TLC
report the property they are listed with in `PROJECT.json`.

### Monitor

`pc` names the stretch of `run()` that comes next:

    record (-> bundle -> record) -> enforce -> poll -> control
      -> act -> record                                  operator request
      -> tick (-> finalise -> flush -> save -> alive -> drain) -> record
    shutdown -> endflush -> endsave -> done             crashed

| state | code |
|---|---|
| `out`, `seq` | `out_events`, `Engine.seq` |
| `timeline`, `flushed` | everything appended; the prefix that reached `timeline.jsonl` |
| `disk` | `session.json`: `{}` until it is first saved |
| `bundles`, `pending`, `reported` | bundles on disk, `pending`, `reported` |
| `session` | the in-memory `Session` |
| `responded`, `respondedDegraded`, `lastDrops`, `quiet` | the locals of those names |
| `ring`, `kdrops`, `lost` | the sensor: records, drop counter, a stopped ETW session |
| `running`, `stopped`, `platform` | the agent's processes, how often each of them was suspended; where Kill Line runs |
| `control`, `hand` | `control.json`; the request `take_control_request` has read |
| `session.age`, `pending.left`, `tickDue` | wall-clock comparisons, advanced by `Second` |

What is abstracted, and why that loses nothing the properties are about:

- An observation is the sequence of bodies (verdict, breach key, confirmation) that
  `Engine::process` makes of it: none, one, or one followed by anomalies. Any such
  sequence may come at any time, so a confirmation may come without the breach it
  confirms: a superset of what the engine does.
- The breach key category|policy_rule|resource is one value, `rule`.
- `platform` is a container (a response may fail, as docker does), a process tree or
  Windows (the ETW session may be stopped by another; `NtSuspendProcess` counts, and `freeze`
  suspends every process twice, `resume` resumes once). A response to pids always
  reports success. What it does to the processes happens at once here; one process after
  the other it is in `Respond` and `EtwRespond`.
- A bundle is written in one step, and all bundles due in a tick are rewritten in one
  step; their files are in `Evidence`. Crashes are possible between every two steps.
- The BufWriter may write earlier records on its own whenever one is appended.
- A crash is a kill, which loses the buffer, or an error returned by `?`, which does
  not.
- Coverage gaps of the startup are one notice, with or without degradation.

### Recorder

`Recorder` knows nothing of the loop: a log that only grows, the part of it that is
durable, evidence filed for breaches in it, and a published summary. Evidence is filed
once per breach and for a durable one, and is not touched again once complete; a
published RED needs a durable breach and is never taken back; a summary that says "ended"
is only published over a durable log and complete evidence, and nothing follows it.
`MonitorRefines` maps `timeline`, `flushed`, `bundles` and `session.json` as
`effective_status` reads it; `IsRecorder` says that every behaviour of `Monitor`, crashes
included, is one of `Recorder`. It is a property of safety: liveness is in `MonitorEnds`.

### Decoder

`calls` is the truth: each call of a thread, with what it returned. Records of the
entry, of the kernel's account of an open and of the result are reserved one by one
in a ring of `RingCap`; `drops` counts refusals. `held` is `Decoder.pending`; an entry
becomes `old` by `Elapse` (250 ms). A main thread may exit before another thread, and
a thread's execve may make it the leader, which changes the thread id under which it
returns. Contents of records are abstracted to `shown`, whether `decode()` makes an
observation of it.

### Tracking and Respond

`owner`, `parent`, `origin`, `execd`, `zombie` are the kernel's truth about the tasks,
`tracked` the map. `env`, chosen in the initial state, says which environment is
considered: container or PID tree, threads, main threads that end first, a ring that
fills, processes forked between seeding and attaching, reuse of ids, the map's size, and
whether Kill Line responds. Each property names the environments it holds in.

`Respond` is the responses of Linux. It adds `suspended` (stopped by SIGSTOP), the response
under way with its `pass` and what is left `todo` of its snapshot of `tracked_pids()`, and
`born`, when a process was forked relative to the snapshots. `ActOne` is one `kill(2)`: it
reaches the process that owns the id, whoever that is by then, or nobody. A suspended process
takes no step of `Tracking`, a killed one leaves through `kl_exit`. One enforcement and, after
a freeze, one resume.

### Etw

| state | code |
|---|---|
| `procs`, `agent` | the processes of Windows with the parent's id as recorded (which may be another's by now); whether the launched agent is still suspended |
| `phase`, `seeds` | how far `Sensor::start` is: parents not yet known, known ("named"), session begun ("on", or "gone"); the seeds whose exec it has yet to report |
| `etw`, `etwLost` | the session's buffers in order, its loss counters |
| `tracked`, `names`, `recent` | the fields of those names (`recent_net`, `recent_dns`) |
| `queue`, `queueLost` | the channel to `poll`, as a number; `lost` |
| `misseeded`, `reported`, `hidden` | truth: were the seeds the agent; which of its calls were queued, or were not |

`Sensor::start` is three kinds of steps, between which an attached agent goes on and the
callbacks of a session that has begun run: the parents of what runs (`Snapshot`), the
session (`Start`), and an exec for each seed (`Seed`). Only then does the launcher release its
agent and does the loop poll. Events are taken in the order of their times. What happens
after the session was stopped by another is the loop's affair (`SensorStops` of `Monitor`).
Records whose fields cannot be parsed are left out here and, uncounted, by the code.

`EtwRespond` adds `suspensions`, a count for each process, and the response under way as
`Respond` has it; its snapshots are the sensor's tracked set, which lags behind the
processes (`late` says that a resume took its snapshot from a set that did). `ActOne` is
`OpenProcess` and one call: it reaches whoever has the id, if there is one. One freeze or
terminate and, after a freeze, up to `MaxResumes` resumes.

### Evidence

| state | code |
|---|---|
| `log`, `sent`, `timeline` | events appended; how many bytes of them are written, in half lines; `timeline.jsonl` as it is on disk |
| `job`, `open` | what the thread is writing and at which file; `pending` |
| `dirs` | the bundles: contents of each file, `checksums.txt` among them |
| `reader` | a `verify_checksums` under way: the checksums it read, the files so far |
| `edits`, `edited` | edits by hand, one line, field or file |

The hash of a record is taken to be the sequence of events up to it, and the checksum of a
file its contents: hashes do not collide. A monitor that dies takes no more steps,
and every behaviour may stop anywhere, so each state is also one left by a crash.

### Paths

A path is a sequence of names, a name of characters. `tree` is the file system; `Kernel`
says what an open reaches, replacing the leftmost link until none is left. `Walk` follows
the loop of `realpath_in_root_cached`, `cache` is `dir_cache` with ages. The walk is one
step: the file system changes between a call and the decoder's look, and between looks.
`seen` is the observation made last. `FirstMatch` follows the two searches of
`PatternSet::first_match`, and `SegmentMatch`, `GlobSegments` the recursion of the code;
`MatchedFirst` compares them with `RefMatches`, which says by cuts of the path what a
pattern covers.

### Engine and Anomaly

| state | code |
|---|---|
| `inbox` | observations on their way: those of a thread in the order of its calls (`ThreadOrder` of `Decoder`), those of different threads in any order; a superset of what the decoder's 250 ms hold produces |
| `events` | what `process()` returned; an event's number is its position |
| `lastOpen`, `dns`, `history` | `last_open`, `allowed_dns`, `history` |
| `detector` | `AnomalyDetector`: queues, `file_counts`, `last_fired` |
| `silenced` | observations for which `process()` returned nothing |

An observation carries facts instead of strings: which lists of the policy its path,
program, address or name is on ("credential", "allow_write", ...), computed by the path
and domain matching that is not modelled here. A fact "escape" or "escape_proc" tells
which kind of pattern matches first. `Compiled` is what `compile_for` makes of the path
lists; the decision functions follow `decide_*` over the facts. The kinds that differ
only in wording (mount, umount, chroot, pivot_root, setns, bpf, module load, raw
socket, unshare, ptrace, setuid to root) are the kind "privileged"; their harmless
forms, forks and plain sockets are the remaining kinds, which are allowed.

A call is one or two observations: an entry and, if the file was opened, the kernel's
account of it (`Account`); an exec has such an account too, and no entry of an open; and an
open that no hook sees at its entry (`io_uring`, `open_by_handle_at`,
`docs/TECHNICAL_RESEARCH.md:50`) is an account alone. `hooked` tells them apart. The kernel's
account may name another path (a symlink) and may say something else than the entry: "read"
for "list"; "read" for "write", because of a flag that creates or appends, for decode() takes
the one from the flags of the call and the other from the mode of the opened file; and "write"
for "read", because `kl_openat2` reads the flags from the agent's memory without looking
whether it could, and before the kernel does (`killline.bpf.c:406`). Of the files that an exec
opens (script, interpreter, loader) one has its account in the model.

## Runs

Passing:

| run | question | properties | distinct states |
|---|---|---|---|
| `MonitorRecord` | alert-only: does what is recorded, counted and saved agree, with three breaches where two incidents are allowed, one repeated or confirmed, overflow, signals, a crash anywhere? | `TypeOK`, `NoGap`, `StatusIsTimelines`, `OneIncidentPerBreach`, `TriggerDurable` | 6.3 M |
| `MonitorEnforce` | freeze on violation, terminate on lost visibility, in a container (actions fail) and on Windows (suspensions count, the sensor stops), an operator request racing the loop: is enforcement first, is a frozen agent shown as such, and is the loop a recorder? | `EnforcedFirst`, `FrozenIsShown`, `IsRecorder` | 1.7 M |
| `MonitorEnds` | liveness | `LoopEnds`, `BundlesFinalised`, `StaleAfterCrash`, `RequestServed`, `DropsReported` | 0.4 M |
| `DecoderPairs` | two threads, thread exec, timeouts, an overflowing ring, calls that never return: pairing, order, release | `TypeOK`, `OutcomeIsOwn`, `LostOnlyByDrop`, `ThreadOrder`, `AllHandedOn` | 1.2 M |
| `EngineJudges` | three agents of two threads (files; network; anything, with a dropped observation), observations out of the order of their times | `TypeOK`, `SilencedAreAllowed`, `ConfirmsOwn`, `AttributionIsExact`, `ExfiltrationLinked`, `CoolDown`, `NoBurstMissed` | 0.9 M |
| `RespondTracked` | containers and process trees in five environments, two of them with responses: is the agent seen and the host not, whom does a freeze miss, whom does a resume leave? | `RTypeOK`, `TreeIsSeen`, `HostStaysUntracked`, `LabelIsSetup`, `EscapeesAreLate`, `ResumeReleases` | 2.1 M |
| `EtwSensor` | an agent launched or attached to, late events, ids reused, rate limits, a queue of two, losses, a freeze or terminate and two resumes | `RTypeOK`, `TreeIsTracked`, `NothingHidden`, `TwoResumesRelease` | 2.2 M |
| `EvidenceVerified` | two monitors, or one that records more, a reader during rewrites, half lines, one edit | `TypeOK`, `ChainIsPrefix`, `VerifiedIsWhole` | 4.3 M |
| `PathsResolved` | links, dots, relative paths, changes of the file system, stale directories, four lists of patterns | `ResolvedRight`, `MatchedFirst` | 0.8 M |

Runs in which the code does not do what the repository says (details under
"findings" in `PROJECT.json`):

| run | property | what happens |
|---|---|---|
| `MonitorUnfrozen` | `FrozenIsShown` | the fail-closed branch freezes the agent and leaves `session.frozen` unset |
| `TrackingMainThread` | `AgentIsSeen` | PID tree: `kl_exit` removes a process whose main thread ends first (also by an execve of another thread), and nothing enters it again |
| `TrackingThreadIds` | `HostIsUntracked` | `kl_fork` enters thread ids, `kl_exit` removes only process ids; a host process given such an id is watched, and would be frozen or killed with the agent |

Bounds. One ring slot (`RingCap = 1`) with two records per poll makes overflow,
partial reads and emission during a poll all happen with two or three observations;
three are needed for two breaches and a repetition, and for a third breach beyond the
limit of two incidents. One process suffices for what the loop asks of the agent (is Root
there, is anything suspended). `HeartbeatStale`, `Window` and `QuietTicks` are 1 or 0:
the code only compares them with elapsed seconds or ticks. Two threads with two
calls each way are enough for every pair of records the decoder's map can confuse; a ring
of two makes room for an entry and the kernel's account and refuses the result when
nothing is read in between.

Four ids allow root, child, grandchild and an outsider; an escape from both passes of a
freeze takes root, child and grandchild. Two of the five environments of `RespondTracked`
respond; in the others responses would add states and no new question.

For ETW, three ids, two starts and two calls are a child that ends, whose id comes back
inside or outside the tree, and two destinations of one process. `MaxRecent = 0`
clears a rate-limiting map at its second entry, as the code does when it holds more than 10000.
`MaxResumes = 2`: the second is the one that releases. The constraint `Explored` cuts
behaviours at the first loss, at the end of the session and where an attached agent changed
while the sensor started, after which the properties claim nothing (but for `TreeIsTracked` after
a loss of the queue, which no step that changes `tracked` reads). It also separates what is
independent: calls need no response and no start of the sensor. The theorems need none of this.

For evidence, two monitors with two and one events contend for two ids, and one with three
has a context (`Context = 2`) that leaves the first out and a parent's id reused. With
`MaxDepth = 0` (64 in the code) a process with a grandparent in the table and nothing above it is
in the tree, a longer or circular line of parents is cut. Four
of the files stand for the seven that have checksums, which are written alike, and the
checksums are the fifth; the one whose presence
`incident_dir` looks for, the timeline, the tree and the policy (which tells whose bundle it is)
are among them.

For paths, five places in two levels allow links to links, circles, absolute and relative
targets; `MaxHops = 3`, `MaxCache = 2` and `Ttl = 2` are reached with two opens and two
changes. The patterns are plain, with `*` and `?` in a name, and with `**` at the start and
inside.

For the engine, three calls on files reach every sequence of two opens of a path and an
exec of it, and more opens than the window's cap (`MaxFiles` = 4); four calls on the
network give up to three queries, connections among them and credential accesses,
with `MaxDns` = 2 and a history of three, so that both queues overflow. The window is 1 s and the
time on files 3 s, so that a detector reports, stays silent and reports again; 2 s exceed the
attribution time of 1 s on the network. Two agents lose nothing;
the third makes two calls and may lose one observation of them. The threads
are interchangeable. Symmetry is used here and, for ids other than Root's, in
`RespondTracked` and `EtwSensor`, which check invariants only. Runs whose agents stop
when their bounded calls are made are not checked for deadlock.

Fairness. `WF(Loop)`: the loop is one thread that never blocks for ever (polls have a
timeout), so an enabled step is taken. `WF(Second)`: time passes. Nothing is assumed
of the agent, the operator, signals or crashes. For the decoder `WF(Poll)`, because the
monitor polls in every iteration, and `WF(Elapse)`; system calls may never return. The
other modules state safety only and no fairness.
`Monitor`'s deadlock check is on: a finished monitor stutters by `Finished`.

## Divergences

These statements of the documents are not claims of a run; each was refuted by TLC
with the formula given, added as an invariant or property to the module named.
The properties of the passing runs state the part that does hold.

- "Any drop -> GREY with the count" (`docs/THREAT_MODEL.md:54`). `Monitor`:
  `pc = "done" /\ kdrops > 0 => \A s \in disk : EffectiveStatus(s) \in {"grey", "red"}`.
  The counter is read in ticks only, not at exit. `DropsReported` holds.
- "On exit (agent exits, --duration, SIGINT/SIGTERM), Kill Line drains remaining
  events" (`docs/ARCHITECTURE.md:57`). `Monitor`:
  `[][pc' = "done" /\ pc # "done" /\ running = {} => ring = <<>>]_vars`. Only the exit
  of the agent drains.
- "If the monitor dies for any reason, its heartbeat goes stale and `killline status`
  reports GREY" (`docs/THREAT_MODEL.md:52`). A monitor that dies in its first second
  has saved no `session.json`; `StaleAfterCrash` holds once one is saved.
- "executes the action and records it in the timeline"
  (`docs/SECURITY_MODEL.md:30`). With two requests, the second replaces the first in
  `control.json`, or is removed with it. `RequestServed` holds for one.
- "the monitor flushes at least once per second and before every incident bundle"
  (`store.rs:116`). `Monitor`: `\A j \in 1..Len(bundles) : bundles[j].head <= flushed`.
  Ticks and shutdown rewrite bundles before they flush. `TriggerDurable` holds.
- "launch an agent under monitoring (it and every descendant)" (`README.md:60`).
  `Monitor`: `pc = "done" /\ reason = "exited" => running = {}`.
- "Userspace pairs each result with the preceding entry event of the same thread"
  (`killline.bpf.c:722`). `Decoder`: `OwnOutcome(out[i])` without `drops = 0`. A dropped
  result followed by a dropped entry pairs the next result with the earlier call.
- "Processes forked by the agent never carry this flag" (`event.rs:239`). With
  `SeedMayMiss`, a grandchild forked before the hooks are attached is adopted with it.
- "until their first execve" (`docs/TECHNICAL_RESEARCH.md:82`). With `RingMayFill`, an
  exec whose record cannot be reserved leaves the label on.

- "A connection with no preceding allowed query is a violation"
  (`docs/TECHNICAL_RESEARCH.md:112`). `Engine`: an "attributed" event has a query in
  `Queries(i)` whose time is not later. A connect waits for its result while another
  thread's query is judged; the code only asks that the connect is not more than 300 s
  after the query. `AttributionIsExact` states what it asks.
- "this happened {:.1}s after the agent read untrusted input" (`engine.rs:367`).
  `Engine`: `\A j \in events[i].related : events[j].ts <= events[i].ts`. The linked event
  was judged before, and may have happened later; the seconds are then negative.
  `ExfiltrationLinked` bounds the time from below only.
- "The kernel confirms an allowed open: nothing new." (`engine.rs:191`). `Engine`:
  `SilencedAreAllowed` without `drops = 0`. If the entry of a forbidden write is dropped, the
  thread's earlier, allowed read of the same path stands for it and the kernel's account is
  left out. Without drops the same happens to a forbidden write whose own entry says "read"
  (`openat2`) or which has none (`io_uring`). Without drops, too, the account of an exec can
  be left out because of an open during container setup; so can that of a refused write of an
  interpreter's cache, if the refusal came after `security_file_open`; and, under a policy
  that does not allow runtime reads, that of a read of /dev/null or its like which was
  requested with a flag that creates or appends. `SilencedAreAllowed` names these four
  exceptions and TLC refutes it without any one of them.

- "Editing, removing or reordering a line breaks the chain from that point" (`store.rs:13`).
  `Evidence`: `VerifyTimeline(timeline[x]) => timeline[x] = [k \in 1..sent[x].lines |-> Line(x, k)]`.
  Nothing follows the last lines, so removing them is not reported, nor is a change of `seq`
  that keeps the order, as it is not hashed. `ChainIsPrefix` holds.
- A monitor that dies in the middle of a line leaves a timeline that `killline verify` reports
  as broken: `edits = 0 => VerifyTimeline(timeline[x])`. If the line ends right behind `,"event":`
  the slice of `store.rs:253` starts past its end and `verify_timeline` panics; the model, which
  does not count characters, shows this as not verified.
- "returns the files that do not match" (`incident.rs:197`), which `killline inspect` shows as
  modified. `Evidence`: `edits = 0 => \A r \in reader : Bad(r) = {}`. A verification that
  overlaps the rewrite of the bundle five seconds after the breach, or follows a rewrite that
  was cut short by a death, blames files nobody touched. `VerifiedIsWhole` holds. (Checksums are
  computed from the files read back: an edit between the writing of a file and of its
  checksum would be sealed in; `EditFile` leaves that moment out.)
- The process tree of a bundle leaves out processes more than 65 generations below a root, and
  those whose recorded parents go round in a circle, which reuse of ids produces because the
  table keeps the first parent of an id. `VerifiedIsWhole` without `Deep`.
- "twice to catch children created in between" (`respond.rs:96`). `Respond`:
  `action = "none" /\ last \in {"freeze", "terminate"} => \A g \in Pids : Live(g) /\ origin[g] = "agent" => g \in suspended`.
  A child that was forked between the snapshots can itself fork after the second.
  `EscapeesAreLate` says that nobody else escapes. With ETW the tracked set lags behind the
  processes (`Etw`: `phase = "on" => Agent \subseteq tracked` fails), so that there the
  second pass need not see the children of the first.
- "Undo a freeze" (`respond.rs:123`), by signals. `Respond`:
  `action = "none" /\ last = "resume" => suspended = {}`. A host process that was given an id
  of the snapshot before it was signalled is stopped, and is in no later snapshot.
  `ResumeReleases` holds for the agent's own. The count that `freeze` reports is the sum of
  both passes.
- "Undo a freeze" (`respond.rs:123`; `docs/WINDOWS.md:69` offers both), on Windows. `EtwRespond`:
  `action = "none" /\ last = "resume" => \A p \in Agent : suspensions[p] = 0`. `freeze` suspends
  every process twice (`respond.rs:104`), `resume` takes one suspension back (131). The
  agent stays suspended while `session.frozen` is already cleared (`Monitor` with
  `Platforms = {"windows"}`: `Suspended # {} => session.frozen`), and the dashboard, which offers
  Resume for a frozen session only (`ui/app.js:168`), offers Freeze. A second request to
  resume, which the HTTP interface takes, releases the agent (`TwoResumesRelease`); what
  `FrozenIsShown` says of Windows is that the session is right up to the first resume.
- Windows: `Etw`: `phase = "on" /\ etw = <<>> => \A q \in tracked : procs[q].live => procs[q].agent`.
  Windows keeps the id of a parent that is gone; a process of the host whose parent had the
  agent's id is seeded (`target.rs:204`). After a lost stop event an id stays
  tracked. A process that is given the id of an ended one within the limit is kept quiet as
  if it were that one.
- Paths: `\A s \in seen : ~s.call.raced /\ ~s.call.arg.abs /\ ~s.call.opened.fails => s.path = s.call.opened.path`.
  A directory replaced by a link is taken for a directory for up to a second
  (`decode.rs:111`), and a ".." behind a link is worked off before the link is followed.
  The kernel's own account of a successful open has the right path in both cases.

## Proofs

The theorems hold for every value of the constants that satisfies the named assumptions of
the modules, which TLC evaluates in the runs. Those are types of the constants, nonzero
bounds, a root or leader among the ids, and three facts: the ids of `Tracking` and of `Etw`
are finitely many (`TrackingPids`, `EtwRoot`), because the size of the map and of the
rate-limiting maps is compared with a number; `"none"` is not an id; and
`MonitorRefines` uses `"other"` for events that are no breach, so it is no breach's rule
(`OtherAssumption`). Nothing of `Monitor` and `Decoder` is assumed finite. Bounds on what
happens (`MaxObs`, `MaxCalls`, `MaxRequests`, ...) are arbitrary numbers.

Each theorem is proved from an inductive invariant: `Init` implies it, every action keeps
it (one step of the proof per action), it implies the property.

### The monitoring loop

`MonitorProofs`:

- `TypeCorrect`: `TypeOK` is inductive with its last two conjuncts: an action to carry out
  exists at `act` (else `OperatorRule[hand]` and the operators applied to it would be
  undefined), and an event exists at `bundle`.
- `TimelineHasNoGap`: `NoGap` alone is not inductive: `CheckStop` leaves for `shutdown`
  from `enforce`, where `out` is empty only because `RecordDone` found it so. `NoGapInv`
  adds `pc = "enforce" => out = <<>>`. The rest is the arithmetic of concatenation
  (`Process`, `Announce`, the tick's notices), in lemmas about appended events.
- `StatusIsRight`: the property speaks of the timeline, the code recomputes the status from
  counts. `StatusInv` ties them: `status = StatusOf(session)`, `violations > 0` exactly
  when the timeline has a breach, `anomalies > 0` exactly when it has an anomaly that
  counts.

`MonitorIncidentProofs`:

- `IncidentsAreOnePerBreach`, `TriggersAreDurable`: from `IncidentInv`. That no breach is
  left out needs that `reported` is exactly the set of rules of the timeline's breaches
  (`Reporting`); that none gets two bundles needs that the breach being written up at
  `bundle` is new, flushed and within the limit (`Triggered`); that a rewrite keeps
  what a bundle reports needs that an open incident knows its bundle (`OpenOnes`).
- `EnforcementComesFirst`: from `EnforceInv`. What is owed can change where the loop does not
  enforce at once, in a tick that sees new drops. The tick then leaves a notice in `out`, and
  with that the loop cannot leave for the end before it has recorded and enforced.
- `FrozenShows`: `FrozenIsShown` for every policy with `OnDegraded # "freeze"`. The
  hypothesis leaves out exactly the policy for which `MonitorUnfrozen` refutes it. On Windows
  it is about a session without a completed resume: behind one, `session.frozen` may be
  unset although one of the two suspensions of a freeze is left.

`MonitorRefinesProofs`: `MonitorIsRecorder` is `Spec => IsRecorder`: the initial states map to
initial states of `Recorder`; each of the steps, crashes included, to one of its actions or to
no change. Most steps change nothing a reader sees. The others need `IncidentInv` and `DirInv`:
the first breach is in the file as soon as there is a breach (a published RED has its
breach on disk), `session.json` is only saved after a flush, a bundle that is not final
belongs to an open incident (so that at the end all are complete), and nothing is recorded after
the session was marked as ended.

### The tracked map and the responses

`RespondProofs` proves all six properties of `RespondTracked`, for any number of processes and
threads and any set of environments, and with `SensorTracks` those of `Tracking` without
responses.

- `AgentStaysInSight`, `HostStaysOut`, `LabelIsTheRuntimes`: from `MapInv`. `TreeIsSeen` lets
  a process of a container be in sight by its namespace; inductive is that it is in the map
  (`Seen`). That the host stays out needs that ids which may be given out are not in the
  map (`Untracked`), and the label needs a statement about those that would be
  adopted next (`Labels`).
- `OnlyLateForksEscape`: `Escaping` follows a response through its passes: in the first, a
  process not yet reached is of the snapshot and still to do, or was forked since; in the
  second, likewise with the second snapshot. A child is never older than its parent in this
  sense, and a process that is suspended forks nothing.
- `ResumeUndoesFreeze` (signals; for Windows see `EtwTwoResumesRelease`): what is suspended is
  in the snapshot of the resume because the agent is in sight (`Seen`), or is of the host
  (`Aimed`: only with reuse of ids).

`Sighted` is the condition of four of these properties: the map has room, the seeds
were complete and no main thread ends before other threads of its process. Without the last,
`TrackingMainThread` refutes `AgentIsSeen`; without the others a process may run that was never
entered. One environment of `RespondTracked` has it false in all three ways.

### The decoder

`DecoderProofs` proves the four invariants of `DecoderPairs` for any number of threads, any
capacity of the ring and any length of a poll. None of them is inductive, for they speak of what
was handed on, which says little about what is still to come. `DInv` adds, per thread: what was
handed on comes before what is in the ring and is not what is held, and what is held comes before
what is in the ring (`OutInv`, `HeldInv`, `RingInv`); and, until the first drop, what was handed on
also comes before what is held, and the result of a hooked call comes before any record of another
call of its thread (`PairInv`), and is missing only while the call runs or when its thread can
send no more (`OpenInv`). Because these end with the first drop, so do the properties, but for
the part of `ThreadOrder` that nothing is handed on twice. The steps of the kernel all put at most one record into the ring
(`KernelStep`). Those of `Sensor::poll` are compositions of a few operations on the ring, the
held entries and what was handed on (skip, release, add, forget, hold, age), with a lemma each.

### The ETW sensor

`EtwProofs` proves the four invariants of `EtwSensor` for any number of processes, any delay
of events and any number of resumes. `TreeIsTracked` speaks of moments when the buffers are
empty; in between the sensor lags behind. Inductive is that replaying the buffered events
turns the sensor's tracked set, and the parents it knows of the tracked, into those of the
world, and that each call is met while its process is tracked (`Lags`). An action of the world
appends an event and extends the replay at its end, a callback takes one off at its
beginning. `NothingHidden` also needs that a destination kept quiet was reported
(`NotedIsReported`).

What a response does to the sensor and the world is a step of `Etw` or none (`RespondStep`), so
the three invariants of the sensor carry over. `TwoResumesRelease`: `WInv` says in which order
the responses come (`InOrder`), that a pass of a freeze adds at most one suspension to a process
(`AtMost`), and that a resume has taken one back from every process of the agent that has any and
is not still to do (`TakenBack`). A suspended process is of the agent for good, because it
starts nothing and keeps its id; that it is in the snapshot of a resume is `TreeIsTracked`,
which is why no event may be on its way.

### The evidence on disk

`EvidenceProofs` proves the three invariants of `EvidenceVerified` for any number of monitors,
incidents, files, events and edits. The assumptions are those of the code's constants: `FILES`
names the files the model looks into, and not the checksums (`EvidenceFiles`); monitors
and incident ids are told apart (`EvidenceNames`).

- `TimelineIsTrusted`: `TimelineOK` says that an unedited timeline is the lines written so far,
  perhaps with a torn one behind them, and that each line of an edited one is torn or still has
  the links of a record of this log, or none. A record's hash stands for all events up to it,
  so a chain that verifies up to line k fixes the first k events (`VerifiedLines`).
- `BundleIsWhole`: the reader reads file after file while a rewrite replaces them one by one, so
  what it has read may belong to two writes. `BeingWritten` says what the files are
  that a write has replaced so far, `Settled` that the unedited files of a bundle nobody
  is writing agree with its checksums, `ReaderOK` that while nothing disturbs the bundle all that
  the reader has read agrees with the checksums it read first. `DirsOK` says that checksums
  are those of one write (`Sealed`), so what matches all of them is that write; `OwnersOK`
  that each bundle is one monitor's alone, and `OpenOK` that its open incidents have a bundle each.
- A process that the bundle's tree leaves out has more than `MaxDepth + 1` parents above it
  (`Outside`). Both this and that `Generations`, a recursive function, satisfies its own equation
  (`GenerationsDef`) are inductions on a number, done as the search for a smallest
  counterexample (`Smallest`), which needs no theorem with an operator parameter.

### The evaluation engine

`EngineProofs` proves the seven invariants of `EngineJudges` for any number of threads, any
policy, thresholds, windows and capacities of the queues, and any order in which the threads'
observations arrive. `EngineShapes` is the assumption about calls: a call is an observation,
or one with the kernel's account of it, whatever the two say of the purpose, or an open's
account alone; and what the policy's lists say of a path is the same for each open of it,
except whose /proc it is in. `Inv` and the properties themselves are one inductive invariant.

- `SilencedRight`, `ConfirmedOwn`: `last_open` is keyed by thread and compared by path, while
  the properties speak of calls. `PairsOK` says, until the first drop, that the kernel's
  account at the head of a thread's queue is of the open recorded last or, without an entry of
  its own, of a later call (`JustDone`), and that accounts in the queue follow their own
  entries. `EventsOK` says that a recorded open has the verdict `decide_file` gives its path.
  The rest is about the decision itself (`AllowedByKernel`): what is allowed of a path as
  named is allowed of the same path as the kernel saw it, and what may be written may be read,
  because `compile_for` makes it so.
- `Attribution`: `DnsOK` maps the remembered queries to the last `MaxDns` recorded ones, in order.
- `Exfiltration`: `HistoryOK` says that the history is the last `History` events.
- `CoolsDown`: `DetectorOK` says that no recorded report is later than `last_fired`.
- `TypeCorrect`: that `file_counts` is the number of entries per file rests on lemmas about
  occurrences in a sequence made longer (`OneMore`) and cut in two (`InTwo`).
- `BurstReported`: the window is a queue in order of arrival of which only the front is
  evicted, so a late entry in front may keep younger ones behind it or go before its time.
  `BurstOK` says that, while no more opens are recorded than the cap, every open of the
  latest window is in the queue (`StaysIn`: an entry within the window at the time of
  eviction stops the loop). The files of a burst are then among those counted (`BurstMeasured`),
  so the detector reports or has not cooled down. `BurstGrows` handles an open that arrives
  late and is not in the latest window itself.

### Only model-checked

- Liveness, out of the prover's reach: `LoopEnds`, `BundlesFinalised`, `StaleAfterCrash`,
  `RequestServed`, `DropsReported`, `AllHandedOn`.
- `ResolvedRight` and `MatchedFirst` of `Paths`: its recursive operators on patterns and paths follow
  the code's, and the SMT backend of the prover cannot be used in a module with recursive operators.

## Not modelled

- Contents of events, records, bundles and views, beyond what the properties tell apart;
  explanations, severities, wording and layout.
- Parsing, validation and merging of policies; redaction; the canonical form of Windows
  paths and the expansion of `~`: rewriting of text.
- Decoding of the bytes of a kernel or ETW record, beyond whether it is an observation, its path
  and whom it is about; device paths of Windows. An ETW record whose fields cannot be parsed is
  dropped without being counted (`etw.rs:208`); `NothingHidden` is about those that can.
- The HTTP server, the dashboard's page, the desktop shell, the command line.
- docker and `/proc` I/O, the loading of BPF programs, the listing of sessions.
- The pipe by which the Linux launcher holds its child, dropping of privileges, and failures
  of the startup (on Windows, a child whose monitor fails after the spawn stays suspended).
- `killline inspect` reads what it shows before it verifies; `Evidence` models the verification.
- `Decoder` and `Monitor` are not composed: entries still held when the loop ends, at most
  250 ms old, are lost with it. Operator requests are bounded by
  `MaxRequests`: each skips a tick, so a steady stream postpones the heartbeat, until the
  dashboard refuses requests because it is stale.
- A `tracked` map that is full (65536 tasks) refuses new keys silently; `TreeIsSeen` is about one
  with room.

## Plan

Every invariant and the refinement that the runs check are proved, but for those listed under
"Only model-checked". What would be worth adding:

1. Composing `Decoder` and `Monitor`, to say what a session loses at its end: entries the decoder
   still holds when the loop leaves.
2. `Engine` with more than one account per exec.
3. `Paths` without recursion, if the walk is restated as a relation between a path and the
   kernel's steps, so that `ResolvedRight` can be proved.

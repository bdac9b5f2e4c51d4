----------------------------- MODULE Tracking ------------------------------
(***************************************************************************)
(* Which processes Kill Line watches, on Linux: the `tracked' map of       *)
(* bpf/killline.bpf.c, kept by the fork, exec and exit hooks and, in       *)
(* container mode, by adoption of whatever is first seen in the target PID *)
(* namespace.  Ids of threads and processes come from one space and are    *)
(* reused.                                                                 *)
(*                                                                         *)
(* `origin' and `execd' are the truth the map is compared with: where a    *)
(* process comes from, and whether it (or an ancestor that entered with    *)
(* it) has made an execve.  A hook's ring reservation succeeds or not as   *)
(* the environment likes, if it may fail at all.                           *)
(***************************************************************************)
EXTENDS FiniteSets, Naturals

CONSTANTS
  Pids, Root,      \* ids of tasks; Root is the agent's first process
  Environments     \* the circumstances considered: a set of records

(*   container   target_pidns is set; otherwise PID-tree mode              *)
(*   threaded    processes may have several threads                        *)
(*   mainFirst   and their main thread may end before the others           *)
(*   ringFills   a reservation may fail                                    *)
(*   seedMisses  processes may be forked between seeding and attaching     *)
(*   reused      the id space has wrapped: ended tasks' ids come back      *)
(*   responds    Kill Line acts on the agent (module Respond)              *)
(*   room        max_entries of the map                                    *)
Switches == {"container", "threaded", "mainFirst", "ringFills", "seedMisses",
             "reused", "responds"}

ASSUME TrackingPids == IsFiniteSet(Pids) /\ "none" \notin Pids
ASSUME TrackingRoot == Root \in Pids
ASSUME TrackingEnvironments ==
  \A e \in Environments :
    /\ \A s \in Switches : e[s] \in BOOLEAN
    /\ e.room \in Nat \ {0}

NoPid == "none"
Marks == {"none", "forked", "adopted"}   \* absent, TRACK_FORKED, TRACK_ADOPTED

VARIABLES
  env,       \* which of the environments this is; it does not change
  owner,     \* the process (tgid) each id belongs to, NoPid if free
  fresh,     \* ids not given to any task yet
  zombie,    \* processes whose main thread has ended before the others
  parent,    \* real_parent's tgid, NoPid for a process of the host
  origin,    \* "agent", "entered" (docker exec), "host", or "none"
  execd,
  tracked

taskVars == <<owner, fresh, zombie, parent, origin, execd>>
vars == <<env, taskVars, tracked>>

Live(g) == owner[g] = g
InNamespace(g) == origin[g] \in {"agent", "entered"}

(* Seeding happens before the hooks are attached: in between, the agent    *)
(* may fork once, and its child may.                                       *)
Seeded(ps) ==
  /\ owner = [p \in Pids |-> IF p \in ps THEN p ELSE NoPid]
  /\ fresh = Pids \ ps
  /\ origin = [p \in Pids |-> IF p \in ps THEN "agent" ELSE "none"]
  /\ execd = [p \in Pids |-> p \in ps]

Init ==
  /\ env \in Environments
  /\ zombie = {}
  /\ tracked = [p \in Pids |-> IF p = Root THEN "forked" ELSE "none"]
  /\ \/ /\ Seeded({Root})
        /\ parent = [p \in Pids |-> NoPid]
     \/ \E c \in Pids \ {Root} :
          /\ env.seedMisses
          /\ Seeded({Root, c})
          /\ parent = [p \in Pids |-> IF p = c THEN Root ELSE NoPid]
     \/ \E c \in Pids \ {Root} : \E d \in Pids \ {Root, c} :
          /\ env.seedMisses
          /\ Seeded({Root, c, d})
          /\ parent = [p \in Pids |-> IF p = c THEN Root
                                      ELSE IF p = d THEN c ELSE NoPid]

-----------------------------------------------------------------------------
(* The map and track_state().                                              *)

(* bpf_map_update_elem with BPF_ANY: a full map takes no new key.          *)
Put(map, p, mark) ==
  IF map[p] = "none" /\ Cardinality({q \in Pids : map[q] # "none"}) >= env.room
  THEN map ELSE [map EXCEPT ![p] = mark]

(* BPF_NOEXIST: an entry already there stays.                              *)
PutNew(map, p, mark) == IF map[p] = "none" THEN Put(map, p, mark) ELSE map

(* What a hook running in process g finds.                                 *)
TrackState(g) ==
  IF tracked[g] # "none" THEN tracked[g]
  ELSE IF ~env.container \/ ~InNamespace(g) THEN "none"
  ELSE IF parent[g] # NoPid /\ tracked[parent[g]] # "none" THEN "forked"
  ELSE "adopted"

(* The map after track_state() in g, which adopts what it finds.           *)
Adopting(g) ==
  IF TrackState(g) = "none" THEN tracked ELSE Put(tracked, g, TrackState(g))

Reserved == IF env.ringFills THEN BOOLEAN ELSE {TRUE}

-----------------------------------------------------------------------------
(* kl_fork runs in the forking process, for new threads as for processes.  *)

(* Faulty: the child is not entered.                                       *)
TracingNot(g, child) == tracked' = Adopting(g)

Tracing(g, child) ==
  tracked' = IF TrackState(g) = "none" THEN tracked
             ELSE PutNew(Adopting(g), child, TrackState(g))

(* The ids the kernel may give to a new task.                              *)
Free(p) == owner[p] = NoPid /\ (env.reused \/ p \in fresh)

(* A running task of process g: its main thread, or another one.           *)
Runs(t) == owner[t] # NoPid /\ t \notin zombie

Fork(t, c) ==
  /\ Runs(t) /\ Free(c)
  /\ LET g == owner[t]
     IN /\ owner' = [owner EXCEPT ![c] = c]
        /\ parent' = [parent EXCEPT ![c] = g]
        /\ origin' = [origin EXCEPT ![c] = origin[g]]
        /\ execd' = [execd EXCEPT ![c] = execd[g]]
        /\ Tracing(g, c)
  /\ fresh' = fresh \ {c}
  /\ UNCHANGED zombie

Clone(t, c) ==
  /\ env.threaded /\ Runs(t) /\ Free(c)
  /\ owner' = [owner EXCEPT ![c] = owner[t]]
  /\ fresh' = fresh \ {c}
  /\ Tracing(owner[t], c)
  /\ UNCHANGED <<zombie, parent, origin, execd>>

(* Any other hooked call: new_event() or emit_result() adopt on sight.     *)
Syscall(t) ==
  /\ Runs(t)
  /\ tracked' = Adopting(owner[t])
  /\ UNCHANGED taskVars

(* Faulty: the label survives the exec.                                    *)
UnlabelledNever(g, ok) == Adopting(g)

(* handle_exec: the label is dropped only if the event could be reserved.  *)
Unlabelled(g, ok) ==
  IF ok /\ TrackState(g) = "adopted" /\ Adopting(g)[g] # "none"
  THEN [Adopting(g) EXCEPT ![g] = "forked"]
  ELSE Adopting(g)

Exec(t) ==
  /\ Runs(t)
  /\ \E ok \in Reserved : tracked' = Unlabelled(owner[t], ok)
  /\ execd' = [execd EXCEPT ![owner[t]] = TRUE]
  /\ UNCHANGED <<owner, fresh, zombie, parent, origin>>

-----------------------------------------------------------------------------
(* Task exit.  A process is gone with its last thread; its children are    *)
(* then reparented, in a container to its init.                            *)

(* Faulty: the children keep a parent that is gone.                        *)
ReapedAlone(g, ids) ==
  /\ owner' = [p \in Pids |-> IF p \in ids THEN NoPid ELSE owner[p]]
  /\ origin' = [origin EXCEPT ![g] = "none"]
  /\ execd' = [execd EXCEPT ![g] = FALSE]
  /\ parent' = [parent EXCEPT ![g] = NoPid]
  /\ zombie' = zombie \ {g}

Reaped(g, ids) ==
  /\ owner' = [p \in Pids |-> IF p \in ids THEN NoPid ELSE owner[p]]
  /\ origin' = [origin EXCEPT ![g] = "none"]
  /\ execd' = [execd EXCEPT ![g] = FALSE]
  /\ parent' = [p \in Pids |->
       IF p = g THEN NoPid
       ELSE IF parent[p] = g THEN (IF env.container THEN Root ELSE NoPid)
       ELSE parent[p]]
  /\ zombie' = zombie \ {g}

Others(t) == {p \in Pids \ {t} : owner[p] = owner[t] /\ Runs(p)}

(* A thread that is not the main one: kl_exit returns at once.             *)
ThreadExit(t) ==
  /\ Runs(t) /\ owner[t] # t
  /\ IF Others(t) = {}
     THEN Reaped(owner[t], {t, owner[t]})
     ELSE /\ owner' = [owner EXCEPT ![t] = NoPid]
          /\ UNCHANGED <<zombie, parent, origin, execd>>
  /\ UNCHANGED <<fresh, tracked>>

(* Faulty: the entry stays.                                                *)
LeaderExitKept(g) ==
  /\ Runs(g) /\ owner[g] = g /\ ~(env.container /\ g = Root) /\ Others(g) = {}
  /\ tracked' = Adopting(g)
  /\ Reaped(g, {g})
  /\ UNCHANGED fresh

(* The main thread: kl_exit deletes the process's entry.  The end of a     *)
(* container's init is the end of the session.                             *)
LeaderExit(g) ==
  /\ Runs(g) /\ owner[g] = g /\ ~(env.container /\ g = Root)
  /\ env.mainFirst \/ Others(g) = {}
  /\ tracked' = [Adopting(g) EXCEPT ![g] = "none"]
  /\ IF Others(g) = {}
     THEN Reaped(g, {g})
     ELSE zombie' = zombie \cup {g} /\ UNCHANGED <<owner, parent, origin, execd>>
  /\ UNCHANGED fresh

(* An execve that succeeds outside the main thread: the kernel ends every  *)
(* other thread, the main one through kl_exit, and the caller goes on      *)
(* under the process's id.                                                 *)
ExecOfThread(t) ==
  /\ Runs(t) /\ owner[t] # t /\ env.mainFirst
  /\ LET g == owner[t]
     IN /\ \E ok \in Reserved :
             tracked' = IF g \in zombie THEN Unlabelled(g, ok)
                        ELSE [Unlabelled(g, ok) EXCEPT ![g] = "none"]
        /\ owner' = [p \in Pids |->
             IF owner[p] = g /\ p # g THEN NoPid ELSE owner[p]]
        /\ zombie' = zombie \ {g}
        /\ execd' = [execd EXCEPT ![g] = TRUE]
  /\ UNCHANGED <<fresh, parent, origin>>

-----------------------------------------------------------------------------
(* The rest of the host: a process of its own, or one that the container   *)
(* runtime puts into the target namespace.                                 *)

Appear(c, from) ==
  /\ Free(c)
  /\ owner' = [owner EXCEPT ![c] = c]
  /\ parent' = [parent EXCEPT ![c] = NoPid]
  /\ origin' = [origin EXCEPT ![c] = from]
  /\ execd' = [execd EXCEPT ![c] = FALSE]
  /\ fresh' = fresh \ {c}
  /\ UNCHANGED <<zombie, tracked>>

HostSpawns(c) == Appear(c, "host")
Enters(c) == env.container /\ Appear(c, "entered")

(* What a task does; c is the id a new task is given.                      *)
TaskStep(t) ==
  \/ \E c \in Pids : Fork(t, c) \/ Clone(t, c)
  \/ Syscall(t) \/ Exec(t) \/ ThreadExit(t) \/ LeaderExit(t)
  \/ ExecOfThread(t)

Next ==
  /\ \E p \in Pids : TaskStep(p) \/ HostSpawns(p) \/ Enters(p)
  /\ UNCHANGED env

Spec == Init /\ [][Next]_vars

-----------------------------------------------------------------------------
(* Type correctness; a thread's process exists as long as it does, and a   *)
(* parent as long as its children name it.                                 *)
TypeOK ==
  /\ owner \in [Pids -> Pids \cup {NoPid}] /\ zombie \in SUBSET Pids
  /\ parent \in [Pids -> Pids \cup {NoPid}]
  /\ origin \in [Pids -> {"agent", "entered", "host", "none"}]
  /\ execd \in [Pids -> BOOLEAN]
  /\ tracked \in [Pids -> Marks] /\ fresh \in SUBSET Pids
  /\ \A p \in Pids : owner[p] # NoPid => Live(owner[p])
  /\ \A p \in Pids : parent[p] # NoPid => Live(parent[p])

(* No process of the agent is lost from sight: a hook that runs in a live  *)
(* process of the agent finds it tracked, or adopts it.                    *)
AgentIsSeen ==
  \A g \in Pids : Live(g) /\ origin[g] = "agent" => TrackState(g) # "none"

(* "unrelated host activity is dropped in the kernel": no process of the   *)
(* host is in the map, whichever id it was given.                          *)
HostIsUntracked ==
  \A g \in Pids : Live(g) /\ origin[g] = "host" => tracked[g] = "none"

Roomy == env.room >= Cardinality(Pids)
Seeds == ~env.seedMisses

Sighted == Roomy /\ Seeds /\ ~env.mainFirst

(* Whatever forks, clones, execs, exits and id reuses happen, and however  *)
(* full the ring is, the agent is seen (kl_fork, kl_exit), as long as the  *)
(* seeds were complete, the map has room and no main thread ends first.    *)
TreeIsSeen == Sighted => AgentIsSeen

(* The host stays untracked through any reuse of process ids (kl_exit      *)
(* deletes the entry of a process with it, track_state adopts nothing      *)
(* outside the namespace), and with threads as long as ids are not reused. *)
HostStaysUntracked == ~(env.threaded /\ env.reused) => HostIsUntracked

(* event.rs: "Processes forked by the agent never carry this flag", and    *)
(* those that entered by docker exec carry it "until their first execve":  *)
(* the runtime-setup label is on none else, unless a seed was missed, an   *)
(* exec's record did not fit, or a main thread ended first.                *)
LabelIsSetup ==
  Sighted /\ ~env.ringFills /\ ~(env.threaded /\ env.reused) =>
    \A g \in Pids : Live(g) /\ tracked[g] = "adopted" =>
      origin[g] = "entered" /\ ~execd[g]
=============================================================================

------------------------------ MODULE Respond ------------------------------
(***************************************************************************)
(* freeze(), terminate() and resume() of killline-sensor/src/respond.rs on *)
(* a process tree of Linux, composed with the tracked map of module        *)
(* Tracking that they act upon.  Each takes a snapshot of the map and      *)
(* signals its ids one by one, while the processes not yet signalled go    *)
(* on; freeze and terminate then do it all again with a new snapshot.      *)
(* Signals do not count: a process stopped twice is continued once.  The   *)
(* suspensions of Windows do, and are in module EtwRespond.                *)
(*                                                                         *)
(* The monitor runs one response at a time: here one enforcement and, if   *)
(* it was a freeze, one resume.  (The container's `docker pause' and       *)
(* `docker kill' are single steps of the cgroup freezer, and are the Act   *)
(* of module Monitor.)                                                     *)
(***************************************************************************)
EXTENDS Tracking

VARIABLES
  suspended,   \* processes stopped by SIGSTOP
  action,      \* the response under way, or "none"
  pass,        \* 1 or 2: which of the two calls of act_all
  todo,        \* ids of its snapshot not yet signalled
  last,        \* the response completed last, or "none"
  born         \* when a process was forked: see Birth

respondVars == <<action, pass, todo, last>>
rvars == <<vars, respondVars, suspended, born>>

RInit ==
  /\ Init
  /\ suspended = {} /\ action = "none" /\ pass = 1 /\ todo = {}
  /\ last = "none" /\ born = [p \in Pids |-> "before"]

(* sensor.tracked_pids(): the keys of the map, thread ids among them.      *)
TrackedPids == {p \in Pids : tracked[p] # "none"}

Begin(a) ==
  /\ env.responds /\ ~env.container /\ action = "none"
  /\ \/ a \in {"freeze", "terminate"} /\ last = "none"
     \/ a = "resume" /\ last = "freeze"
  /\ action' = a /\ pass' = 1 /\ todo' = TrackedPids
  /\ born' = [p \in Pids |-> "before"]
  /\ UNCHANGED <<vars, last, suspended>>

(* SIGKILL: every thread of the process ends, its main thread through      *)
(* kl_exit.                                                                *)
Killed(g) ==
  /\ tracked' = [Adopting(g) EXCEPT ![g] = "none"]
  /\ Reaped(g, {p \in Pids : owner[p] = g})
  /\ suspended' = suspended \ {g}
  /\ UNCHANGED fresh

(* Faulty: an id that no longer exists ends the pass.                      *)
ActOneGivesUp(p) ==
  /\ action # "none" /\ p \in todo
  /\ LET g == owner[p]
     IN \/ g = NoPid /\ todo' = {} /\ UNCHANGED <<vars, suspended>>
        \/ /\ g # NoPid /\ todo' = todo \ {p}
           /\ suspended' = IF action = "freeze" THEN suspended \cup {g}
                                                ELSE suspended \ {g}
           /\ IF action = "terminate" THEN Killed(g) /\ UNCHANGED env
                                      ELSE UNCHANGED vars
  /\ UNCHANGED <<action, pass, last, born>>

(* act_one on unix: kill(2) reaches the process that owns the id, if any.  *)
ActOne(p) ==
  /\ action # "none" /\ p \in todo
  /\ todo' = todo \ {p}
  /\ LET g == owner[p]
     IN \/ g = NoPid /\ UNCHANGED <<vars, suspended>>
        \/ /\ g # NoPid /\ action = "freeze"
           /\ suspended' = suspended \cup {g} /\ UNCHANGED vars
        \/ /\ g # NoPid /\ action = "resume"
           /\ suspended' = suspended \ {g} /\ UNCHANGED vars
        \/ /\ g # NoPid /\ action = "terminate"
           /\ Killed(g) /\ UNCHANGED env
  /\ UNCHANGED <<action, pass, last, born>>

(* Faulty: the second pass is over the first one's snapshot.               *)
SecondPassStale ==
  /\ action \in {"freeze", "terminate"} /\ pass = 1 /\ todo = {}
  /\ pass' = 2
  /\ todo' = {p \in Pids : tracked[p] # "none" /\ born[p] = "before"}
  /\ UNCHANGED <<vars, action, last, suspended, born>>

SecondPass ==
  /\ action \in {"freeze", "terminate"} /\ pass = 1 /\ todo = {}
  /\ pass' = 2 /\ todo' = TrackedPids
  /\ UNCHANGED <<vars, action, last, suspended, born>>

Finish ==
  /\ action # "none" /\ todo = {} /\ (pass = 2 \/ action = "resume")
  /\ last' = action /\ action' = "none"
  /\ UNCHANGED <<vars, pass, todo, suspended, born>>

(* A child forked by g now: before the response, between its snapshots,    *)
(* or after the second by a process that was there at the first ("after"), *)
(* or by one that came later ("late").                                     *)
Birth(g) ==
  IF action \notin {"freeze", "terminate"} /\ last = "none" THEN "before"
  ELSE IF action # "none" /\ pass = 1 THEN "between"
  ELSE IF born[g] = "before" THEN "after"
  ELSE "late"

(* The agent and the host go on; a suspended process does nothing.         *)
Alone(p) ==
  /\ \/ /\ owner[p] \notin suspended
        /\ TaskStep(p)
     \/ HostSpawns(p) \/ Enters(p)
  /\ born' = [c \in Pids |->
       IF owner[c] = NoPid /\ owner'[c] = c /\ parent'[c] # NoPid
       THEN Birth(parent'[c]) ELSE born[c]]
  /\ UNCHANGED <<env, respondVars, suspended>>

Respond ==
  \/ \E a \in {"freeze", "terminate", "resume"} : Begin(a)
  \/ \E p \in Pids : ActOne(p)
  \/ SecondPass \/ Finish

RNext == Respond \/ \E p \in Pids : Alone(p)

RSpec == RInit /\ [][RNext]_rvars

-----------------------------------------------------------------------------
(* Type correctness, of the map and of the responses; only processes that  *)
(* exist are suspended.                                                    *)
RTypeOK ==
  /\ TypeOK
  /\ suspended \in SUBSET {p \in Pids : Live(p)}
  /\ action \in {"none", "freeze", "terminate", "resume"}
  /\ pass \in {1, 2} /\ todo \in SUBSET Pids
  /\ last \in {"none", "freeze", "terminate", "resume"}
  /\ born \in [Pids -> {"before", "between", "after", "late"}]

(* "suspended ..., twice to catch children created in between": whoever of *)
(* the agent still runs after a freeze or a terminate was forked after the *)
(* second snapshot, by a process that was itself forked after the first    *)
(* (under the conditions of TreeIsSeen: one that is not in the map is not  *)
(* signalled).                                                             *)
EscapeesAreLate ==
  Sighted /\ action = "none" /\ last \in {"freeze", "terminate"} =>
    \A g \in Pids :
      Live(g) /\ origin[g] = "agent" /\ g \notin suspended => born[g] = "late"

(* "Undo a freeze", with signals: a resume leaves no process of the agent  *)
(* suspended, whichever pass stopped it and whatever came and went in      *)
(* between; and nothing at all, unless an id of a snapshot was given to a  *)
(* process of the host before it was signalled (under the same             *)
(* conditions).                                                            *)
ResumeReleases ==
  Sighted /\ action = "none" /\ last = "resume" =>
    \A g \in suspended : env.reused /\ origin[g] = "host"
=============================================================================

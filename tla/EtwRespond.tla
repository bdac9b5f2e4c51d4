----------------------------- MODULE EtwRespond -----------------------------
(***************************************************************************)
(* freeze(), terminate() and resume() of killline-sensor/src/respond.rs on *)
(* Windows, composed with the sensor of module Etw whose tracked set they  *)
(* act upon.  NtSuspendProcess and NtResumeProcess count: freeze suspends  *)
(* every process it finds twice, and one resume takes back one of the two. *)
(*                                                                         *)
(* One response at a time, while the processes not suspended go on: here   *)
(* one freeze or terminate, and after a freeze some resumes, all while the *)
(* session runs.                                                           *)
(***************************************************************************)
EXTENDS Etw

CONSTANT MaxResumes   \* bound: resumes after a freeze

ASSUME EtwResumes == MaxResumes \in Nat

VARIABLES
  suspensions,  \* how often a process has been suspended and not resumed
  action,       \* the response under way, or "none"
  pass,         \* 1 or 2: which of the two calls of act_all
  todo,         \* ids of its snapshot not yet acted upon
  last,         \* the response completed last, or "none"
  resumes,      \* resumes completed
  late          \* a resume began with events still in the session's buffers

respondVars == <<action, pass, todo, last, resumes, late>>
rvars == <<vars, respondVars, suspensions>>

RInit ==
  /\ Init
  /\ suspensions = [p \in Pids |-> 0]
  /\ action = "none" /\ pass = 1 /\ todo = {}
  /\ last = "none" /\ resumes = 0 /\ late = FALSE

(* The monitor's loop runs, and the session with it: sensor.tracked_pids() *)
(* is the tracked set.                                                     *)
Begin(a) ==
  /\ Started /\ phase = "on" /\ agent # "held" /\ action = "none"
  /\ \/ a \in {"freeze", "terminate"} /\ last = "none" /\ UNCHANGED late
     \/ /\ a = "resume" /\ last \in {"freeze", "resume"}
        /\ resumes < MaxResumes
        /\ late' = (late \/ etw # <<>>)
  /\ action' = a /\ pass' = 1 /\ todo' = tracked
  /\ UNCHANGED <<vars, last, resumes, suspensions>>

(* A resume takes one suspension back, if there is one.                    *)
Resumed(n) == IF n = 0 THEN 0 ELSE n - 1

(* Faulty: an id that no longer exists ends the pass.                      *)
ActOneGivesUp(p) ==
  /\ action # "none" /\ p \in todo
  /\ \/ p \notin Live /\ todo' = {} /\ UNCHANGED <<vars, suspensions>>
     \/ /\ p \in Live /\ todo' = todo \ {p}
        /\ \/ /\ action = "freeze" /\ UNCHANGED vars
              /\ suspensions' = [suspensions EXCEPT ![p] = @ + 1]
           \/ /\ action = "resume" /\ UNCHANGED vars
              /\ suspensions' = [suspensions EXCEPT ![p] = Resumed(@)]
           \/ /\ action = "terminate" /\ Exit(p)
              /\ suspensions' = [suspensions EXCEPT ![p] = 0]
  /\ UNCHANGED <<action, pass, last, resumes, late>>

(* act_one: OpenProcess finds whoever has the id, if there is one.         *)
ActOne(p) ==
  /\ action # "none" /\ p \in todo
  /\ todo' = todo \ {p}
  /\ \/ p \notin Live /\ UNCHANGED <<vars, suspensions>>
     \/ /\ p \in Live /\ action = "freeze" /\ UNCHANGED vars
        /\ suspensions' = [suspensions EXCEPT ![p] = @ + 1]
     \/ /\ p \in Live /\ action = "resume" /\ UNCHANGED vars
        /\ suspensions' = [suspensions EXCEPT ![p] = Resumed(@)]
     \/ /\ p \in Live /\ action = "terminate" /\ Exit(p)
        /\ suspensions' = [suspensions EXCEPT ![p] = 0]
  /\ UNCHANGED <<action, pass, last, resumes, late>>

SecondPass ==
  /\ action \in {"freeze", "terminate"} /\ pass = 1 /\ todo = {}
  /\ pass' = 2 /\ todo' = tracked
  /\ UNCHANGED <<vars, action, last, resumes, late, suspensions>>

Finish ==
  /\ action # "none" /\ todo = {} /\ (pass = 2 \/ action = "resume")
  /\ last' = action /\ action' = "none"
  /\ resumes' = IF action = "resume" THEN resumes + 1 ELSE resumes
  /\ UNCHANGED <<vars, pass, todo, late, suspensions>>

Respond ==
  \/ \E a \in {"freeze", "terminate", "resume"} : Begin(a)
  \/ \E p \in Pids : ActOne(p)
  \/ SecondPass \/ Finish

(* A suspended process does nothing; the session and the sensor go on.     *)
RNext ==
  \/ Respond
  \/ /\ \/ Sensing
        \/ \E p \in Pids : suspensions[p] = 0 /\ Acts(p)
     /\ UNCHANGED <<respondVars, suspensions>>

RSpec == RInit /\ [][RNext]_rvars

-----------------------------------------------------------------------------
(* Type correctness, of the sensor and of the responses; only processes    *)
(* that exist are suspended.                                               *)
RTypeOK ==
  /\ TypeOK
  /\ suspensions \in [Pids -> 0..2]
  /\ \A p \in Pids : suspensions[p] > 0 => p \in Live
  /\ action \in {"none", "freeze", "terminate", "resume"}
  /\ pass \in {1, 2} /\ todo \in SUBSET Pids
  /\ last \in {"none", "freeze", "terminate", "resume"}
  /\ resumes \in 0..MaxResumes /\ late \in BOOLEAN

(* "Undo a freeze" takes two resumes on Windows: each takes one suspension *)
(* back from every process of the agent that has any, also from one that   *)
(* only the second pass found and whatever ended or was started in         *)
(* between, so that the second resume releases them all; provided that the *)
(* session lost nothing and the callback had caught up when a resume took  *)
(* its snapshot.                                                           *)
TwoResumesRelease ==
  Complete /\ ~late /\ action = "none" =>
    \A p \in Agent : suspensions[p] = 0 \/ suspensions[p] + resumes <= 2
=============================================================================

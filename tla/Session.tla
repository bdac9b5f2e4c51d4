------------------------------ MODULE Session ------------------------------
(***************************************************************************)
(* The session summary of killline-core/src/session.rs: the record that    *)
(* the monitor keeps in memory and saves to session.json, the operations   *)
(* that change it, and the status a reader of the file sees.               *)
(*                                                                         *)
(* Times are relative: `age' counts the whole seconds since the heartbeat, *)
(* up to one past the staleness limit, beyond which nothing changes.       *)
(* `incidents' and `responses' stand for the lengths of the lists of the   *)
(* same names; the counters that feed only the report are left out.        *)
(*                                                                         *)
(* Here and in the other modules, a definition introduced as "Faulty" is a *)
(* variant with a plausible bug.  No specification uses it: it is there to *)
(* show that a property tells the code from the bug.                       *)
(***************************************************************************)
EXTENDS Naturals

CONSTANT HeartbeatStale   \* HEARTBEAT_STALE_SECS

ASSUME HeartbeatStaleAssumption == HeartbeatStale \in Nat

Statuses == {"green", "amber", "red", "grey"}
Verdicts == {"allowed", "violation", "anomaly", "notice"}
Reasons  == {"coverage", "sensor", "drops"}   \* why visibility is degraded

Sessions ==
  [status : Statuses, violations : Nat, anomalies : Nat, dropped : Nat,
   degraded : SUBSET Reasons, incidents : Nat, responses : Nat,
   frozen : BOOLEAN, ended : BOOLEAN, age : 0..(HeartbeatStale + 1)]

NewSession ==
  [status |-> "green", violations |-> 0, anomalies |-> 0, dropped |-> 0,
   degraded |-> {}, incidents |-> 0, responses |-> 0,
   frozen |-> FALSE, ended |-> FALSE, age |-> 0]

(* Faulty: lost visibility hides a breach.                                 *)
StatusOfGreyFirst(s) ==
  IF s.degraded # {} THEN "grey"
  ELSE IF s.violations > 0 THEN "red"
  ELSE IF s.anomalies > 0 THEN "amber"
  ELSE "green"

StatusOf(s) ==
  IF s.violations > 0 THEN "red"
  ELSE IF s.degraded # {} THEN "grey"
  ELSE IF s.anomalies > 0 THEN "amber"
  ELSE "green"

Recompute(s) == [s EXCEPT !.status = StatusOf(s)]

Degrade(s, reason) ==
  Recompute([s EXCEPT !.degraded = s.degraded \cup {reason}])

(* A kernel confirmation of an earlier violation is not counted again.     *)
Counted(ev, verdict) == ev.verdict = verdict /\ ~ev.confirms

Apply(s, ev) ==
  Recompute([s EXCEPT
    !.violations = s.violations + (IF Counted(ev, "violation") THEN 1 ELSE 0),
    !.anomalies  = s.anomalies + (IF Counted(ev, "anomaly") THEN 1 ELSE 0)])

IsStale(s) == ~s.ended /\ s.age > HeartbeatStale

(* Faulty: the reader believes the file.                                   *)
EffectiveStatusSaved(s) == s.status

(* The status a reader of session.json reports.                            *)
EffectiveStatus(s) ==
  IF IsStale(s) /\ s.status # "red" THEN "grey" ELSE s.status

(* One more second since the heartbeat.                                    *)
Older(s) ==
  [s EXCEPT !.age = IF s.age > HeartbeatStale THEN s.age ELSE s.age + 1]
=============================================================================

--------------------------- MODULE MonitorRefines --------------------------
(* The monitoring loop implements the recorder of module Recorder.         *)
EXTENDS Monitor

(* The mark of an entry that records no breach is no breach's key.         *)
ASSUME OtherAssumption == "other" \notin Breaches

(* A breach is an entry of its rule; every other event is one of "other".  *)
Logged(ev) == IF IsBreach(ev) THEN ev.rule ELSE "other"

(* What the readers of session.json are shown.                             *)
Seen(s) == [red |-> EffectiveStatus(s) = "red", ended |-> s.ended]

Log == [i \in 1..Len(timeline) |-> Logged(timeline[i])]
Filed == [i \in 1..Len(bundles) |->
            [rule |-> bundles[i].rule, complete |-> bundles[i].finalized]]
Shown == {Seen(s) : s \in disk}

R == INSTANCE Recorder WITH
       log <- Log, durable <- flushed, evidence <- Filed, shown <- Shown

(* Whatever the agent, the operator, the clock and a crash do, the         *)
(* session's directory is that of a recorder: timeline.jsonl only grows, a *)
(* bundle is filed once, for a breach that is on disk, and is left alone   *)
(* once final; session.json (as effective_status reads it) is never RED    *)
(* without a breach on disk, never takes RED back, and says "ended" only   *)
(* over a complete timeline and final bundles, after which nothing is      *)
(* written.                                                                *)
IsRecorder == R!Spec
=============================================================================

------------------------------ MODULE Recorder -----------------------------
(***************************************************************************)
(* What a flight recorder promises to whoever reads its directory, without *)
(* the monitoring loop: a log that only grows, a part of it that survives  *)
(* the death of the writer, evidence filed for the breaches in the log,    *)
(* and a published summary.                                                *)
(*                                                                         *)
(*   - evidence is filed once per breach, for a breach that is durable,    *)
(*     and once complete is not touched again;                             *)
(*   - a published RED is backed by a durable breach and never taken back; *)
(*   - a summary that says "ended" is the last word: it is published when  *)
(*     the whole log is durable and all evidence complete, it is RED if    *)
(*     and only if the log has a breach, and nothing follows it.           *)
(***************************************************************************)
EXTENDS Naturals, Sequences

CONSTANT Breaches

VARIABLES
  log,        \* for each entry the breach it records, or "other"
  durable,    \* how many entries survive
  evidence,   \* [rule, complete] per filed breach, in order
  shown       \* {} or the set of the published [red, ended]

rvars == <<log, durable, evidence, shown>>

Breached(n) == \E i \in 1..n : log[i] # "other"
Ended == \E s \in shown : s.ended

Init == log = <<>> /\ durable = 0 /\ evidence = <<>> /\ shown = {}

(* The evidence with some of it completed.                                 *)
Completions ==
  {[i \in 1..Len(evidence) |->
      [evidence[i] EXCEPT !.complete = @ \/ i \in now]] :
     now \in SUBSET (1..Len(evidence))}

Record ==
  /\ ~Ended
  /\ \E k \in Breaches \cup {"other"} : log' = Append(log, k)
  /\ durable' \in durable..Len(log')
  /\ evidence' \in Completions
  /\ UNCHANGED shown

Persist ==
  /\ durable' \in durable..Len(log)
  /\ UNCHANGED <<log, evidence, shown>>

File ==
  /\ ~Ended
  /\ \E i \in 1..durable :
       /\ log[i] # "other"
       /\ \A j \in 1..Len(evidence) : evidence[j].rule # log[i]
       /\ evidence' = Append(evidence, [rule |-> log[i], complete |-> FALSE])
  /\ UNCHANGED <<log, durable, shown>>

Complete ==
  /\ ~Ended
  /\ evidence' \in Completions
  /\ UNCHANGED <<log, durable, shown>>

Publish(s) ==
  /\ ~Ended
  /\ s.red => Breached(durable)
  /\ (\E old \in shown : old.red) => s.red
  /\ s.ended => /\ durable = Len(log)
                /\ s.red <=> Breached(durable)
                /\ \A j \in 1..Len(evidence) : evidence[j].complete
  /\ shown' = {s}
  /\ UNCHANGED <<log, durable, evidence>>

Next ==
  \/ Persist \/ Record \/ File \/ Complete
  \/ \E s \in [red : BOOLEAN, ended : BOOLEAN] : Publish(s)

Spec == Init /\ [][Next]_rvars
=============================================================================

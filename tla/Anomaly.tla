------------------------------ MODULE Anomaly ------------------------------
(***************************************************************************)
(* The behavioural layer, killline-core/src/anomaly.rs: three sliding      *)
(* windows over the observations (files opened, destinations contacted,    *)
(* programs started), each of which reports at most once per three         *)
(* windows.  A window is a queue in the order of observation, which is not *)
(* the order of the timestamps; only its front is ever evicted.            *)
(***************************************************************************)
EXTENDS Integers, Sequences, FiniteSets

CONSTANTS
  Names,           \* paths and destinations
  WindowSecs,      \* anomaly.window_secs
  Thresholds,      \* file_burst_, network_scan_ and exec_burst_threshold
  MaxFiles         \* the cap on the window of files

Windows == {"files", "dests", "execs"}
Never   == -1     \* last_fired of a detector that has not reported

ASSUME AnomalyBounds ==
  /\ WindowSecs \in Nat /\ MaxFiles \in Nat \ {0}
  /\ Thresholds \in [Windows -> Nat]

Entries == [ts : Nat, name : Names]
Detectors ==
  [queue : [Windows -> Seq(Entries)], counts : [Names -> Nat],
   fired : [Windows -> Nat \cup {Never}]]

NewDetector ==
  [queue |-> [w \in Windows |-> <<>>], counts |-> [x \in Names |-> 0],
   fired |-> [w \in Windows |-> Never]]

(* How many entries the eviction loop pops from the front of q.            *)
Popped(q, horizon, cap) ==
  LET Stays(k) == Len(q) - k <= cap /\ q[k + 1].ts >= horizon
  IN CHOOSE k \in 0..Len(q) :
       (k = Len(q) \/ Stays(k)) /\ \A j \in 0..(k - 1) : ~Stays(j)

Occurrences(q, x) == Cardinality({i \in 1..Len(q) : q[i].name = x})

(* Faulty: an evicted file keeps its count.                                *)
RecountedKept(counts, evicted, x) == [counts EXCEPT ![x] = counts[x] + 1]

(* file_counts, maintained incrementally.                                  *)
Recounted(counts, evicted, x) ==
  [y \in Names |-> counts[y] + (IF y = x THEN 1 ELSE 0)
                             - Occurrences(evicted, y)]

(* Faulty: the cool-down is one window.                                    *)
CooledSoon(fired, now) == fired = Never \/ now - fired >= WindowSecs

Cooled(fired, now) == fired = Never \/ now - fired >= 3 * WindowSecs

(* What a window is compared by: distinct files by their counts, distinct  *)
(* destinations, or the number of programs.                                *)
Measure(w, q, counts) ==
  IF w = "files" THEN Cardinality({x \in Names : counts[x] > 0})
  ELSE IF w = "dests" THEN Cardinality({q[i].name : i \in 1..Len(q)})
  ELSE Len(q)

(* Faulty: the horizon lies half as far back.                              *)
HorizonNear(now) == now - WindowSecs + 1

Horizon(now) == now - WindowSecs

(* AnomalyDetector::observe for an observation of window w: the detector   *)
(* afterwards and whether it reports.                                      *)
Observe(d, w, x, now) ==
  LET q      == Append(d.queue[w], [ts |-> now, name |-> x])
      k      == Popped(q, Horizon(now), IF w = "files" THEN MaxFiles ELSE Len(q))
      kept   == SubSeq(q, k + 1, Len(q))
      counts == IF w = "files" THEN Recounted(d.counts, SubSeq(q, 1, k), x)
                ELSE d.counts
      report == Measure(w, kept, counts) >= Thresholds[w]
                /\ Cooled(d.fired[w], now)
  IN [detector |->
        [queue |-> [d.queue EXCEPT ![w] = kept], counts |-> counts,
         fired |-> [d.fired EXCEPT ![w] = IF report THEN now ELSE d.fired[w]]],
      report |-> report]
=============================================================================

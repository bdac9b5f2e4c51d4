----------------------------- MODULE MCEvidence -----------------------------
(* Instances of Evidence for TLC.                                          *)
EXTENDS Evidence

CONSTANTS m1, m2

(* A process that breaches, its parent, whose own parent is the process    *)
(* with the id of its child or one that is its own parent.  With MaxDepth  *)
(* = 0 the tree ends with the children of roots.                           *)
FewEvents ==
  {[pid |-> 1, ppid |-> 2, breach |-> TRUE, net |-> TRUE],
   [pid |-> 2, ppid |-> 1, breach |-> FALSE, net |-> FALSE],
   [pid |-> 2, ppid |-> 3, breach |-> FALSE, net |-> FALSE],
   [pid |-> 3, ppid |-> 3, breach |-> FALSE, net |-> FALSE]}

(* Files written alike are left out.                                       *)
FewFiles == <<"incident.json", "timeline.jsonl", "process_tree.json", "policy.yaml">>

(* Two monitors, or one that records more.                                 *)
TwoOrOne == {(m1 :> 2) @@ (m2 :> 1), (m1 :> 3) @@ (m2 :> 0)}
=============================================================================

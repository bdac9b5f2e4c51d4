------------------------------- MODULE MCEtw -------------------------------
(* Instances of Etw and EtwRespond for TLC.                                *)
EXTENDS EtwRespond, TLC

Limits == [net |-> 1, dns |-> 1]

FewCalls == {[kind |-> "net", dest |-> "x"], [kind |-> "net", dest |-> "y"],
             [kind |-> "dns", dest |-> "x"], [kind |-> "file", dest |-> "x"]}

(* After a loss of the session nothing is claimed, and after one of the    *)
(* queue nothing that the queue decides.                                   *)
Undamaged == etwLost = 0 /\ queueLost = 0

(* Nor is anything claimed once the session is gone, or of an attached     *)
(* agent that changed while the sensor started.  What the agent's calls    *)
(* lead to and what a response does are independent, and a call that is    *)
(* made before the session began leaves no trace.                          *)
Explored ==
  /\ Undamaged /\ phase # "gone"
  /\ agent = "attached" => ~misseeded
  /\ calls > 0 => phase = "on" /\ action = "none" /\ last = "none"

(* Ids other than Root's are interchangeable.                              *)
Ids == Permutations(Pids \ {Root})
============================================================================

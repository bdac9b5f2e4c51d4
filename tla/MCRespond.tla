----------------------------- MODULE MCRespond -----------------------------
(* Instances of Tracking and Respond for TLC.                              *)
EXTENDS Respond, TLC

Calm == [container |-> FALSE, threaded |-> FALSE, mainFirst |-> FALSE,
         ringFills |-> FALSE, seedMisses |-> FALSE, reused |-> TRUE,
         responds |-> FALSE, room |-> 8]

(* A container of single-threaded processes; one with threads where        *)
(* everything goes wrong but the reuse of ids; a process tree with threads *)
(* and a full ring; and process trees that Kill Line acts upon.            *)
Watched ==
  {[Calm EXCEPT !.container = TRUE],
   [Calm EXCEPT !.container = TRUE, !.threaded = TRUE, !.mainFirst = TRUE,
                !.ringFills = TRUE, !.seedMisses = TRUE, !.reused = FALSE,
                !.room = 2],
   [Calm EXCEPT !.threaded = TRUE, !.ringFills = TRUE],
   [Calm EXCEPT !.responds = TRUE],
   [Calm EXCEPT !.responds = TRUE, !.threaded = TRUE, !.reused = FALSE]}

(* Nothing but Root tells one id from another.                             *)
Ids == Permutations(Pids \ {Root})
============================================================================

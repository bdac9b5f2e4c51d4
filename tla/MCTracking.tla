----------------------------- MODULE MCTracking ----------------------------
(* Instances of Tracking for TLC.                                          *)
EXTENDS Tracking

Calm == [container |-> FALSE, threaded |-> FALSE, mainFirst |-> FALSE,
         ringFills |-> FALSE, seedMisses |-> FALSE, reused |-> TRUE,
         responds |-> FALSE, room |-> 8]

(* A process tree with threads, whose main threads may or may not end      *)
(* before the others.                                                      *)
ThreadedTree == {[Calm EXCEPT !.threaded = TRUE]}
MainThreadEnds == {[Calm EXCEPT !.threaded = TRUE, !.mainFirst = TRUE]}
============================================================================

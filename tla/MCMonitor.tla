----------------------------- MODULE MCMonitor -----------------------------
(* Instances of Monitor for TLC: three breaches and the shapes of what     *)
(* Engine::process returns.                                                *)
EXTENDS MonitorRefines

Body(verdict, rule, confirms) ==
  [verdict |-> verdict, rule |-> rule, confirms |-> confirms]

BreachA       == <<Body("violation", "a", FALSE)>>
BreachB       == <<Body("violation", "b", FALSE)>>
BreachC       == <<Body("violation", "c", FALSE)>>
Confirmation  == <<Body("violation", "a", TRUE)>>
Burst         == <<Body("allowed", "a", FALSE), Body("anomaly", "a", FALSE)>>

RecordObservations == {BreachA, BreachB, BreachC, Confirmation, Burst}
FewObservations == {BreachA, Burst}
OneBreach == {BreachA}
============================================================================

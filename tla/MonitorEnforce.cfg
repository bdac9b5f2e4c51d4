\* Freeze on violation, terminate on lost visibility, actions that may fail, a
\* sensor that may be stopped, an operator request.
SPECIFICATION Spec
CONSTANTS
  HeartbeatStale = 0
  Breaches = {"a", "b"}
  Observations <- OneBreach
  Procs = {"p"}
  Root = "p"
  Response = "freeze"
  OnDegraded = "terminate"
  Platforms = {"container", "windows"}
  MaxIncidents = 1
  QuietTicks = 1
  Window = 1
  RingCap = 1
  MaxPoll = 1
  MaxObs = 2
  MaxRequests = 1
INVARIANTS
  EnforcedFirst
  FrozenIsShown
PROPERTIES
  IsRecorder

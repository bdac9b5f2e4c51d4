\* Fail-closed freeze.
SPECIFICATION Spec
CONSTANTS
  HeartbeatStale = 1
  Breaches = {"a", "b"}
  Observations <- FewObservations
  Procs = {"p"}
  Root = "p"
  Response = "alert"
  OnDegraded = "freeze"
  Platforms = {"tree"}
  MaxIncidents = 1
  QuietTicks = 1
  Window = 1
  RingCap = 1
  MaxPoll = 2
  MaxObs = 2
  MaxRequests = 0
INVARIANTS
  FrozenIsShown

\* Liveness: the monitor ends, incidents are finalised, a dead monitor reads GREY.
SPECIFICATION Spec
CONSTANTS
  HeartbeatStale = 1
  Breaches = {"a", "b"}
  Observations <- OneBreach
  Procs = {"p"}
  Root = "p"
  Response = "alert"
  OnDegraded = "alert"
  Platforms = {"tree"}
  MaxIncidents = 1
  QuietTicks = 1
  Window = 1
  RingCap = 1
  MaxPoll = 2
  MaxObs = 2
  MaxRequests = 1
PROPERTIES
  LoopEnds
  BundlesFinalised
  StaleAfterCrash
  RequestServed
  DropsReported

\* Alert only: recording, incidents and their limit, drops, crashes.
SPECIFICATION Spec
CONSTANTS
  HeartbeatStale = 1
  Breaches = {"a", "b", "c"}
  Observations <- RecordObservations
  Procs = {"p"}
  Root = "p"
  Response = "alert"
  OnDegraded = "alert"
  Platforms = {"tree"}
  MaxIncidents = 2
  QuietTicks = 1
  Window = 1
  RingCap = 1
  MaxPoll = 2
  MaxObs = 3
  MaxRequests = 0
INVARIANTS
  TypeOK
  NoGap
  StatusIsTimelines
  OneIncidentPerBreach
  TriggerDurable

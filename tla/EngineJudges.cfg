\* Two threads' file opens, programs, queries and connections under an allowlist.
SPECIFICATION Spec
CONSTANTS
  Names = {"ws", "key", "out", "cache", "lib", "dev", "host", "name"}
  WindowSecs = 1
  Thresholds <- FewOfEach
  MaxFiles = 4
  Tids = {t1, t2}
  Agents = {"files", "net", "any"}
  Shapes <- ShapesOf
  Denied = {"credentials", "privileged", "metadata", "runtime"}
  NetworkMode = "allowlist"
  AllowLocalhost = FALSE
  ListsPrograms = TRUE
  WindowsHost = FALSE
  AnomalyEnabled = TRUE
  MonitorKnown = TRUE
  MaxDrops <- DropsOf
  AttributionSecs = 1
  MaxDns = 2
  CorrelationSecs = 2
  History = 3
  ManyReads = 2
  MaxCalls <- CallsOf
  MaxTime <- TimeOf
INVARIANTS
  TypeOK
  SilencedAreAllowed
  ConfirmsOwn
  AttributionIsExact
  ExfiltrationLinked
  CoolDown
  NoBurstMissed
SYMMETRY Symmetry
CHECK_DEADLOCK FALSE

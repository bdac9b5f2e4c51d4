\* An agent launched or attached to, ids reused, a small queue, losses.
SPECIFICATION RSpec
CONSTANTS
  Pids = {r, a, b}
  Root = r
  Calls <- FewCalls
  QueueCap = 2
  Limit <- Limits
  MaxRecent = 0
  MaxPoll = 2
  MaxStarts = 2
  MaxCalls = 2
  MaxLosses = 1
  MaxBuffer = 2
  MaxResumes = 2
CONSTRAINT Explored
CHECK_DEADLOCK FALSE
SYMMETRY Ids
INVARIANTS
  RTypeOK
  TreeIsTracked
  NothingHidden
  TwoResumesRelease

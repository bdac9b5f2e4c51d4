\* Containers and process trees as Watched lists them, with and without responses.
SPECIFICATION RSpec
CONSTANTS
  Pids = {r, a, b, c}
  Root = r
  Environments <- Watched
CHECK_DEADLOCK FALSE
SYMMETRY Ids
INVARIANTS
  RTypeOK
  TreeIsSeen
  HostStaysUntracked
  LabelIsSetup
  EscapeesAreLate
  ResumeReleases

\* The id of an ended thread is given to a process of the host.
SPECIFICATION Spec
CONSTANTS
  Pids = {"r", "a", "b", "c"}
  Root = "r"
  Environments <- ThreadedTree
INVARIANTS
  HostIsUntracked

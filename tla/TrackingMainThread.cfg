\* A process tree; the main thread of a process ends before another.
SPECIFICATION Spec
CONSTANTS
  Pids = {"r", "a", "b", "c"}
  Root = "r"
  Environments <- MainThreadEnds
INVARIANTS
  AgentIsSeen

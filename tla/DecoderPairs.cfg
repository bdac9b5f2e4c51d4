\* Pairing, order and exactly-once hand-over of two threads' calls.
SPECIFICATION Spec
CONSTANTS
  Threads = {"main", "worker"}
  Leader = "main"
  Container = TRUE
  ResultsEnabled = TRUE
  Decodes = {TRUE, FALSE}
  RingCap = 2
  MaxPoll = 2
  MaxCalls = 2
INVARIANTS
  TypeOK
  OutcomeIsOwn
  LostOnlyByDrop
  ThreadOrder
PROPERTIES
  AllHandedOn

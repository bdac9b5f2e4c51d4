\* Two monitors, a reader, crashes, half-written lines and an edit by hand.
SPECIFICATION Spec
CONSTANTS
  Monitors = {m1, m2}
  m1 = m1
  m2 = m2
  Events <- FewEvents
  FILES <- FewFiles
  Context = 2
  MaxDepth = 0
  Torn = Torn
  Absent = Absent
  Edited = Edited
  MaxId = 2
  Limits <- TwoOrOne
  MaxEdits = 1
CHECK_DEADLOCK FALSE
INVARIANTS
  TypeOK
  ChainIsPrefix
  VerifiedIsWhole

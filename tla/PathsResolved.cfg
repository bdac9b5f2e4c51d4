\* Links, changes between call and decoding, a cache of directories, rules.
SPECIFICATION Spec
CONSTANTS
  Places <- FewPlaces
  Trees <- FewTrees
  Changes <- FewChanges
  Args <- FewArgs
  Dirs <- FewDirs
  Policies <- FewPolicies
  Skipped <- FewSkipped
  Ttl = 2
  MaxHops = 3
  MaxCache = 2
  MaxChanges = 2
  MaxOpens = 2
CHECK_DEADLOCK FALSE
INVARIANTS
  ResolvedRight
  MatchedFirst

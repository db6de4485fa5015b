SPECIFICATION FairSpec
CONSTANTS
  Requests = {r1}
  Users = {1, 2, 3, 4}
  Rows = {1, 2, 3}
  Gated = {2}
  BatchSize = 2
INVARIANTS
  TypeOK
  NoDriftMissed
PROPERTIES
  FailuresAbortNoImport
  EveryRequestEnds

SPECIFICATION FairSpec
CONSTANTS
  Jobs = {j1, j2}
  Fixtures = {f1, f2}
  Playable = {f1}
  Slots = 2
  MaxRetries = 1
  ForceValues = {TRUE, FALSE}
  MaxFaults = 1
INVARIANTS
  TypeOK
  CompletedImported
  AckedTells
  ImportsAccounted
  OnlyOverlapDuplicates
PROPERTY EveryJobEnds

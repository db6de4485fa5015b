SPECIFICATION Spec
CONSTANTS
  Jobs = {j1, j2}
  Fixtures = {f1, f2}
  Playable = {f1}
  Slots = 2
  MaxRetries = 1
  ForceValues = {FALSE}
  MaxFaults = 0
INVARIANT DayImportedOnce

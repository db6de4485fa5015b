SPECIFICATION FairSpec
CONSTANTS
  Workers = {w1, w2}
  Events = {1, 2, 3}
  NoWorker = NoWorker
  Limit = 2
  MaxLost = 2
INVARIANTS
  TypeOK
  EffectsAccounted
PROPERTY EveryEventDelivered

SPECIFICATION FairSpec
CONSTANTS
  Requests = {r1, r2, r3}
  Bodies = {b1, b2}
  PickIds = {p1, p2}
  NoPick = NoPick
  NoBody = NoBody
INVARIANTS
  TypeOK
  OnePickPerKey
  ToldCommitted
PROPERTY KeyComesBack

SPECIFICATION FairSpec
CONSTANTS
  Requests = {r1, r2}
  Picks = {p1, p2}
  Matches = {p1, p2}
  MatchOf <- OwnMatch
  ParlayIds = {q1, q2}
  NoRequest = NoRequest
  NoParlay = NoParlay
  NoPick = NoPick
  Results = {"won", "lost"}
  Ops = {"group", "resolve", "delete", "reject"}
INVARIANTS
  TypeOK
  ResolvedAsLegs
PROPERTIES
  ResolvedForGood
  RetryResolves

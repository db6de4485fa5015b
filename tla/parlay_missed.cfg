SPECIFICATION Spec
CONSTANTS
  Requests = {r1, r2}
  Picks = {p1, p2}
  Matches = {p1, p2}
  MatchOf <- OwnMatch
  ParlayIds = {q1}
  NoRequest = NoRequest
  NoParlay = NoParlay
  NoPick = NoPick
  Results = {"won", "lost", "push", "void"}
  Ops = {"group", "resolve"}
SYMMETRY IdSymmetry
PROPERTIES
  LastLegResolves

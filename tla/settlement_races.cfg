SPECIFICATION Spec
CONSTANTS
  Requests = {r1, r2, r3, r4}
  Picks = {p1, p2}
  Users = {owner}
  DefaultUser = owner
  NoUser = NoUser
  NoRequest = NoRequest
  Stakes = {1, 2}
  Odds = {3}
  FundingDefault = 2
  FundingOther = 0
  Funding <- MCFunding
  Ops = {"create", "settle", "delete", "fix"}
SYMMETRY RequestSymmetry
INVARIANTS
  TypeOK
  OneSettlementPerPick
  OutboxTellsOutcome
  EscrowMatchesPending
  LedgerMirrorsWallet
PROPERTY ImplementsBetBook

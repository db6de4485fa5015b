SPECIFICATION FairSpec
CONSTANTS
  Requests = {r1, r2, r3}
  Picks = {p1, p2}
  Users = {owner, guest}
  DefaultUser = owner
  NoUser = NoUser
  NoRequest = NoRequest
  Stakes = {1, 2}
  Odds = {3}
  FundingDefault = 2
  FundingOther = 1
  Funding <- MCFunding
  Ops = {"create", "settle", "delete", "edit", "fix"}
INVARIANTS
  BalancesNonNegative
  MoneyConserved
  LedgerTotalIsWallet
PROPERTIES
  SettledForGood
  EveryRequestEnds

SPECIFICATION Spec
CONSTANTS
  Picks = {1, 2}
  Days = {1, 2}
  YearOf <- MCYearOf
  RunDate <- MCRunDate
  Stake <- MCStake
  Odds <- MCOdds
  Txns = {1, 2, 3}
  TypeOf <- MCTypeOf
  AmountMxn <- MCAmountMxn
  BatchSize = 1
  MaxCount = 2
CONSTRAINT OneAtATime
INVARIANTS
  TypeOK
  SummaryCountsOnce
  DetailAddsUp
  CountedOnce

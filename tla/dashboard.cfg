SPECIFICATION FairSpec
CONSTANTS
  Changes = {c1, c2}
  Readers = {r1}
  Workers = {w1, w2}
  NoMessage = NoMessage
INVARIANTS
  TypeOK
  SummaryOnlyLags
PROPERTIES
  AggregateNeverOlder
  SummaryCatchesUp

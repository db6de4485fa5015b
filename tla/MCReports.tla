------------------------------- MODULE MCReports -------------------------------
(***************************************************************************)
(* Reports for TLC.                                                        *)
(***************************************************************************)
EXTENDS Reports

MCYearOf == [day \in Days |-> day]
MCRunDate == [p \in Picks |-> 1]
MCStake == [p \in Picks |-> p]
MCOdds == [p \in Picks |-> 3]
MCTypeOf == [t \in Txns |-> IF t = 1 THEN "deposit" ELSE IF t = 2 THEN "withdrawal" ELSE "commission"]
MCAmountMxn == [t \in Txns |-> 2 * t + 1]

NoTransactions == txns = [t \in Txns |-> NoTxn]
NoPicks == picks = [p \in Picks |-> NoPick]
NoReports == report = NoReport
NoAggregates ==
  /\ aggregates = <<[p \in Picks |-> 0], [p \in Picks |-> 0]>>
  /\ script = IdleScript /\ worker = IdleWorker

\* Bound: what shares no state is explored one at a time, the figures of the picks and of
\* the transactions, and the reports and the aggregates; and one commit tears the reports.
OneAtATime ==
  /\ NoTransactions \/ NoPicks
  /\ (NoTransactions /\ NoReports) \/ NoAggregates
  /\ report.commits <= 1
=============================================================================

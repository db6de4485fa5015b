-------------------------------- MODULE Fiscal --------------------------------
(***************************************************************************)
(* The fiscal reports of a year (services/fiscal_service.py) and the       *)
(* cashflow summary (services/transaction_service.py).  Each puts its      *)
(* answer together from several statements at READ COMMITTED, and each     *)
(* statement sees what is committed then: picks by the year in which they  *)
(* were resolved, transactions by tax_year or by transaction_date.         *)
(*                                                                         *)
(* A figure is known by the rows it sums up.  One client asks for the      *)
(* summary of a year, its CSV and its cashflow, in this order, and may     *)
(* stop at any point; requests that only read do not notice each other.    *)
(***************************************************************************)
EXTENDS PickTable, Integers, Functions

CONSTANTS
  Txns,         \* transaction ids
  TypeOf,       \* transaction -> type
  AmountMxn     \* transaction -> amount * exchange_rate

TransactionTypes == {"deposit", "withdrawal", "bonus", "commission", "void_refund"}
InflowTypes == {"deposit", "bonus"}
OutflowTypes == {"withdrawal"}

ASSUME FiscalAssumption ==
  /\ IsFiniteSet(Txns)
  /\ TypeOf \in [Txns -> TransactionTypes]
  /\ AmountMxn \in [Txns -> Nat \ {0}]

VARIABLES
  txns,         \* transaction -> its committed row
  report        \* the client: where it stands and what it has been told

Years == {YearOf[day] : day \in Days}

\* Day 0 is a row that is not there.
TxnRow == [date : Days \cup {0}, tax_year : Years \cup {0}]
NoTxn == [date |-> 0, tax_year |-> 0]

-----------------------------------------------------------------------------
\* What the statements select

\* fiscal_year_expr
FiscalYear(p) == YearOf[IF picks[p].resolved # 0 THEN picks[p].resolved ELSE RunDate[p]]

\* The picks that _aggregate_picks sums up as gross winnings or as gross losses.
Gross(outcome, year) ==
  {p \in Picks : picks[p].status = outcome /\ Stake[p] > 0 /\ FiscalYear(p) = year}

\* The picks of the CSV.
Detailed(year) == {p \in Picks : Resolved(p) /\ FiscalYear(p) = year}

OfTaxYear(year) == {t \in Txns : txns[t].tax_year = year}
OfDates(year) == {t \in Txns : txns[t].date # 0 /\ YearOf[txns[t].date] = year}
OfType(ts, types) == {t \in ts : TypeOf[t] \in types}

-----------------------------------------------------------------------------
\* What is computed from them

Mxn(ts) == SumFunctionOnSet(AmountMxn, ts)

\* gross_winnings - gross_losses
NetGamblingIncome(won, lost) ==
  SumFunctionOnSet([p \in Picks |-> Stake[p] * Odds[p] - Stake[p]], won)
    - SumFunctionOnSet(Stake, lost)

\* Mutant: a void pick returns its stake.
PickNetOfVoid(p) ==
  LET credit == CASE picks[p].status = "won" -> Stake[p] * Odds[p]
                  [] picks[p].status = "void" -> Stake[p]
                  [] OTHER -> 0
      debit == IF picks[p].status \in {"won", "lost"} THEN Stake[p] ELSE 0
  IN credit - debit

\* net_mxn of the row of a pick in the CSV.
PickNet(p) ==
  LET credit == IF picks[p].status = "won" THEN Stake[p] * Odds[p] ELSE 0
      debit == IF picks[p].status \in {"won", "lost"} THEN Stake[p] ELSE 0
  IN credit - debit

\* ... and of a transaction: commissions and refunds are credits too.
TxnNet(t) ==
  IF TypeOf[t] \in OutflowTypes THEN -AmountMxn[t] ELSE AmountMxn[t]

\* estimated_balance_mxn summed over the sportsbooks, or total_in_mxn - total_out_mxn.
CashflowNet(ts) == Mxn(OfType(ts, InflowTypes)) - Mxn(OfType(ts, OutflowTypes))

-----------------------------------------------------------------------------
\* Transactions are written

NoReport ==
  [at |-> "idle", year |-> 0, won |-> {}, lost |-> {}, inflow |-> {}, outflow |-> {},
   rows |-> {}, entries |-> {}, cash |-> {},
   before |-> [won |-> {}, lost |-> {}], commits |-> 0, edited |-> {}]

InitFiscal ==
  /\ txns = [t \in Txns |-> NoTxn]
  /\ report = NoReport

\* Something is committed under the reports of a client, perhaps new figures of picks.
Tear(edited) ==
  report' = IF report.at = "idle" THEN report
            ELSE [report EXCEPT !.commits = @ + 1, !.edited = @ \cup edited]

\* _persist_transaction: a tax_year that is not sent is that of transaction_date.
WriteTransaction(t) ==
  /\ txns[t] = NoTxn
  /\ \E day \in Days, year \in Years :
       txns' = [txns EXCEPT ![t] = [date |-> day, tax_year |-> year]]
  /\ Tear({})

\* update_transaction sets the columns that are sent: a new transaction_date leaves
\* tax_year as it was.
UpdateTransaction(t) ==
  /\ txns[t] # NoTxn
  /\ \E day \in Days, year \in Years :
       txns' = [txns EXCEPT ![t] = [date |-> day, tax_year |-> year]]
  /\ Tear({})

EraseTransaction(t) ==
  /\ txns[t] # NoTxn
  /\ txns' = [txns EXCEPT ![t] = NoTxn]
  /\ Tear({})

-----------------------------------------------------------------------------
\* get_fiscal_summary, get_fiscal_detail_rows and get_cashflow_summary

AskReports(year) ==
  /\ report.at = "idle"
  /\ report' = [NoReport EXCEPT !.at = "won", !.year = year,
                                !.before = [won |-> Gross("won", year),
                                            lost |-> Gross("lost", year)]]
  /\ UNCHANGED txns

ReadWon ==
  /\ report.at = "won"
  /\ report' = [report EXCEPT !.at = "lost", !.won = Gross("won", report.year)]
  /\ UNCHANGED txns

ReadLost ==
  /\ report.at = "lost"
  /\ report' = [report EXCEPT !.at = "inflow", !.lost = Gross("lost", report.year)]
  /\ UNCHANGED txns

ReadInflow ==
  /\ report.at = "inflow"
  /\ report' = [report EXCEPT !.at = "outflow",
                              !.inflow = OfType(OfTaxYear(report.year), InflowTypes)]
  /\ UNCHANGED txns

ReadOutflow ==
  /\ report.at = "outflow"
  /\ report' = [report EXCEPT !.at = "rows",
                              !.outflow = OfType(OfTaxYear(report.year), OutflowTypes)]
  /\ UNCHANGED txns

ReadDetailPicks ==
  /\ report.at = "rows"
  /\ report' = [report EXCEPT !.at = "entries", !.rows = Detailed(report.year)]
  /\ UNCHANGED txns

ReadDetailTransactions ==
  /\ report.at = "entries"
  /\ report' = [report EXCEPT !.at = "cash", !.entries = OfTaxYear(report.year)]
  /\ UNCHANGED txns

\* Of the dates of the year; the names of the sportsbooks are read after it.
ReadCashflow ==
  /\ report.at = "cash"
  /\ report' = [report EXCEPT !.at = "told", !.cash = OfDates(report.year)]
  /\ UNCHANGED txns

\* The client has its answers, or goes away, or a statement fails.
EndReports ==
  /\ report.at # "idle"
  /\ report' = NoReport
  /\ UNCHANGED txns

ReportStep ==
  \/ \E year \in Years : AskReports(year)
  \/ ReadWon \/ ReadLost \/ ReadInflow \/ ReadOutflow
  \/ ReadDetailPicks \/ ReadDetailTransactions \/ ReadCashflow \/ EndReports

TransactionStep ==
  \E t \in Txns : WriteTransaction(t) \/ UpdateTransaction(t) \/ EraseTransaction(t)
=============================================================================

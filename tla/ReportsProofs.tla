----------------------------- MODULE ReportsProofs -----------------------------
(***************************************************************************)
(* What Reports promises for any number of picks, days and transactions:   *)
(* types, the fiscal summary, and the picks that the backfill has counted. *)
(***************************************************************************)
EXTENDS Reports, FiniteSetTheorems, WellFoundedInduction, TLAPS

-----------------------------------------------------------------------------
\* The inductive invariant

\* What the summary of a client rests on: what was so when it asked is so still, and what
\* it has read is so now.
ReportInv ==
  LET started == report.at # "idle"
      wonRead == started /\ report.at # "won"
      lostRead == wonRead /\ report.at # "lost"
      listed == report.at \in {"entries", "cash", "told"}
  IN /\ started => /\ report.year \in Years
                   /\ report.before.won \subseteq Gross("won", report.year)
                   /\ report.before.lost \subseteq Gross("lost", report.year)
     /\ wonRead => /\ report.before.won \subseteq report.won
                   /\ report.won \subseteq Gross("won", report.year)
     /\ lostRead => /\ report.before.lost \subseteq report.lost
                    /\ report.lost \subseteq Gross("lost", report.year)
     /\ listed => report.won \cup report.lost \subseteq report.rows

\* What a batch holds is, of the picks that nobody touched, the page after the cursor.
BatchInv ==
  script.at = "flush" =>
    /\ script.upto \in Picks
    /\ script.last_id < script.upto
    /\ script.profits \subseteq script.batch
    /\ \A p \in Picks \ touched :
         /\ p \in script.batch <=> Exists(p) /\ script.last_id < p /\ p <= script.upto
         /\ p \in script.profits <=> p \in script.batch /\ Resolved(p)

-----------------------------------------------------------------------------
\* The fiscal figures

\* A pick is won or lost, not both.
LEMMA GrossDisjoint ==
  ASSUME NEW year
  PROVE  Gross("won", year) \cap Gross("lost", year) = {}
BY DEF Gross

\* Every pick summed up has a row in the CSV.
LEMMA GrossDetailed ==
  ASSUME NEW year
  PROVE  Gross("won", year) \cup Gross("lost", year) \subseteq Detailed(year)
BY DEF Gross, Detailed, Resolved, Outcomes

\* A commit that concerns a pick leaves the others alone, and takes no won or lost pick out
\* of its year.
LEMMA GrossGrows ==
  ASSUME TypeOK, NEW p \in Picks, PickStep(p)
  PROVE  /\ \A q \in Picks \ {p} : picks'[q] = picks[q]
         /\ \A year : /\ Gross("won", year) \subseteq Gross("won", year)'
                      /\ Gross("lost", year) \subseteq Gross("lost", year)'
<1>1. picks \in [Picks -> PickRow]
  BY DEF TypeOK
<1>2. \A q \in Picks : q # p \/ picks[p].status \in {"won", "lost"} => picks'[q] = picks[q]
  <2>1. CASE CreatePick(p)
    BY <1>1, <2>1 DEF CreatePick
  <2>2. CASE SettlePick(p)
    BY <1>1, <2>2 DEF SettlePick
  <2>3. CASE EditPick(p)
    BY <2>3 DEF EditPick, pickTable
  <2>4. QED
    BY <2>1, <2>2, <2>3 DEF PickStep
<1>3. ASSUME NEW year, NEW o \in {"won", "lost"}, NEW q \in Gross(o, year)
      PROVE  q \in Gross(o, year)'
  <2>1. q \in Picks /\ picks[q].status \in {"won", "lost"}
    BY <1>3 DEF Gross
  <2>2. picks'[q] = picks[q]
    BY <1>2, <2>1
  <2>3. QED
    BY <1>3, <2>1, <2>2 DEF Gross, FiscalYear
<1>4. QED
  BY <1>2, <1>3

LEMMA GrossSame ==
  ASSUME UNCHANGED picks
  PROVE  \A o, year : Gross(o, year)' = Gross(o, year)
BY DEF Gross, FiscalYear

\* Something is committed under the client.
CommitUnder == \E edited \in SUBSET Picks : Tear(edited)

\* A client that is torn stands where it stood and has read what it had read.
LEMMA Torn ==
  ASSUME report \in Report, CommitUnder
  PROVE  /\ report' \in Report
         /\ report'.at = report.at /\ report'.year = report.year
         /\ report'.won = report.won /\ report'.lost = report.lost
         /\ report'.rows = report.rows /\ report'.before = report.before
<1>1. PICK edited \in SUBSET Picks : Tear(edited)
  BY DEF CommitUnder
<1>2. CASE report.at = "idle"
  BY <1>1, <1>2 DEF Tear
<1>3. CASE report.at # "idle"
  <2>1. report' = [report EXCEPT !.commits = @ + 1, !.edited = @ \cup edited]
    BY <1>1, <1>3 DEF Tear
  <2>2. report.commits + 1 \in Nat /\ report.edited \cup edited \in SUBSET Picks
    BY DEF Report
  <2>3. QED
    BY <2>1, <2>2 DEF Report
<1>4. QED
  BY <1>2, <1>3

\* A client keeps what it knows when others commit.
LEMMA ReportKeeps ==
  ASSUME ReportInv, report \in Report, CommitUnder \/ UNCHANGED report,
         \A year : /\ Gross("won", year) \subseteq Gross("won", year)'
                   /\ Gross("lost", year) \subseteq Gross("lost", year)'
  PROVE  report' \in Report /\ ReportInv'
<1>1. /\ report' \in Report
      /\ report'.at = report.at /\ report'.year = report.year
      /\ report'.won = report.won /\ report'.lost = report.lost
      /\ report'.rows = report.rows /\ report'.before = report.before
  BY Torn
<1>2. QED
  BY <1>1 DEF ReportInv

\* The statements of the reports.
LEMMA ReportReads ==
  ASSUME TypeOK, ReportInv, ReportStep, UNCHANGED picks
  PROVE  report' \in Report /\ ReportInv'
<1>1. report \in Report
  BY DEF TypeOK
<1>2. \A o, year : Gross(o, year)' = Gross(o, year)
  BY GrossSame
<1>3. \A o, year : Gross(o, year) \in SUBSET Picks
  BY DEF Gross
<1>4. ASSUME NEW year \in Years, AskReports(year)
      PROVE  report' \in Report /\ ReportInv'
  <2>1. report' = [NoReport EXCEPT !.at = "won", !.year = year,
                                   !.before = [won |-> Gross("won", year),
                                               lost |-> Gross("lost", year)]]
    BY <1>4 DEF AskReports
  <2>2. /\ report' \in Report
        /\ report'.at = "won" /\ report'.year = year
        /\ report'.before.won = Gross("won", year) /\ report'.before.lost = Gross("lost", year)
    BY <2>1, <1>3 DEF NoReport, Report
  <2>3. QED
    BY <2>2, <1>2 DEF ReportInv
<1>5. CASE ReadWon
  <2>1. /\ report' \in Report
        /\ report.at = "won" /\ report'.at = "lost" /\ report'.year = report.year
        /\ report'.won = Gross("won", report.year) /\ report'.before = report.before
    BY <1>1, <1>3, <1>5 DEF ReadWon, Report
  <2>2. QED
    BY <2>1, <1>2 DEF ReportInv
<1>6. CASE ReadLost
  <2>1. /\ report' \in Report
        /\ report.at = "lost" /\ report'.at = "inflow" /\ report'.year = report.year
        /\ report'.won = report.won
        /\ report'.lost = Gross("lost", report.year) /\ report'.before = report.before
    BY <1>1, <1>3, <1>6 DEF ReadLost, Report
  <2>2. QED
    BY <2>1, <1>2 DEF ReportInv
<1>7. CASE ReadInflow \/ ReadOutflow
  <2>1. OfType(OfTaxYear(report.year), InflowTypes) \in SUBSET Txns
        /\ OfType(OfTaxYear(report.year), OutflowTypes) \in SUBSET Txns
    BY DEF OfType, OfTaxYear
  <2>2. /\ report' \in Report
        /\ report.at \in {"inflow", "outflow"} /\ report'.at \in {"outflow", "rows"}
        /\ report'.year = report.year
        /\ report'.won = report.won
        /\ report'.lost = report.lost /\ report'.before = report.before
    BY <1>1, <2>1, <1>7 DEF ReadInflow, ReadOutflow, Report
  <2>3. QED
    BY <2>2, <1>2 DEF ReportInv
<1>8. CASE ReadDetailPicks
  <2>1. Detailed(report.year) \in SUBSET Picks
    BY DEF Detailed
  <2>2. /\ report' \in Report
        /\ report.at = "rows" /\ report'.at = "entries" /\ report'.year = report.year
        /\ report'.won = report.won
        /\ report'.lost = report.lost /\ report'.before = report.before
        /\ report'.rows = Detailed(report.year)
    BY <1>1, <2>1, <1>8 DEF ReadDetailPicks, Report
  <2>3. report.won \cup report.lost \subseteq Detailed(report.year)
    BY <2>2, GrossDetailed DEF ReportInv
  <2>4. QED
    BY <2>2, <2>3, <1>2 DEF ReportInv
<1>9. CASE ReadDetailTransactions \/ ReadCashflow
  <2>1. OfTaxYear(report.year) \in SUBSET Txns /\ OfDates(report.year) \in SUBSET Txns
    BY DEF OfTaxYear, OfDates
  <2>2. /\ report' \in Report
        /\ report.at \in {"entries", "cash"} /\ report'.at \in {"cash", "told"}
        /\ report'.year = report.year
        /\ report'.won = report.won /\ report'.rows = report.rows
        /\ report'.lost = report.lost /\ report'.before = report.before
    BY <1>1, <2>1, <1>9 DEF ReadDetailTransactions, ReadCashflow, Report
  <2>3. QED
    BY <2>2, <1>2 DEF ReportInv
<1>10. CASE EndReports
  <2>1. report' \in Report /\ report'.at = "idle"
    BY <1>10 DEF EndReports, NoReport, Report
  <2>2. QED
    BY <2>1 DEF ReportInv
<1>11. QED
  BY <1>4, <1>5, <1>6, <1>7, <1>8, <1>9, <1>10 DEF ReportStep

\* The transactions keep their type, and nothing else is written with them.
LEMMA TransactionsTyped ==
  ASSUME TypeOK, TransactionStep
  PROVE  txns' \in [Txns -> TxnRow] /\ CommitUnder
<1>1. txns \in [Txns -> TxnRow]
  BY DEF TypeOK
<1>2. \A day \in Days, year \in Years : [date |-> day, tax_year |-> year] \in TxnRow
  BY DEF TxnRow
<1>3. NoTxn \in TxnRow
  BY DEF NoTxn, TxnRow
<1>4. txns' \in [Txns -> TxnRow] /\ Tear({})
  BY <1>1, <1>2, <1>3 DEF TransactionStep, WriteTransaction, UpdateTransaction, EraseTransaction
<1>5. QED
  BY <1>4 DEF CommitUnder

-----------------------------------------------------------------------------
\* The aggregates

\* Everything that the script and the worker write, with its type.
BackfillTypeOK ==
  /\ counted \in [Picks -> Nat]
  /\ paid \in [Picks -> Nat]
  /\ script \in Script
  /\ worker \in [day : Days \cup {0}, scan : SUBSET Picks, profits : SUBSET Picks]
  /\ touched \in SUBSET Picks
  /\ script.at = "flush" \/ script.batch = {}
  /\ \A p \in Picks : paid[p] <= counted[p]

BackfillInv ==
  /\ BackfillTypeOK
  /\ BatchInv
  /\ CountedUpToCursor
  /\ worker.profits \subseteq worker.scan

LEMMA IdleTyped ==
  /\ IdleScript \in Script
  /\ IdleScript.at = "idle" /\ IdleScript.last_id = 0 /\ IdleScript.batch = {}
  /\ IdleWorker \in [day : Days \cup {0}, scan : SUBSET Picks, profits : SUBSET Picks]
  /\ IdleWorker.profits = {}
BY DEF IdleScript, IdleWorker, Script

\* A commit that concerns a pick concerns no other, and that one is touched.
LEMMA BackfillKeepsOnCommit ==
  ASSUME BackfillInv, NEW p \in Picks,
         \A q \in Picks \ {p} : picks'[q] = picks[q],
         Touch({p}), UNCHANGED <<aggregates, script, worker>>
  PROVE  BackfillInv'
<1>1. touched' = touched \cup {p} /\ touched' \in SUBSET Picks
  BY DEF Touch, BackfillInv, BackfillTypeOK
<1>2. UNCHANGED <<counted, paid, script, worker>>
  BY DEF aggregates
<1>3. \A q \in Picks \ touched' : q \in Picks \ touched /\ picks'[q] = picks[q]
  BY <1>1
<1>4. BackfillTypeOK'
  BY <1>1, <1>2 DEF BackfillInv, BackfillTypeOK
<1>5. BatchInv'
  BY <1>2, <1>3 DEF BackfillInv, BatchInv, Exists, Resolved
<1>6. CountedUpToCursor'
  BY <1>2, <1>3 DEF BackfillInv, CountedUpToCursor, Exists, Resolved
<1>7. QED
  BY <1>2, <1>4, <1>5, <1>6 DEF BackfillInv

LEMMA BackfillKeepsUnchanged ==
  ASSUME BackfillInv, UNCHANGED <<picks, backfill>>
  PROVE  BackfillInv'
BY DEF BackfillInv, BackfillTypeOK, BatchInv, CountedUpToCursor, Exists, Resolved,
       backfill, aggregates

\* A run that begins has emptied the tables, or answers for the picks that they have not.
LEMMA ScriptBegins ==
  ASSUME BackfillInv, Truncate \/ SkipTruncate, UNCHANGED picks
  PROVE  BackfillInv'
<1>1. /\ script' = [IdleScript EXCEPT !.at = "read"]
      /\ UNCHANGED worker
  BY DEF Truncate, SkipTruncate
<1>2. script' \in Script /\ script'.at = "read" /\ script'.last_id = 0 /\ script'.batch = {}
  BY <1>1 DEF IdleScript, Script
<1>3. \A p \in Picks : p \in Nat \ {0}
  BY PickTableAssumption
<1>4. CASE Truncate
  <2>1. /\ counted' = [p \in Picks |-> 0] /\ paid' = [p \in Picks |-> 0] /\ touched' = {}
    BY <1>4 DEF Truncate
  <2>2. BackfillTypeOK'
    BY <1>1, <1>2, <2>1 DEF BackfillInv, BackfillTypeOK
  <2>3. CountedUpToCursor'
    BY <1>2, <1>3, <2>1 DEF CountedUpToCursor
  <2>4. QED
    BY <1>1, <1>2, <2>2, <2>3 DEF BackfillInv, BatchInv
<1>5. CASE SkipTruncate
  <2>1. /\ UNCHANGED <<counted, paid>>
        /\ touched' = touched \cup {p \in Picks : counted[p] # 0}
    BY <1>5 DEF SkipTruncate, Touch, aggregates
  <2>2. BackfillTypeOK'
    BY <1>1, <1>2, <2>1 DEF BackfillInv, BackfillTypeOK
  <2>3. \A p \in Picks \ touched' : counted'[p] = 0 /\ paid'[p] = 0
    <3>1. \A p \in Picks : counted[p] \in Nat /\ paid[p] \in Nat /\ paid[p] <= counted[p]
      BY DEF BackfillInv, BackfillTypeOK
    <3>2. QED
      BY <2>1, <3>1
  <2>4. CountedUpToCursor'
    BY <1>2, <1>3, <2>3 DEF CountedUpToCursor
  <2>5. QED
    BY <1>1, <1>2, <2>2, <2>4 DEF BackfillInv, BatchInv
<1>6. QED
  BY <1>4, <1>5

LEMMA ScriptReads ==
  ASSUME BackfillInv, ReadBatch, UNCHANGED picks
  PROVE  BackfillInv'
<1>1. PICK last \in Picks :
        /\ IsPage(last)
        /\ script' = [script EXCEPT !.at = "flush", !.upto = last, !.batch = PageUpTo(last),
                                    !.profits = {p \in PageUpTo(last) : Resolved(p)}]
  BY DEF ReadBatch
<1>2. UNCHANGED <<counted, paid, worker, touched>>
  BY DEF ReadBatch, aggregates
<1>3. script \in Script
  BY DEF BackfillInv, BackfillTypeOK
<1>4. PageUpTo(last) = {p \in Picks : Exists(p) /\ script.last_id < p /\ p <= last}
  BY DEF PageUpTo, After
<1>5. /\ script' \in Script
      /\ script'.at = "flush" /\ script'.last_id = script.last_id /\ script'.upto = last
      /\ script'.batch = PageUpTo(last)
      /\ script'.profits = {p \in PageUpTo(last) : Resolved(p)}
  BY <1>1, <1>3, <1>4 DEF Script
<1>6. BackfillTypeOK'
  BY <1>2, <1>5 DEF BackfillInv, BackfillTypeOK
<1>7. BatchInv'
  BY <1>1, <1>2, <1>4, <1>5 DEF BatchInv, IsPage, After, Exists, Resolved
<1>8. CountedUpToCursor'
  BY <1>2, <1>5 DEF BackfillInv, CountedUpToCursor, Exists, Resolved
<1>9. QED
  BY <1>2, <1>6, <1>7, <1>8 DEF BackfillInv

\* The batch adds one to what it holds, which is what the cursor passes.
LEMMA ScriptFlushes ==
  ASSUME BackfillInv, FlushBatch, UNCHANGED picks
  PROVE  BackfillInv'
<1>1. /\ script.at = "flush"
      /\ counted' = Merged(counted, script.batch)
      /\ paid' = Merged(paid, script.profits)
      /\ script' = [IdleScript EXCEPT !.at = "read", !.last_id = script.upto]
      /\ UNCHANGED <<worker, touched>>
  BY DEF FlushBatch
<1>2. /\ script.upto \in Picks /\ script.last_id < script.upto
      /\ script.profits \subseteq script.batch
      /\ \A p \in Picks \ touched :
           /\ p \in script.batch <=> Exists(p) /\ script.last_id < p /\ p <= script.upto
           /\ p \in script.profits <=> p \in script.batch /\ Resolved(p)
  BY <1>1 DEF BackfillInv, BatchInv
<1>3. \A p \in Picks : p \in Nat
  BY PickTableAssumption
<1>4. /\ script' \in Script
      /\ script'.at = "read" /\ script'.last_id = script.upto /\ script'.batch = {}
  BY <1>1, <1>2 DEF IdleScript, Script
<1>5. \A p \in Picks :
        /\ counted[p] \in Nat /\ paid[p] \in Nat /\ paid[p] <= counted[p]
        /\ counted'[p] = IF p \in script.batch THEN counted[p] + 1 ELSE counted[p]
        /\ paid'[p] = IF p \in script.profits THEN paid[p] + 1 ELSE paid[p]
  BY <1>1 DEF BackfillInv, BackfillTypeOK, Merged
<1>6. counted' \in [Picks -> Nat] /\ paid' \in [Picks -> Nat]
  BY <1>1, <1>5 DEF Merged
<1>7. \A p \in Picks : paid'[p] <= counted'[p]
  BY <1>2, <1>5
<1>8. BackfillTypeOK'
  BY <1>1, <1>4, <1>6, <1>7 DEF BackfillInv, BackfillTypeOK
<1>9. CountedUpToCursor'
  <2>1. SUFFICES ASSUME NEW p \in Picks \ touched
                 PROVE  /\ counted'[p] = IF Exists(p) /\ p <= script.upto THEN 1 ELSE 0
                        /\ paid'[p] = IF Resolved(p) /\ p <= script.upto THEN 1 ELSE 0
    BY <1>1, <1>4 DEF CountedUpToCursor, Exists, Resolved
  <2>2. /\ counted[p] = IF Exists(p) /\ p <= script.last_id THEN 1 ELSE 0
        /\ paid[p] = IF Resolved(p) /\ p <= script.last_id THEN 1 ELSE 0
    BY DEF BackfillInv, CountedUpToCursor
  <2>3. Resolved(p) => Exists(p)
    BY DEF Resolved, Exists, Outcomes
  <2>4. script.last_id \in Nat /\ script.upto \in Nat /\ p \in Nat
    BY <1>2, <1>3 DEF BackfillInv, BackfillTypeOK, Script
  <2>5. QED
    BY <1>2, <1>5, <2>2, <2>3, <2>4
<1>10. QED
  BY <1>1, <1>4, <1>8, <1>9 DEF BackfillInv, BatchInv
\* The run ends, or goes on to its validation.
LEMMA ScriptEnds ==
  ASSUME BackfillInv, UNCHANGED picks,
         ScriptDies \/ LastPage \/ CountPicks \/ CountRows \/ SumPicks \/ SumRows \/ Exit
  PROVE  BackfillInv'
<1>1. script \in Script /\ UNCHANGED <<counted, paid, worker, touched>>
  BY DEF BackfillInv, BackfillTypeOK, aggregates,
         ScriptDies, LastPage, CountPicks, CountRows, SumPicks, SumRows, Exit
<1>2. Cardinality({p \in Picks : Exists(p)}) \in Nat
      /\ Cardinality({p \in Picks : Resolved(p)}) \in Nat
  BY FS_Subset, FS_CardinalityType, PickTableAssumption
<1>3. /\ script' \in Script
      /\ script'.at # "flush" /\ script'.last_id = script.last_id /\ script'.batch = {}
  <2>1. CASE ScriptDies \/ Exit
    <3>1. script' = [IdleScript EXCEPT !.last_id = script.last_id]
      BY <2>1 DEF ScriptDies, Exit
    <3>2. script' = [at |-> "idle", last_id |-> script.last_id, upto |-> 0, batch |-> {},
                     profits |-> {}, seen |-> 0, fails |-> FALSE]
      BY <3>1 DEF IdleScript
    <3>3. script.last_id \in Picks \cup {0}
      BY <1>1 DEF Script
    <3>4. QED
      BY <3>2, <3>3 DEF Script
  <2>2. ASSUME LastPage \/ CountPicks \/ CountRows \/ SumPicks \/ SumRows
        PROVE  script.at # "flush"
    BY <2>2 DEF LastPage, CountPicks, CountRows, SumPicks, SumRows
  <2>3. ASSUME script.at # "flush" PROVE script.batch = {}
    BY <2>3 DEF BackfillInv, BackfillTypeOK
  <2>4. CASE LastPage
    BY <1>1, <2>2, <2>3, <2>4 DEF LastPage, Script
  <2>5. CASE CountPicks \/ SumPicks
    BY <1>1, <1>2, <2>2, <2>3, <2>5 DEF CountPicks, SumPicks, Script
  <2>6. CASE CountRows
    <3>1. (script.seen # Total(counted)) \in BOOLEAN
      OBVIOUS
    <3>2. QED
      BY <1>1, <2>2, <2>3, <2>6, <3>1 DEF CountRows, Script
  <2>7. CASE SumRows
    <3>1. (script.fails \/ script.seen # Total(paid)) \in BOOLEAN
      OBVIOUS
    <3>2. QED
      BY <1>1, <2>2, <2>3, <2>7, <3>1 DEF SumRows, Script
  <2>8. QED
    BY <2>1, <2>4, <2>5, <2>6, <2>7
<1>4. QED
  BY <1>1, <1>3
  DEF BackfillInv, BackfillTypeOK, BatchInv, CountedUpToCursor, Exists, Resolved

\* A recomputation replaces the row of its day and touches what is in it.
LEMMA WorkerKeeps ==
  ASSUME BackfillInv, WorkerStep, UNCHANGED picks
  PROVE  BackfillInv'
<1>1. CASE RecomputeScan
  <2>1. PICK day \in Days :
          worker' = [day |-> day,
                     scan |-> {p \in OfDay(day) : Exists(p)},
                     profits |-> {p \in OfDay(day) : Resolved(p)}]
    BY <1>1 DEF RecomputeScan
  <2>2. UNCHANGED <<counted, paid, script, touched>>
    BY <1>1 DEF RecomputeScan, aggregates
  <2>3. worker'.profits \subseteq worker'.scan
    BY <2>1 DEF Resolved, Exists, Outcomes
  <2>4. worker' \in [day : Days \cup {0}, scan : SUBSET Picks, profits : SUBSET Picks]
    BY <2>1 DEF OfDay
  <2>5. QED
    BY <2>2, <2>3, <2>4
    DEF BackfillInv, BackfillTypeOK, BatchInv, CountedUpToCursor, Exists, Resolved
<1>2. CASE RecomputeFails
  <2>1. worker' = IdleWorker /\ UNCHANGED <<counted, paid, script, touched>>
    BY <1>2 DEF RecomputeFails, aggregates
  <2>2. QED
    BY <2>1, IdleTyped
    DEF BackfillInv, BackfillTypeOK, BatchInv, CountedUpToCursor, Exists, Resolved
<1>3. CASE RecomputeUpsert
  <2>1. /\ counted' = Replaced(counted, worker.scan)
        /\ paid' = Replaced(paid, worker.profits)
        /\ touched' = touched \cup OfDay(worker.day)
        /\ worker' = IdleWorker /\ UNCHANGED script
    BY <1>3 DEF RecomputeUpsert, Touch
  <2>2. \A p \in Picks :
          /\ counted[p] \in Nat /\ paid[p] \in Nat /\ paid[p] <= counted[p]
          /\ counted'[p] = IF RunDate[p] # worker.day THEN counted[p]
                           ELSE IF p \in worker.scan THEN 1 ELSE 0
          /\ paid'[p] = IF RunDate[p] # worker.day THEN paid[p]
                        ELSE IF p \in worker.profits THEN 1 ELSE 0
    BY <2>1 DEF BackfillInv, BackfillTypeOK, Replaced
  <2>3. counted' \in [Picks -> Nat] /\ paid' \in [Picks -> Nat]
    BY <2>1, <2>2 DEF Replaced
  <2>4. \A p \in Picks : paid'[p] <= counted'[p]
    BY <2>2 DEF BackfillInv
  <2>5. \A p \in Picks \ touched' : p \in Picks \ touched /\ RunDate[p] # worker.day
    BY <2>1 DEF OfDay
  <2>6. touched' \in SUBSET Picks
    BY <2>1 DEF OfDay, BackfillInv, BackfillTypeOK
  <2>7. BackfillTypeOK'
    BY <2>1, <2>3, <2>4, <2>6, IdleTyped DEF BackfillInv, BackfillTypeOK
  <2>8. CountedUpToCursor'
    BY <2>1, <2>2, <2>5 DEF BackfillInv, CountedUpToCursor, Exists, Resolved
  <2>9. BatchInv'
    BY <2>1, <2>5 DEF BackfillInv, BatchInv, Exists, Resolved
  <2>10. QED
    BY <2>1, <2>7, <2>8, <2>9, IdleTyped DEF BackfillInv
<1>4. QED
  BY <1>1, <1>2, <1>3 DEF WorkerStep

-----------------------------------------------------------------------------
(***************************************************************************)
(* Sums over finite sets: what SumFunctionOnSet of the module Functions    *)
(* returns.  It chooses a function on the subsets of the set that adds one *)
(* chosen element to the sum of the others; that such a function exists,   *)
(* and that it does not matter which element is chosen, is shown by        *)
(* induction over the finite subsets, a well-founded order.                *)
(* (SettlementProofs has the first of these lemmas too.)                   *)
(***************************************************************************)

\* The element that a sum over s adds first, and the rest of s.
Chosen(s) == CHOOSE x \in s : TRUE
Others(s) == s \ {Chosen(s)}

\* F gives the sum of f over every subset of S.
PartialSums(f, S, F) ==
  F = [s \in SUBSET S |-> IF s = {} THEN 0 ELSE f[Chosen(s)] + F[Others(s)]]

\* SumFunctionOnSet is the value at S of such a function.
LEMMA SumIsPartial ==
  ASSUME NEW f, NEW S
  PROVE  SumFunctionOnSet(f, S) = (CHOOSE F : PartialSums(f, S, F))[S]
BY DEF SumFunctionOnSet, FoldFunctionOnSet, MapThenFoldSet, PartialSums, Chosen, Others

\* The chosen element is one of the set.
LEMMA ChosenIn == ASSUME NEW s, s # {} PROVE Chosen(s) \in s
BY DEF Chosen

\* The others are a smaller set.
LEMMA OthersIn == ASSUME NEW s, s # {} PROVE Others(s) \in (SUBSET s) \ {s}
BY ChosenIn DEF Others

\* Induction over the subsets of a finite set: a set of subsets that holds T whenever it
\* holds every smaller subset of T holds them all.
LEMMA SetInduction ==
  ASSUME NEW S, IsFiniteSet(S), NEW Good,
         \A T \in SUBSET S : (\A U \in (SUBSET T) \ {T} : U \in Good) => T \in Good
  PROVE  S \in Good
<1>1. IsWellFoundedOn(StrictSubsetOrdering(S), SUBSET S)
  BY FS_StrictSubsetOrderingWellFounded, FS_FiniteSubsetsOfFinite
<1>2. SUFFICES ASSUME S \notin Good PROVE FALSE
  OBVIOUS
<1> DEFINE Bad == {T \in SUBSET S : T \notin Good}
<1>3. Bad # {} /\ Bad \subseteq SUBSET S
  BY <1>2
<1>4. \E T \in Bad : \A U \in Bad : ~(<<U, T>> \in StrictSubsetOrdering(S))
  <2> HIDE DEF Bad
  <2>1. QED
    BY <1>1, <1>3, WFMin
<1>5. PICK T \in Bad : \A U \in Bad : ~(<<U, T>> \in StrictSubsetOrdering(S))
  BY <1>4
<1>6. \A U \in (SUBSET T) \ {T} : U \in Good
  BY <1>5 DEF StrictSubsetOrdering
<1>7. QED
  BY <1>5, <1>6

\* Two functions that give sums agree where both are defined.
LEMMA SumsUnique ==
  ASSUME NEW f, NEW S, NEW T \in SUBSET S, IsFiniteSet(T),
         NEW F, NEW G, PartialSums(f, S, F), PartialSums(f, T, G)
  PROVE  F[T] = G[T]
<1> DEFINE Good == {V \in SUBSET T : F[V] = G[V]}
<1>1. ASSUME NEW V \in SUBSET T, \A W \in (SUBSET V) \ {V} : W \in Good
      PROVE  V \in Good
  <2>1. V \in SUBSET S /\ V \in SUBSET T
    OBVIOUS
  <2>2. CASE V = {}
    BY <2>1, <2>2 DEF PartialSums
  <2>3. CASE V # {}
    <3>1. F[Others(V)] = G[Others(V)]
      BY <1>1, <2>3, OthersIn
    <3>2. F[V] = f[Chosen(V)] + F[Others(V)]
      BY <2>1, <2>3 DEF PartialSums
    <3>3. G[V] = f[Chosen(V)] + G[Others(V)]
      BY <2>1, <2>3 DEF PartialSums
    <3>4. QED
      BY <3>1, <3>2, <3>3
  <2>4. QED
    BY <2>2, <2>3
<1>2. T \in Good
  <2> HIDE DEF Good
  <2>1. QED
    BY <1>1, SetInduction
<1>3. QED
  BY <1>2

\* There is one for every finite set.
LEMMA SumsExist ==
  ASSUME NEW f, NEW S, IsFiniteSet(S)
  PROVE  \E F : PartialSums(f, S, F)
<1> DEFINE Good == {V \in SUBSET S : \E F : PartialSums(f, V, F)}
           G(V) == CHOOSE F : PartialSums(f, V, F)
           H(V) == [s \in SUBSET V |-> IF s = {} THEN 0 ELSE f[Chosen(s)] + G(Others(s))[Others(s)]]
<1>1. ASSUME NEW V \in SUBSET S, \A W \in (SUBSET V) \ {V} : W \in Good
      PROVE  V \in Good
  <2>1. \A W \in (SUBSET V) \ {V} : PartialSums(f, W, G(W))
    BY <1>1
  <2>2. \A s \in SUBSET V : s # {} => Others(s) \in (SUBSET V) \ {V}
    BY OthersIn, ChosenIn DEF Others
  <2>3. ASSUME NEW s \in (SUBSET V) \ {V}
        PROVE  H(V)[s] = G(s)[s]
    <3>1. PartialSums(f, s, G(s))
      BY <2>1
    <3>2. CASE s = {}
      BY <3>1, <3>2 DEF PartialSums
    <3>3. CASE s # {}
      <4>1. G(s)[s] = f[Chosen(s)] + G(s)[Others(s)]
        BY <3>1, <3>3 DEF PartialSums
      <4>2. H(V)[s] = f[Chosen(s)] + G(Others(s))[Others(s)]
        BY <3>3
      <4>3. PartialSums(f, Others(s), G(Others(s)))
        BY <2>1, <2>2, <3>3
      <4>4. Others(s) \subseteq s /\ IsFiniteSet(Others(s))
        <5>1. Others(s) \subseteq S /\ Others(s) \subseteq s
          BY <3>3, OthersIn
        <5>2. QED
          BY <5>1, FS_Subset
      <4> HIDE DEF G, H
      <4>5. G(s)[Others(s)] = G(Others(s))[Others(s)]
        BY <3>1, <4>3, <4>4, SumsUnique
      <4>6. QED
        BY <4>1, <4>2, <4>5
    <3>4. QED
      BY <3>2, <3>3
  <2>4. \A s \in SUBSET V : s # {} => G(Others(s))[Others(s)] = H(V)[Others(s)]
    <3> HIDE DEF G, H
    <3>1. QED
      BY <2>2, <2>3
  <2>5. PartialSums(f, V, H(V))
    <3>1. PICK K : K = H(V)
      OBVIOUS
    <3> HIDE DEF G
    <3>2. K = [s \in SUBSET V |-> IF s = {} THEN 0 ELSE f[Chosen(s)] + K[Others(s)]]
      BY <2>4, <3>1
    <3> HIDE DEF H
    <3>3. QED
      BY <3>1, <3>2 DEF PartialSums
  <2>6. QED
    BY <2>5
<1>2. S \in Good
  <2> HIDE DEF Good
  <2>1. QED
    BY <1>1, SetInduction
<1>3. QED
  BY <1>2

\* So it gives the sum over every subset.
LEMMA SumsRight ==
  ASSUME NEW f, NEW S, IsFiniteSet(S), NEW T \in SUBSET S, NEW F, PartialSums(f, S, F)
  PROVE  F[T] = SumFunctionOnSet(f, T)
<1>1. IsFiniteSet(T)
  BY FS_Subset
<1>2. PICK G : G = CHOOSE H : PartialSums(f, T, H)
  OBVIOUS
<1>3. PartialSums(f, T, G)
  BY <1>1, <1>2, SumsExist
<1>4. F[T] = G[T]
  <2>1. QED
    BY <1>1, <1>3, SumsUnique
<1>5. QED
  BY <1>2, <1>4, SumIsPartial

-----------------------------------------------------------------------------
\* The sum over no elements is 0.
LEMMA SumEmpty == \A f : SumFunctionOnSet(f, {}) = 0
<1> TAKE f
<1>1. PICK F : PartialSums(f, {}, F)
  BY SumsExist, FS_EmptySet
<1>2. F[{}] = 0
  BY <1>1 DEF PartialSums
<1>3. QED
  BY <1>1, <1>2, SumsRight, FS_EmptySet

\* The chosen element can be taken out of a sum.
LEMMA SumOfChosen ==
  ASSUME NEW f, NEW S, IsFiniteSet(S), S # {}
  PROVE  SumFunctionOnSet(f, S) = f[Chosen(S)] + SumFunctionOnSet(f, Others(S))
<1>1. PICK F : PartialSums(f, S, F)
  BY SumsExist
<1>2. F[S] = f[Chosen(S)] + F[Others(S)]
  BY <1>1 DEF PartialSums
<1>3. Others(S) \in SUBSET S
  BY OthersIn
<1>4. F[S] = SumFunctionOnSet(f, S) /\ F[Others(S)] = SumFunctionOnSet(f, Others(S))
  BY <1>1, <1>3, SumsRight
<1>5. QED
  BY <1>2, <1>4

\* A sum of integers is an integer.
LEMMA SumInt ==
  ASSUME NEW f, NEW S, IsFiniteSet(S), \A x \in S : f[x] \in Int
  PROVE  SumFunctionOnSet(f, S) \in Int
<1> DEFINE Good == {T \in SUBSET S : SumFunctionOnSet(f, T) \in Int}
<1>1. ASSUME NEW T \in SUBSET S, \A U \in (SUBSET T) \ {T} : U \in Good
      PROVE  T \in Good
  <2>1. CASE T = {}
    BY <2>1, SumEmpty
  <2>2. CASE T # {}
    <3>1. Chosen(T) \in T /\ Others(T) \in Good /\ IsFiniteSet(T)
      BY <1>1, <2>2, ChosenIn, OthersIn, FS_Subset
    <3>2. QED
      BY <2>2, <3>1, SumOfChosen
  <2>3. QED
    BY <2>1, <2>2
<1>2. S \in Good
  <2> HIDE DEF Good
  <2>1. QED
    BY <1>1, SetInduction
<1>3. QED
  BY <1>2

\* A sum depends on the function only where it is summed.
LEMMA SumAgree ==
  ASSUME NEW f, NEW g, NEW S, IsFiniteSet(S), \A x \in S : f[x] = g[x]
  PROVE  SumFunctionOnSet(f, S) = SumFunctionOnSet(g, S)
<1> DEFINE Good == {T \in SUBSET S : SumFunctionOnSet(f, T) = SumFunctionOnSet(g, T)}
<1>1. ASSUME NEW T \in SUBSET S, \A U \in (SUBSET T) \ {T} : U \in Good
      PROVE  T \in Good
  <2>1. CASE T = {}
    BY <2>1, SumEmpty
  <2>2. CASE T # {}
    <3>1. Chosen(T) \in S /\ Others(T) \in Good /\ IsFiniteSet(T)
      BY <1>1, <2>2, ChosenIn, OthersIn, FS_Subset
    <3>2. QED
      BY <2>2, <3>1, SumOfChosen
  <2>3. QED
    BY <2>1, <2>2
<1>2. S \in Good
  <2> HIDE DEF Good
  <2>1. QED
    BY <1>1, SetInduction
<1>3. QED
  BY <1>2

\* Any element can be taken out of a sum of integers.
LEMMA SumTaken ==
  ASSUME NEW f, NEW S, IsFiniteSet(S), \A x \in S : f[x] \in Int, NEW x \in S
  PROVE  SumFunctionOnSet(f, S) = f[x] + SumFunctionOnSet(f, S \ {x})
<1> DEFINE Good == {T \in SUBSET S : \A y \in T :
                      SumFunctionOnSet(f, T) = f[y] + SumFunctionOnSet(f, T \ {y})}
<1>1. ASSUME NEW T \in SUBSET S, \A U \in (SUBSET T) \ {T} : U \in Good
      PROVE  T \in Good
  <2>1. SUFFICES ASSUME NEW y \in T
                 PROVE  SumFunctionOnSet(f, T) = f[y] + SumFunctionOnSet(f, T \ {y})
    OBVIOUS
  <2>2. PICK z : z = Chosen(T)
    OBVIOUS
  <2>3. z \in T /\ Others(T) = T \ {z} /\ IsFiniteSet(T)
    BY <2>2, ChosenIn, FS_Subset DEF Others
  <2>4. SumFunctionOnSet(f, T) = f[z] + SumFunctionOnSet(f, T \ {z})
    BY <2>2, <2>3, SumOfChosen
  <2>5. CASE y = z
    BY <2>4, <2>5
  <2>6. CASE y # z
    <3>1. T \ {z} \in Good /\ T \ {y} \in Good
      BY <1>1, <2>3
    <3>2. SumFunctionOnSet(f, T \ {z}) = f[y] + SumFunctionOnSet(f, (T \ {z}) \ {y})
      BY <2>6, <3>1
    <3>3. SumFunctionOnSet(f, T \ {y}) = f[z] + SumFunctionOnSet(f, (T \ {y}) \ {z})
      BY <2>3, <2>6, <3>1
    <3>4. (T \ {z}) \ {y} = (T \ {y}) \ {z}
      OBVIOUS
    <3>5. SumFunctionOnSet(f, (T \ {y}) \ {z}) \in Int /\ f[y] \in Int /\ f[z] \in Int
      <4>1. IsFiniteSet((T \ {y}) \ {z})
        BY <2>3, FS_Subset
      <4>2. QED
        BY <2>3, <4>1, SumInt
    <3>6. PICK rest \in Int : rest = SumFunctionOnSet(f, (T \ {y}) \ {z})
      BY <3>5
    <3>7. SumFunctionOnSet(f, T) = f[z] + (f[y] + rest)
      BY <2>4, <3>2, <3>4, <3>6
    <3>8. SumFunctionOnSet(f, T \ {y}) = f[z] + rest
      BY <3>3, <3>6
    <3>9. QED
      BY <3>5, <3>6, <3>7, <3>8
  <2>7. QED
    BY <2>5, <2>6
<1>2. S \in Good
  <2> HIDE DEF Good
  <2>1. QED
    BY <1>1, SetInduction
<1>3. QED
  BY <1>2

\* The sum over two sets that share nothing is that over one and that over the other.
LEMMA SumUnion ==
  ASSUME NEW f, NEW S, NEW T, IsFiniteSet(S), IsFiniteSet(T), S \cap T = {},
         \A x \in S \cup T : f[x] \in Int
  PROVE  SumFunctionOnSet(f, S \cup T) = SumFunctionOnSet(f, S) + SumFunctionOnSet(f, T)
<1> DEFINE Good == {U \in SUBSET T : SumFunctionOnSet(f, S \cup U) =
                                       SumFunctionOnSet(f, S) + SumFunctionOnSet(f, U)}
<1>0. SumFunctionOnSet(f, S) \in Int
  BY SumInt
<1>1. ASSUME NEW U \in SUBSET T, \A V \in (SUBSET U) \ {U} : V \in Good
      PROVE  U \in Good
  <2>1. CASE U = {}
    <3>1. S \cup U = S
      BY <2>1
    <3>2. QED
      BY <1>0, <2>1, <3>1, SumEmpty
  <2>2. CASE U # {}
    <3>1. PICK z : z = Chosen(U)
      OBVIOUS
    <3>2. z \in U /\ Others(U) = U \ {z} /\ U \ {z} \in Good
      BY <1>1, <2>2, <3>1, ChosenIn, OthersIn DEF Others
    <3>3. IsFiniteSet(U) /\ IsFiniteSet(U \ {z})
      BY FS_Subset
    <3>4. IsFiniteSet(S \cup U)
      BY <3>3, FS_Union
    <3>5. (S \cup U) \ {z} = S \cup (U \ {z}) /\ z \in S \cup U
      BY <3>2
    <3>6. SumFunctionOnSet(f, S \cup U) = f[z] + SumFunctionOnSet(f, (S \cup U) \ {z})
      BY <3>4, <3>5, SumTaken
    <3>7. SumFunctionOnSet(f, U) = f[z] + SumFunctionOnSet(f, U \ {z})
      BY <2>2, <3>1, <3>2, <3>3, SumOfChosen
    <3>8. SumFunctionOnSet(f, U \ {z}) \in Int /\ f[z] \in Int
      BY <3>2, <3>3, SumInt
    <3>9. SumFunctionOnSet(f, S \cup (U \ {z})) =
            SumFunctionOnSet(f, S) + SumFunctionOnSet(f, U \ {z})
      BY <3>2
    <3>10. PICK a \in Int, b \in Int, c \in Int :
             /\ a = SumFunctionOnSet(f, S)
             /\ b = SumFunctionOnSet(f, U \ {z})
             /\ c = f[z]
      BY <1>0, <3>8
    <3>11. SumFunctionOnSet(f, S \cup U) = c + (a + b)
      BY <3>5, <3>6, <3>9, <3>10
    <3>12. SumFunctionOnSet(f, U) = c + b
      BY <3>7, <3>10
    <3>13. c + (a + b) = a + (c + b)
      OBVIOUS
    <3>14. QED
      BY <3>10, <3>11, <3>12, <3>13
  <2>3. QED
    BY <2>1, <2>2
<1>2. T \in Good
  <2> HIDE DEF Good
  <2>1. QED
    BY <1>1, SetInduction
<1>3. QED
  BY <1>2

\* What is negated everywhere has a negated sum.
LEMMA SumMinus ==
  ASSUME NEW f, NEW g, NEW S, IsFiniteSet(S), \A x \in S : f[x] \in Int /\ g[x] = -f[x]
  PROVE  SumFunctionOnSet(g, S) = -SumFunctionOnSet(f, S)
<1> DEFINE Good == {T \in SUBSET S : SumFunctionOnSet(g, T) = -SumFunctionOnSet(f, T)}
<1>1. ASSUME NEW T \in SUBSET S, \A U \in (SUBSET T) \ {T} : U \in Good
      PROVE  T \in Good
  <2>1. CASE T = {}
    BY <2>1, SumEmpty
  <2>2. CASE T # {}
    <3>1. Chosen(T) \in S /\ Others(T) \in Good /\ IsFiniteSet(T) /\ IsFiniteSet(Others(T))
      BY <1>1, <2>2, ChosenIn, OthersIn, FS_Subset
    <3>2. Others(T) \subseteq S
      BY <2>2, OthersIn
    <3>3. PICK rest \in Int : rest = SumFunctionOnSet(f, Others(T))
      BY <3>1, <3>2, SumInt
    <3>4. PICK n \in Int : n = f[Chosen(T)] /\ g[Chosen(T)] = -n
      BY <3>1
    <3>5. SumFunctionOnSet(f, T) = n + rest
      BY <2>2, <3>1, <3>3, <3>4, SumOfChosen
    <3>6. SumFunctionOnSet(g, Others(T)) = -rest
      BY <3>1, <3>3
    <3>7. SumFunctionOnSet(g, T) = -n + -rest
      BY <2>2, <3>1, <3>4, <3>6, SumOfChosen
    <3>8. -n + -rest = -(n + rest)
      OBVIOUS
    <3>9. QED
      BY <3>5, <3>7, <3>8
  <2>3. QED
    BY <2>1, <2>2
<1>2. S \in Good
  <2> HIDE DEF Good
  <2>1. QED
    BY <1>1, SetInduction
<1>3. QED
  BY <1>2

\* Summing up 1 for the elements of T and 0 for the others counts T.
LEMMA SumCounts ==
  ASSUME NEW f, NEW S, IsFiniteSet(S), NEW T \in SUBSET S,
         \A x \in S : f[x] = IF x \in T THEN 1 ELSE 0
  PROVE  SumFunctionOnSet(f, S) = Cardinality(T)
<1> DEFINE Good == {U \in SUBSET S : SumFunctionOnSet(f, U) = Cardinality(U \cap T)}
<1>1. ASSUME NEW U \in SUBSET S, \A V \in (SUBSET U) \ {U} : V \in Good
      PROVE  U \in Good
  <2>1. CASE U = {}
    <3>1. U \cap T = {} /\ Cardinality({}) = 0
      BY <2>1, FS_EmptySet
    <3>2. QED
      BY <2>1, <3>1, SumEmpty
  <2>2. CASE U # {}
    <3>1. PICK z : z = Chosen(U)
      OBVIOUS
    <3>2. z \in U /\ Others(U) = U \ {z} /\ U \ {z} \in Good
      BY <1>1, <2>2, <3>1, ChosenIn, OthersIn DEF Others
    <3>3. IsFiniteSet(U) /\ IsFiniteSet((U \ {z}) \cap T)
      BY FS_Subset
    <3>4. SumFunctionOnSet(f, U) = f[z] + Cardinality((U \ {z}) \cap T)
      BY <2>2, <3>1, <3>2, <3>3, SumOfChosen
    <3>5. Cardinality((U \ {z}) \cap T) \in Nat
      BY <3>3, FS_CardinalityType
    <3>6. CASE z \in T
      <4>1. U \cap T = ((U \ {z}) \cap T) \cup {z} /\ z \notin (U \ {z}) \cap T
        BY <3>2, <3>6
      <4>2. Cardinality(U \cap T) = Cardinality((U \ {z}) \cap T) + 1
        BY <3>3, <4>1, FS_AddElement
      <4>3. f[z] = 1
        BY <3>2, <3>6
      <4>4. QED
        BY <3>4, <3>5, <4>2, <4>3
    <3>7. CASE z \notin T
      <4>1. U \cap T = (U \ {z}) \cap T
        BY <3>7
      <4>2. f[z] = 0
        BY <3>2, <3>7
      <4>3. PICK n \in Nat : n = Cardinality((U \ {z}) \cap T)
        BY <3>5
      <4>4. SumFunctionOnSet(f, U) = n
        BY <3>4, <4>2, <4>3
      <4>5. QED
        BY <4>1, <4>3, <4>4
    <3>8. QED
      BY <3>6, <3>7
  <2>3. QED
    BY <2>1, <2>2
<1>2. S \in Good
  <2> HIDE DEF Good
  <2>1. QED
    BY <1>1, SetInduction
<1>3. S \cap T = T
  OBVIOUS
<1>4. QED
  BY <1>2, <1>3

-----------------------------------------------------------------------------
\* What the reports add up to

\* When nothing is committed under a client, what it has read is what is there.
ReadsCurrent ==
  report.at # "idle" /\ report.commits = 0 =>
    /\ report.at # "won" => report.won = Gross("won", report.year)
    /\ report.at \notin {"won", "lost"} => report.lost = Gross("lost", report.year)
    /\ report.at \notin {"won", "lost", "inflow"} =>
         report.inflow = OfType(OfTaxYear(report.year), InflowTypes)
    /\ report.at \notin {"won", "lost", "inflow", "outflow"} =>
         report.outflow = OfType(OfTaxYear(report.year), OutflowTypes)
    /\ report.at \in {"entries", "cash", "told"} => report.rows = Detailed(report.year)
    /\ report.at \in {"cash", "told"} => report.entries = OfTaxYear(report.year)
    /\ report.at = "told" => report.cash = OfDates(report.year)

\* A commit under the client is counted.
LEMMA CurrentTorn ==
  ASSUME report \in Report, ReadsCurrent, CommitUnder
  PROVE  ReadsCurrent'
<1>1. CASE report.at = "idle"
  BY <1>1 DEF CommitUnder, Tear, ReadsCurrent
<1>2. CASE report.at # "idle"
  <2>1. report'.commits = report.commits + 1 /\ report.commits \in Nat
    BY <1>2 DEF CommitUnder, Tear, Report
  <2>2. report'.commits # 0
    BY <2>1
  <2>3. QED
    BY <2>2 DEF ReadsCurrent
<1>3. QED
  BY <1>1, <1>2

\* What is read is what the picks and the transactions say.
LEMMA FiguresSame ==
  ASSUME UNCHANGED <<picks, txns>>
  PROVE  \A o, year, types :
           /\ Gross(o, year)' = Gross(o, year)
           /\ Detailed(year)' = Detailed(year)
           /\ OfTaxYear(year)' = OfTaxYear(year)
           /\ OfDates(year)' = OfDates(year)
           /\ OfType(OfTaxYear(year), types)' = OfType(OfTaxYear(year), types)
BY DEF Gross, Detailed, OfTaxYear, OfDates, OfType, FiscalYear, Resolved

LEMMA CurrentSame ==
  ASSUME ReadsCurrent, UNCHANGED <<picks, txns, report>>
  PROVE  ReadsCurrent'
BY FiguresSame DEF ReadsCurrent

\* A statement of the reports reads what is there.
LEMMA CurrentReads ==
  ASSUME report \in Report, ReadsCurrent, ReportStep, UNCHANGED <<picks, txns>>
  PROVE  ReadsCurrent'
<1>1. ASSUME NEW year \in Years, AskReports(year) PROVE ReadsCurrent'
  <2>1. report'.at = "won"
    BY <1>1 DEF AskReports, NoReport
  <2>2. QED
    BY <2>1 DEF ReadsCurrent
<1>2. CASE ReadWon
  <2>1. /\ report'.at = "lost"
        /\ report'.year = report.year
        /\ report'.won = Gross("won", report.year)
    BY <1>2 DEF ReadWon, Report
  <2>2. QED
    BY <2>1, FiguresSame DEF ReadsCurrent
<1>3. CASE ReadLost
  <2>1. /\ report.at = "lost"
        /\ report' = [report EXCEPT !.at = "inflow", !.lost = Gross("lost", report.year)]
    BY <1>3 DEF ReadLost
  <2>2. QED
    BY <2>1, FiguresSame DEF ReadsCurrent, Report
<1>4. CASE ReadInflow
  <2>1. /\ report.at = "inflow"
        /\ report' = [report EXCEPT !.at = "outflow",
                                    !.inflow = OfType(OfTaxYear(report.year), InflowTypes)]
    BY <1>4 DEF ReadInflow
  <2>2. QED
    BY <2>1, FiguresSame DEF ReadsCurrent, Report
<1>5. CASE ReadOutflow
  <2>1. /\ report.at = "outflow"
        /\ report' = [report EXCEPT !.at = "rows",
                                    !.outflow = OfType(OfTaxYear(report.year), OutflowTypes)]
    BY <1>5 DEF ReadOutflow
  <2>2. QED
    BY <2>1, FiguresSame DEF ReadsCurrent, Report
<1>6. CASE ReadDetailPicks
  <2>1. /\ report.at = "rows"
        /\ report' = [report EXCEPT !.at = "entries", !.rows = Detailed(report.year)]
    BY <1>6 DEF ReadDetailPicks
  <2>2. QED
    BY <2>1, FiguresSame DEF ReadsCurrent, Report
<1>7. CASE ReadDetailTransactions
  <2>1. /\ report.at = "entries"
        /\ report' = [report EXCEPT !.at = "cash", !.entries = OfTaxYear(report.year)]
    BY <1>7 DEF ReadDetailTransactions
  <2>2. QED
    BY <2>1, FiguresSame DEF ReadsCurrent, Report
<1>8. CASE ReadCashflow
  <2>1. /\ report.at = "cash"
        /\ report' = [report EXCEPT !.at = "told", !.cash = OfDates(report.year)]
    BY <1>8 DEF ReadCashflow
  <2>2. QED
    BY <2>1, FiguresSame DEF ReadsCurrent, Report
<1>9. CASE EndReports
  BY <1>9 DEF EndReports, NoReport, ReadsCurrent
<1>10. QED
  BY <1>1, <1>2, <1>3, <1>4, <1>5, <1>6, <1>7, <1>8, <1>9 DEF ReportStep

\* The nets in the CSV of picks that are won and of picks that are lost add up to the net
\* income that they are summed up to.
LEMMA PicksAddUp ==
  ASSUME NEW year, NEW W \in SUBSET Gross("won", year), NEW L \in SUBSET Gross("lost", year)
  PROVE  SumFunctionOnSet([p \in Picks |-> PickNet(p)], W \cup L) = NetGamblingIncome(W, L)
<1> DEFINE net == [p \in Picks |-> PickNet(p)]
           profit == [p \in Picks |-> Stake[p] * Odds[p] - Stake[p]]
<1>1. \A p \in Picks : Stake[p] \in Int /\ Odds[p] \in Int
  BY PickTableAssumption
<1>2. W \cap L = {} /\ W \subseteq Picks /\ L \subseteq Picks
  BY GrossDisjoint DEF Gross
<1>3. IsFiniteSet(W) /\ IsFiniteSet(L)
  BY <1>2, FS_Subset, PickTableAssumption
<1>4. \A p \in Picks : profit[p] \in Int
  <2>1. ASSUME NEW p \in Picks PROVE Stake[p] * Odds[p] - Stake[p] \in Int
    BY <1>1
  <2>2. QED
    BY <2>1
<1>5. \A p \in W : net[p] = profit[p]
  <2>1. ASSUME NEW p \in W PROVE PickNet(p) = Stake[p] * Odds[p] - Stake[p]
    BY <2>1 DEF Gross, PickNet
  <2>2. QED
    BY <1>2, <2>1
<1>6. \A p \in L : net[p] = -Stake[p]
  <2>1. ASSUME NEW p \in L PROVE PickNet(p) = -Stake[p]
    <3>1. PickNet(p) = 0 - Stake[p]
      BY <2>1 DEF Gross, PickNet
    <3>2. QED
      BY <1>1, <1>2, <3>1
  <2>2. QED
    BY <1>2, <2>1
<1> HIDE DEF net, profit
<1>7. SumFunctionOnSet(net, W) = SumFunctionOnSet(profit, W)
  BY <1>3, <1>5, SumAgree
<1>8. SumFunctionOnSet(net, L) = -SumFunctionOnSet(Stake, L)
  <2>1. \A p \in L : Stake[p] \in Int /\ net[p] = -Stake[p]
    BY <1>1, <1>2, <1>6
  <2>2. QED
    BY <1>3, <2>1, SumMinus
<1>9. SumFunctionOnSet(net, W \cup L) = SumFunctionOnSet(net, W) + SumFunctionOnSet(net, L)
  <2>1. \A p \in W : net[p] \in Int
    BY <1>2, <1>4, <1>5
  <2>2. \A p \in L : net[p] \in Int
    BY <1>1, <1>2, <1>6
  <2>3. \A p \in W \cup L : net[p] \in Int
    BY <2>1, <2>2
  <2>4. QED
    BY <1>2, <1>3, <2>3, SumUnion
<1>10. SumFunctionOnSet(profit, W) \in Int /\ SumFunctionOnSet(Stake, L) \in Int
  <2>1. SumFunctionOnSet(profit, W) \in Int
    BY <1>2, <1>3, <1>4, SumInt
  <2>2. SumFunctionOnSet(Stake, L) \in Int
    BY <1>1, <1>2, <1>3, SumInt
  <2>3. QED
    BY <2>1, <2>2
<1>11. SumFunctionOnSet(net, W \cup L) =
         SumFunctionOnSet(profit, W) - SumFunctionOnSet(Stake, L)
  BY <1>7, <1>8, <1>9, <1>10
<1>12. QED
  BY <1>11 DEF net, profit, NetGamblingIncome

\* A row of the CSV whose pick is not summed up, for its outcome or for want of a stake, has a
\* net of 0.
LEMMA OtherRowsZero ==
  ASSUME NEW year, NEW p \in Detailed(year),
         p \notin Gross("won", year), p \notin Gross("lost", year)
  PROVE  PickNet(p) = 0
<1>1. p \in Picks /\ FiscalYear(p) = year
  BY DEF Detailed
<1>2. Stake[p] \in Int /\ Odds[p] \in Int /\ Stake[p] >= 0
  BY <1>1, PickTableAssumption
<1>3. CASE picks[p].status \in {"won", "lost"}
  <2>1. Stake[p] = 0
    BY <1>1, <1>2, <1>3 DEF Gross
  <2>2. Stake[p] * Odds[p] = 0
    BY <1>2, <2>1
  <2>3. QED
    BY <2>1, <2>2 DEF PickNet
<1>4. CASE picks[p].status \notin {"won", "lost"}
  BY <1>4 DEF PickNet
<1>5. QED
  BY <1>3, <1>4

\* The nets in the CSV of what comes in and goes out are the one less the other.
LEMMA TransactionsAddUp ==
  ASSUME NEW E \in SUBSET Txns
  PROVE  SumFunctionOnSet([t \in Txns |-> TxnNet(t)], OfType(E, InflowTypes \cup OutflowTypes)) =
           Mxn(OfType(E, InflowTypes)) - Mxn(OfType(E, OutflowTypes))
<1> DEFINE net == [t \in Txns |-> TxnNet(t)]
           I == OfType(E, InflowTypes)
           O == OfType(E, OutflowTypes)
<1>1. \A t \in Txns : AmountMxn[t] \in Int
  BY FiscalAssumption
<1>2. /\ I \cap O = {} /\ I \cup O = OfType(E, InflowTypes \cup OutflowTypes)
      /\ I \subseteq Txns /\ O \subseteq Txns
  BY DEF OfType, InflowTypes, OutflowTypes
<1>3. IsFiniteSet(I) /\ IsFiniteSet(O)
  BY <1>2, FS_Subset, FiscalAssumption
<1>4. \A t \in I : net[t] = AmountMxn[t]
  BY DEF TxnNet, OfType, InflowTypes, OutflowTypes
<1>5. \A t \in O : net[t] = -AmountMxn[t]
  BY DEF TxnNet, OfType
<1> HIDE DEF net, I, O
<1>6. SumFunctionOnSet(net, I) = SumFunctionOnSet(AmountMxn, I)
  BY <1>3, <1>4, SumAgree
<1>7. SumFunctionOnSet(net, O) = -SumFunctionOnSet(AmountMxn, O)
  <2>1. \A t \in O : AmountMxn[t] \in Int /\ net[t] = -AmountMxn[t]
    BY <1>1, <1>2, <1>5
  <2>2. QED
    BY <1>3, <2>1, SumMinus
<1>8. SumFunctionOnSet(net, I \cup O) = SumFunctionOnSet(net, I) + SumFunctionOnSet(net, O)
  <2>1. \A t \in I \cup O : net[t] \in Int
    BY <1>1, <1>2, <1>4, <1>5
  <2>2. QED
    BY <1>2, <1>3, <2>1, SumUnion
<1>9. SumFunctionOnSet(AmountMxn, I) \in Int /\ SumFunctionOnSet(AmountMxn, O) \in Int
  <2>1. SumFunctionOnSet(AmountMxn, I) \in Int
    BY <1>1, <1>2, <1>3, SumInt
  <2>2. SumFunctionOnSet(AmountMxn, O) \in Int
    BY <1>1, <1>2, <1>3, SumInt
  <2>3. QED
    BY <2>1, <2>2
<1>10. SumFunctionOnSet(net, I \cup O) =
         SumFunctionOnSet(AmountMxn, I) - SumFunctionOnSet(AmountMxn, O)
  BY <1>6, <1>7, <1>8, <1>9
<1>11. QED
  BY <1>2, <1>10 DEF net, I, O, Mxn

-----------------------------------------------------------------------------
\* The validation of the backfill

\* With nothing touched, a run that has come to its validation has passed every pick with
\* its cursor, and what it has compared so far was equal.
ValidInv ==
  touched = {} /\ script.at \in {"count", "countRows", "sum", "sumRows", "verdict"} =>
    /\ \A p \in Picks : Exists(p) => p <= script.last_id
    /\ script.at = "countRows" => script.seen = Cardinality({p \in Picks : Exists(p)})
    /\ script.at = "sumRows" => script.seen = Cardinality({p \in Picks : Resolved(p)})
    /\ script.at \in {"sum", "sumRows", "verdict"} => ~script.fails

\* With every pick behind the cursor the totals of the aggregates count the picks and the
\* settled ones.
LEMMA TotalsCount ==
  ASSUME BackfillInv, touched = {}, \A p \in Picks : Exists(p) => p <= script.last_id
  PROVE  /\ Total(counted) = Cardinality({p \in Picks : Exists(p)})
         /\ Total(paid) = Cardinality({p \in Picks : Resolved(p)})
<1>1. \A p \in Picks :
        /\ counted[p] = IF p \in {q \in Picks : Exists(q)} THEN 1 ELSE 0
        /\ paid[p] = IF p \in {q \in Picks : Resolved(q)} THEN 1 ELSE 0
  <2>1. \A p \in Picks : Resolved(p) => Exists(p)
    BY DEF Resolved, Exists, Outcomes
  <2>2. QED
    BY <2>1 DEF BackfillInv, CountedUpToCursor
<1>2. Total(counted) = Cardinality({p \in Picks : Exists(p)})
  <2> DEFINE T == {p \in Picks : Exists(p)}
  <2>1. T \in SUBSET Picks /\ \A p \in Picks : counted[p] = IF p \in T THEN 1 ELSE 0
    BY <1>1
  <2>2. IsFiniteSet(Picks)
    BY PickTableAssumption
  <2> HIDE DEF T
  <2>3. SumFunctionOnSet(counted, Picks) = Cardinality(T)
    BY <2>1, <2>2, SumCounts
  <2>4. QED
    BY <2>3 DEF T, Total
<1>3. Total(paid) = Cardinality({p \in Picks : Resolved(p)})
  <2> DEFINE T == {p \in Picks : Resolved(p)}
  <2>1. T \in SUBSET Picks /\ \A p \in Picks : paid[p] = IF p \in T THEN 1 ELSE 0
    BY <1>1
  <2>2. IsFiniteSet(Picks)
    BY PickTableAssumption
  <2> HIDE DEF T
  <2>3. SumFunctionOnSet(paid, Picks) = Cardinality(T)
    BY <2>1, <2>2, SumCounts
  <2>4. QED
    BY <2>3 DEF T, Total
<1>4. QED
  BY <1>2, <1>3

\* Someone else's commit touches a pick.
LEMMA ValidTouched ==
  ASSUME NEW P, P # {}, Touch(P)
  PROVE  ValidInv'
BY DEF Touch, ValidInv

LEMMA ValidSame ==
  ASSUME ValidInv, UNCHANGED <<picks, touched, script>>
  PROVE  ValidInv'
BY DEF ValidInv, Exists, Resolved

\* The script compares what TotalsCount says is equal.
LEMMA ValidScript ==
  ASSUME ValidInv, BackfillInv, ScriptStep, UNCHANGED picks
  PROVE  ValidInv'
<1>1. script \in Script
  BY DEF BackfillInv, BackfillTypeOK
<1>2. /\ {p \in Picks : Exists(p)}' = {p \in Picks : Exists(p)}
      /\ {p \in Picks : Resolved(p)}' = {p \in Picks : Resolved(p)}
      /\ \A p \in Picks : Exists(p)' <=> Exists(p)
  BY DEF Exists, Resolved
<1>3. CASE Truncate \/ SkipTruncate \/ ReadBatch \/ FlushBatch \/ ScriptDies \/ Exit
  <2>1. script'.at \in {"idle", "read", "flush"}
    <3>1. IdleScript.at = "idle"
      BY DEF IdleScript
    <3>2. QED
      BY <1>1, <1>3, <3>1
      DEF Truncate, SkipTruncate, ReadBatch, FlushBatch, ScriptDies, Exit, Script, IdleScript
  <2>2. QED
    BY <2>1 DEF ValidInv
<1>4. CASE LastPage
  <2>1. script'.at = "count" /\ script'.last_id = script.last_id
    BY <1>1, <1>4 DEF LastPage, Script
  <2>2. \A p \in Picks : Exists(p) => p <= script.last_id
    <3>1. \A p \in Picks : Exists(p) => ~(script.last_id < p)
      BY <1>4 DEF LastPage, After
    <3>2. script.last_id \in Picks \cup {0}
      BY <1>1 DEF Script
    <3>3. \A n \in Picks \cup {0} : n \in Nat
      BY PickTableAssumption
    <3>4. QED
      BY <3>1, <3>2, <3>3
  <2>3. QED
    BY <1>2, <2>1, <2>2 DEF ValidInv
<1>5. CASE CountPicks
  <2>1. /\ script.at = "count"
        /\ script' = [script EXCEPT !.at = "countRows",
                                    !.seen = Cardinality({p \in Picks : Exists(p)})]
        /\ touched' = touched
    BY <1>5 DEF CountPicks
  <2>2. /\ script'.at = "countRows" /\ script'.last_id = script.last_id
        /\ script'.seen = Cardinality({p \in Picks : Exists(p)})
    BY <1>1, <2>1 DEF Script
  <2>3. QED
    BY <1>2, <2>1, <2>2 DEF ValidInv
<1>6. CASE CountRows
  <2>1. /\ script.at = "countRows"
        /\ script' = [script EXCEPT !.at = "sum", !.fails = script.seen # Total(counted)]
        /\ touched' = touched
    BY <1>6 DEF CountRows
  <2>2. /\ script'.at = "sum" /\ script'.last_id = script.last_id
        /\ script'.fails = (script.seen # Total(counted))
    BY <1>1, <2>1 DEF Script
  <2>3. touched = {} => script.seen = Total(counted)
    BY <2>1, TotalsCount DEF ValidInv
  <2>4. QED
    BY <1>2, <2>1, <2>2, <2>3 DEF ValidInv
<1>7. CASE SumPicks
  <2>1. /\ script.at = "sum"
        /\ script' = [script EXCEPT !.at = "sumRows",
                                    !.seen = Cardinality({p \in Picks : Resolved(p)})]
        /\ touched' = touched
    BY <1>7 DEF SumPicks
  <2>2. /\ script'.at = "sumRows" /\ script'.last_id = script.last_id
        /\ script'.seen = Cardinality({p \in Picks : Resolved(p)})
        /\ script'.fails = script.fails
    BY <1>1, <2>1 DEF Script
  <2>3. QED
    BY <1>2, <2>1, <2>2 DEF ValidInv
<1>8. CASE SumRows
  <2>1. /\ script.at = "sumRows"
        /\ script' = [script EXCEPT !.at = "verdict",
                                    !.fails = script.fails \/ script.seen # Total(paid)]
        /\ touched' = touched
    BY <1>8 DEF SumRows
  <2>2. /\ script'.at = "verdict" /\ script'.last_id = script.last_id
        /\ script'.fails = (script.fails \/ script.seen # Total(paid))
    BY <1>1, <2>1 DEF Script
  <2>3. touched = {} => script.seen = Total(paid) /\ ~script.fails
    BY <2>1, TotalsCount DEF ValidInv
  <2>4. QED
    BY <1>2, <2>1, <2>2, <2>3 DEF ValidInv
<1>9. QED
  BY <1>3, <1>4, <1>5, <1>6, <1>7, <1>8 DEF ScriptStep

\* The worker touches the picks of the day it recomputes.  A day without picks is written
\* over with nothing, and the script has nothing to do with it.
LEMMA ValidWorker ==
  ASSUME ValidInv, WorkerStep, UNCHANGED picks
  PROVE  ValidInv'
<1>1. UNCHANGED script /\ touched \subseteq touched'
  BY DEF WorkerStep, RecomputeScan, RecomputeUpsert, RecomputeFails, Touch
<1>2. touched' = {} => touched = {}
  BY <1>1
<1>3. QED
  BY <1>1, <1>2 DEF ValidInv, Exists, Resolved

-----------------------------------------------------------------------------
\* The theorems

\* The inductive invariant: the halves of the reports and of the backfill.
IInv ==
  /\ picks \in [Picks -> PickRow]
  /\ today \in Days
  /\ txns \in [Txns -> TxnRow]
  /\ report \in Report
  /\ ReportInv
  /\ ReadsCurrent
  /\ BackfillInv
  /\ ValidInv

LEMMA InitInv ==
  ASSUME Init
  PROVE  IInv
<1>1. picks = [p \in Picks |-> NoPick] /\ today \in Days
  BY DEF Init, InitPickTable
<1>2. picks \in [Picks -> PickRow]
  BY <1>1 DEF NoPick, PickRow
<1>3. txns \in [Txns -> TxnRow] /\ report = NoReport
  BY DEF Init, InitFiscal, NoTxn, TxnRow
<1>4. report \in Report /\ ReportInv
  BY <1>3 DEF NoReport, Report, ReportInv
<1>5. /\ counted = [p \in Picks |-> 0] /\ paid = [p \in Picks |-> 0]
      /\ script = IdleScript /\ worker = IdleWorker /\ touched = {}
  BY DEF Init, InitBackfill
<1>6. \A p \in Picks : ~Exists(p) /\ ~Resolved(p)
  BY <1>1 DEF NoPick, Exists, Resolved, Outcomes
<1>7. BackfillInv
  BY <1>5, <1>6, IdleTyped DEF BackfillInv, BackfillTypeOK, BatchInv, CountedUpToCursor
<1>8. ReadsCurrent /\ ValidInv
  BY <1>3, <1>5, IdleTyped DEF NoReport, ReadsCurrent, ValidInv
<1>9. QED
  BY <1>1, <1>2, <1>3, <1>4, <1>7, <1>8 DEF IInv

LEMMA PicksTyped ==
  ASSUME picks \in [Picks -> PickRow], today \in Days,
         NEW p \in Picks, CreatePick(p) \/ SettlePick(p) \/ EditPick(p)
  PROVE  picks' \in [Picks -> PickRow] /\ today' \in Days
<1>1. CASE CreatePick(p)
  BY <1>1 DEF CreatePick, PickRow
<1>2. CASE SettlePick(p)
  <2>1. PICK outcome \in Outcomes :
          picks' = [picks EXCEPT ![p] = [status |-> outcome, resolved |-> today]]
    BY <1>2 DEF SettlePick
  <2>2. [status |-> outcome, resolved |-> today] \in PickRow
    BY DEF PickRow
  <2>3. QED
    BY <1>2, <2>1, <2>2 DEF SettlePick
<1>3. CASE EditPick(p)
  BY <1>3 DEF EditPick, pickTable
<1>4. QED
  BY <1>1, <1>2, <1>3

LEMMA StepInv ==
  ASSUME IInv, [Next]_vars
  PROVE  IInv'
<1>1. TypeOK
  BY DEF IInv, TypeOK, BackfillInv, BackfillTypeOK
<1>2. ASSUME NEW p \in Picks, PickStep(p)
      PROVE  IInv'
  <2>1. /\ \A q \in Picks \ {p} : picks'[q] = picks[q]
        /\ \A year : /\ Gross("won", year) \subseteq Gross("won", year)'
                     /\ Gross("lost", year) \subseteq Gross("lost", year)'
    BY <1>1, <1>2, GrossGrows
  <2>2. picks' \in [Picks -> PickRow] /\ today' \in Days
    BY <1>2, PicksTyped DEF PickStep, IInv
  <2>3. CommitUnder /\ Touch({p}) /\ UNCHANGED <<txns, aggregates, script, worker>>
    <3>1. {} \in SUBSET Picks /\ {p} \in SUBSET Picks
      BY <1>2
    <3>2. QED
      BY <1>2, <3>1 DEF PickStep, CommitUnder
  <2>4. report' \in Report /\ ReportInv'
    BY <2>1, <2>3, ReportKeeps DEF IInv
  <2>5. BackfillInv'
    BY <2>1, <2>3, BackfillKeepsOnCommit DEF IInv
  <2>6. ReadsCurrent' /\ ValidInv'
    BY <2>3, CurrentTorn, ValidTouched DEF IInv
  <2>7. QED
    BY <2>2, <2>3, <2>4, <2>5, <2>6 DEF IInv
<1>3. CASE Tomorrow /\ UNCHANGED <<fiscal, backfill>>
  <2>1. UNCHANGED <<picks, txns, report>> /\ today' \in Days
    BY <1>3 DEF Tomorrow, fiscal
  <2>2. BackfillInv'
    BY <1>3, <2>1, BackfillKeepsUnchanged DEF IInv
  <2>3. report' \in Report /\ ReportInv'
    BY <2>1, GrossSame, ReportKeeps DEF IInv
  <2>4. ReadsCurrent' /\ ValidInv'
    BY <1>3, <2>1, CurrentSame, ValidSame DEF IInv, backfill
  <2>5. QED
    BY <2>1, <2>2, <2>3, <2>4 DEF IInv
<1>4. CASE TransactionStep /\ UNCHANGED <<pickTable, backfill>>
  <2>1. UNCHANGED <<picks, today>>
    BY <1>4 DEF pickTable
  <2>2. txns' \in [Txns -> TxnRow] /\ CommitUnder
    BY <1>1, <1>4, TransactionsTyped
  <2>3. BackfillInv'
    BY <1>4, <2>1, BackfillKeepsUnchanged DEF IInv
  <2>4. report' \in Report /\ ReportInv'
    BY <2>1, <2>2, GrossSame, ReportKeeps DEF IInv
  <2>5. ReadsCurrent' /\ ValidInv'
    BY <1>4, <2>1, <2>2, CurrentTorn, ValidSame DEF IInv, backfill
  <2>6. QED
    BY <2>1, <2>2, <2>3, <2>4, <2>5 DEF IInv
<1>5. CASE ReportStep /\ UNCHANGED <<pickTable, backfill>>
  <2>1. UNCHANGED <<picks, today>>
    BY <1>5 DEF pickTable
  <2>2. UNCHANGED txns
    BY <1>5 DEF ReportStep, AskReports, ReadWon, ReadLost, ReadInflow, ReadOutflow,
                ReadDetailPicks, ReadDetailTransactions, ReadCashflow, EndReports
  <2>3. BackfillInv'
    BY <1>5, <2>1, BackfillKeepsUnchanged DEF IInv
  <2>4. report' \in Report /\ ReportInv'
    BY <1>1, <1>5, <2>1, ReportReads DEF IInv
  <2>5. ReadsCurrent' /\ ValidInv'
    BY <1>5, <2>1, <2>2, CurrentReads, ValidSame DEF IInv, backfill
  <2>6. QED
    BY <2>1, <2>2, <2>3, <2>4, <2>5 DEF IInv
<1>6. CASE (ScriptStep \/ WorkerStep) /\ UNCHANGED <<pickTable, fiscal>>
  <2>1. UNCHANGED <<picks, today, txns, report>>
    BY <1>6 DEF pickTable, fiscal
  <2>2. BackfillInv'
    BY <1>6, <2>1, ScriptBegins, ScriptReads, ScriptFlushes, ScriptEnds, WorkerKeeps
    DEF IInv, ScriptStep
  <2>3. report' \in Report /\ ReportInv'
    BY <2>1, GrossSame, ReportKeeps DEF IInv
  <2>4. ReadsCurrent' /\ ValidInv'
    BY <1>6, <2>1, CurrentSame, ValidScript, ValidWorker DEF IInv
  <2>5. QED
    BY <2>1, <2>2, <2>3, <2>4 DEF IInv
<1>7. CASE UNCHANGED vars
  <2>1. UNCHANGED <<picks, today, txns, report, backfill>>
    BY <1>7 DEF vars, pickTable, fiscal
  <2>2. BackfillInv'
    BY <2>1, BackfillKeepsUnchanged DEF IInv
  <2>3. report' \in Report /\ ReportInv'
    BY <2>1, GrossSame, ReportKeeps DEF IInv
  <2>4. ReadsCurrent' /\ ValidInv'
    BY <2>1, CurrentSame, ValidSame DEF IInv, backfill
  <2>5. QED
    BY <2>1, <2>2, <2>3, <2>4 DEF IInv
<1>8. QED
  BY <1>2, <1>3, <1>4, <1>5, <1>6, <1>7 DEF Next

\* Whatever commits between two statements of a report or two batches of the backfill, what
\* the client knows stays true, and the script counts up to its cursor what nobody touched.
THEOREM Invariance == Spec => []IInv
BY InitInv, StepInv, PTL DEF Spec

\* The picks, the transactions, the client, the aggregates, the script and the worker keep
\* their types, and no profit is summed up more often than its pick is counted.
THEOREM TypeCorrect == Spec => []TypeOK
<1>1. IInv => TypeOK
  BY DEF IInv, TypeOK, BackfillInv, BackfillTypeOK
<1>2. QED
  BY Invariance, <1>1, PTL

\* The two statements of the summary count no pick twice, drop none that was there, and name
\* none that its CSV does not, whatever settles between them.
THEOREM SummaryCountsOnceAlways == Spec => []SummaryCountsOnce
<1>1. ASSUME IInv PROVE SummaryCountsOnce
  BY <1>1, GrossDisjoint DEF IInv, Report, ReportInv, SummaryCountsOnce
<1>2. QED
  BY Invariance, <1>1, PTL

\* However the runs of the backfill end and whatever overlaps them, a pick that nobody
\* touched since the tables were emptied is counted once up to the cursor, not after it.
THEOREM CountedUpToCursorAlways == Spec => []CountedUpToCursor
<1>1. IInv => CountedUpToCursor
  BY DEF IInv, BackfillInv
<1>2. QED
  BY Invariance, <1>1, PTL

\* Whatever commits under the client, the rows that its CSV has for the picks of the summary
\* add up to the net income; when nothing does, the other rows and the reports agree.
THEOREM DetailAddsUpAlways == Spec => []DetailAddsUp
<1> DEFINE net == [p \in Picks |-> PickNet(p)]
           summed == report.won \cup report.lost
           moved == OfType(report.entries, InflowTypes \cup OutflowTypes)
<1>1. ASSUME IInv, report.at = "told"
      PROVE  SumFunctionOnSet(net, summed \ report.edited) =
               NetGamblingIncome(report.won \ report.edited, report.lost \ report.edited)
  <2> DEFINE W == report.won \ report.edited
             L == report.lost \ report.edited
  <2>1. /\ W \in SUBSET Gross("won", report.year)
        /\ L \in SUBSET Gross("lost", report.year)
    BY <1>1 DEF IInv, ReportInv
  <2>2. summed \ report.edited = W \cup L
    OBVIOUS
  <2> HIDE DEF W, L, summed
  <2>3. SumFunctionOnSet([p \in Picks |-> PickNet(p)], W \cup L) = NetGamblingIncome(W, L)
    BY <2>1, PicksAddUp
  <2>4. QED
    BY <2>2, <2>3 DEF W, L
<1>2. ASSUME IInv, report.at = "told", report.commits = 0
      PROVE  /\ \A p \in report.rows \ summed : net[p] = 0
             /\ SumFunctionOnSet([t \in Txns |-> TxnNet(t)], moved) =
                  Mxn(report.inflow) - Mxn(report.outflow)
             /\ (\A t \in Txns : txns[t].tax_year = report.year <=> t \in OfDates(report.year)) =>
                  CashflowNet(report.cash) = Mxn(report.inflow) - Mxn(report.outflow)
  <2>1. /\ report.won = Gross("won", report.year)
        /\ report.lost = Gross("lost", report.year)
        /\ report.inflow = OfType(OfTaxYear(report.year), InflowTypes)
        /\ report.outflow = OfType(OfTaxYear(report.year), OutflowTypes)
        /\ report.rows = Detailed(report.year)
        /\ report.entries = OfTaxYear(report.year)
        /\ report.cash = OfDates(report.year)
    BY <1>2 DEF IInv, ReadsCurrent
  <2>2. ASSUME NEW p \in report.rows \ summed PROVE net[p] = 0
    <3>1. PickNet(p) = 0
      BY <2>1, <2>2, OtherRowsZero
    <3>2. p \in Picks
      BY <2>1, <2>2 DEF Detailed
    <3>3. QED
      BY <3>1, <3>2
  <2>3. OfTaxYear(report.year) \in SUBSET Txns
    BY DEF OfTaxYear
  <2>4. SumFunctionOnSet([t \in Txns |-> TxnNet(t)], moved) =
          Mxn(report.inflow) - Mxn(report.outflow)
    BY <2>1, <2>3, TransactionsAddUp
  <2>5. ASSUME \A t \in Txns : txns[t].tax_year = report.year <=> t \in OfDates(report.year)
        PROVE  CashflowNet(report.cash) = Mxn(report.inflow) - Mxn(report.outflow)
    <3>1. OfDates(report.year) = OfTaxYear(report.year)
      BY <2>5 DEF OfDates, OfTaxYear
    <3>2. QED
      BY <2>1, <3>1 DEF CashflowNet
  <2>6. QED
    BY <2>2, <2>4, <2>5
<1>3. IInv => DetailAddsUp
  BY <1>1, <1>2 DEF DetailAddsUp
<1>4. QED
  BY <1>3, Invariance, PTL

\* The validation of the backfill finds nothing wrong when nothing was touched since it
\* emptied the tables, for any number of picks and any size of a batch.
THEOREM CountedOnceAlways == Spec => []CountedOnce
<1>1. IInv => CountedOnce
  BY DEF IInv, BackfillInv, ValidInv, CountedOnce
<1>2. QED
  BY Invariance, <1>1, PTL
=============================================================================

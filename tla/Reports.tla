-------------------------------- MODULE Reports --------------------------------
(***************************************************************************)
(* The jobs that read all of picks while it changes: the fiscal reports,   *)
(* the backfill of the aggregates and the worker that recomputes a day.    *)
(***************************************************************************)
EXTENDS Fiscal, Backfill

fiscal == <<txns, report>>
vars == <<pickTable, fiscal, backfill>>

Init == InitPickTable /\ InitFiscal /\ InitBackfill

\* A COMMIT that concerns a pick: it may come between any two statements of a job.
PickStep(p) ==
  /\ \/ (CreatePick(p) \/ SettlePick(p)) /\ Tear({})
     \/ EditPick(p) /\ Tear({p})
  /\ Touch({p})
  /\ UNCHANGED <<txns, aggregates, script, worker>>

Next ==
  \/ \E p \in Picks : PickStep(p)
  \/ Tomorrow /\ UNCHANGED <<fiscal, backfill>>
  \/ TransactionStep /\ UNCHANGED <<pickTable, backfill>>
  \/ ReportStep /\ UNCHANGED <<pickTable, backfill>>
  \/ ScriptStep /\ UNCHANGED <<pickTable, fiscal>>
  \/ WorkerStep /\ UNCHANGED <<pickTable, fiscal>>

Spec == Init /\ [][Next]_vars

-----------------------------------------------------------------------------
\* Properties

Report ==
  [at : {"idle", "won", "lost", "inflow", "outflow", "rows", "entries", "cash", "told"},
   year : Years \cup {0}, won : SUBSET Picks, lost : SUBSET Picks,
   inflow : SUBSET Txns, outflow : SUBSET Txns,
   rows : SUBSET Picks, entries : SUBSET Txns, cash : SUBSET Txns,
   before : [won : SUBSET Picks, lost : SUBSET Picks], commits : Nat, edited : SUBSET Picks]

Script ==
  [at : {"idle", "read", "flush", "count", "countRows", "sum", "sumRows", "verdict"},
   last_id : Picks \cup {0}, upto : Picks \cup {0},
   batch : SUBSET Picks, profits : SUBSET Picks, seen : Nat, fails : BOOLEAN]

TypeOK ==
  /\ picks \in [Picks -> PickRow]
  /\ today \in Days
  /\ txns \in [Txns -> TxnRow]
  /\ report \in Report
  /\ counted \in [Picks -> Nat]
  /\ paid \in [Picks -> Nat]
  /\ script \in Script
  /\ worker \in [day : Days \cup {0}, scan : SUBSET Picks, profits : SUBSET Picks]
  /\ touched \in SUBSET Picks
  /\ script.at = "flush" \/ script.batch = {}
  /\ \A p \in Picks : paid[p] <= counted[p]

\* The two statements of the fiscal summary see different commits.  Still no pick is in it
\* both as won and as lost, none that is not of the year, none that was so when it began is
\* missing, and a CSV asked for later has a row for each.
SummaryCountsOnce ==
  LET counts == report.at \in {"inflow", "outflow", "rows", "entries", "cash", "told"}
      lists == report.at \in {"entries", "cash", "told"}
  IN /\ counts => /\ report.won \cap report.lost = {}
                  /\ report.before.won \subseteq report.won
                  /\ report.before.lost \subseteq report.lost
                  /\ report.won \subseteq Gross("won", report.year)
                  /\ report.lost \subseteq Gross("lost", report.year)
     /\ lists => report.won \cup report.lost \subseteq report.rows

\* Whatever is committed between the statements, the rows that the CSV has for the picks of
\* the summary add up to its net income, but for picks edited meanwhile.  If nothing was
\* committed, the other rows have a net of 0, deposits and withdrawals have that of the net
\* cashflow, and so has the cashflow of the year when every transaction has the tax_year of
\* its date.  Of commissions and refunds it says nothing: a comment calls them neutral.
DetailAddsUp ==
  LET net == [p \in Picks |-> PickNet(p)]
      summed == report.won \cup report.lost
      moved == OfType(report.entries, InflowTypes \cup OutflowTypes)
  IN report.at = "told" =>
       /\ SumFunctionOnSet(net, summed \ report.edited) =
            NetGamblingIncome(report.won \ report.edited, report.lost \ report.edited)
       /\ report.commits = 0 =>
            /\ \A p \in report.rows \ summed : net[p] = 0
            /\ SumFunctionOnSet([t \in Txns |-> TxnNet(t)], moved) =
                 Mxn(report.inflow) - Mxn(report.outflow)
            /\ (\A t \in Txns : txns[t].tax_year = report.year <=> t \in OfDates(report.year)) =>
                 CashflowNet(report.cash) = Mxn(report.inflow) - Mxn(report.outflow)

\* The script counts each pick once, up to the last batch it has committed and whatever run
\* of it ended how, except those that were changed, or whose day was recomputed, since it
\* emptied the tables ...
CountedUpToCursor ==
  \A p \in Picks \ touched :
    /\ counted[p] = IF Exists(p) /\ p <= script.last_id THEN 1 ELSE 0
    /\ paid[p] = IF Resolved(p) /\ p <= script.last_id THEN 1 ELSE 0

\* ... and its validation fails only if there are any of these.
CountedOnce ==
  /\ CountedUpToCursor
  /\ script.at = "verdict" /\ script.fails => touched # {}
=============================================================================

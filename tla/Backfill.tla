------------------------------- MODULE Backfill -------------------------------
(***************************************************************************)
(* scripts/backfill_aggregates.py, which fills agg_pick_daily from all     *)
(* picks in batches, each with a COMMIT of its own, while picks change and *)
(* the worker recomputes days (services/aggregate_recompute.py).           *)
(*                                                                         *)
(* The row of a day is known by how often each pick of that day is in its  *)
(* pick_count, and how often its profit is in its total_profit.  A pick    *)
(* has one day for ever, its run_date.  agg_pick_dimension_daily is        *)
(* written by the same statements and is left out.                         *)
(***************************************************************************)
EXTENDS PickTable, Functions

CONSTANTS
  BatchSize,    \* BATCH_SIZE
  MaxCount      \* bound: a batch is not merged into a row that has a pick this often

ASSUME BackfillAssumption == BatchSize \in Nat \ {0} /\ MaxCount \in Nat

VARIABLES
  counted,      \* pick -> times it is in the pick_count of its day
  paid,         \* pick -> times its profit is in the total_profit of its day
  script,       \* the run of the script; last_id is that of the last batch it committed
  worker,       \* the worker: the day it recomputes and what it has scanned
  touched       \* picks for which the run of the script does not answer (see below)

aggregates == <<counted, paid>>
backfill == <<aggregates, script, worker, touched>>

IdleScript == [at |-> "idle", last_id |-> 0, upto |-> 0, batch |-> {}, profits |-> {},
               seen |-> 0, fails |-> FALSE]
IdleWorker == [day |-> 0, scan |-> {}, profits |-> {}]

InitBackfill ==
  /\ counted = [p \in Picks |-> 0]
  /\ paid = [p \in Picks |-> 0]
  /\ script = IdleScript
  /\ worker = IdleWorker
  /\ touched = {}

OfDay(day) == {p \in Picks : RunDate[p] = day}

\* Committed by someone else since the script emptied the tables.
Touch(ps) == touched' = touched \cup ps

-----------------------------------------------------------------------------
\* The script

\* TRUNCATE of both tables, and COMMIT.
Truncate ==
  /\ script.at = "idle"
  /\ counted' = [p \in Picks |-> 0]
  /\ paid' = [p \in Picks |-> 0]
  /\ touched' = {}
  /\ script' = [IdleScript EXCEPT !.at = "read"]
  /\ UNCHANGED worker

\* --skip-truncate "is only safe if tables are empty": it answers for the others only.
SkipTruncate ==
  /\ script.at = "idle"
  /\ Touch({p \in Picks : counted[p] # 0})
  /\ script' = [IdleScript EXCEPT !.at = "read"]
  /\ UNCHANGED <<aggregates, worker>>

After(p) == Exists(p) /\ script.last_id < p

\* WHERE pick_id > last_id, up to the pick `last`.
PageUpTo(last) == {p \in Picks : After(p) /\ p <= last}

\* ORDER BY pick_id LIMIT BATCH_SIZE
IsPage(last) ==
  /\ After(last)
  /\ Cardinality(PageUpTo(last)) <= BatchSize
  /\ Cardinality(PageUpTo(last)) < BatchSize => \A p \in Picks : After(p) => p <= last

\* _pick_row_contribution: a pending pick has no profit yet.
ReadBatch ==
  /\ script.at = "read"
  /\ \E last \in Picks :
       /\ IsPage(last)
       /\ script' = [script EXCEPT !.at = "flush", !.upto = last, !.batch = PageUpTo(last),
                                   !.profits = {p \in PageUpTo(last) : Resolved(p)}]
  /\ UNCHANGED <<aggregates, worker, touched>>

\* Mutant: the row of a day is replaced by what the batch has of it.
MergedReplacing(row, ps) ==
  [p \in Picks |-> IF \E q \in ps : RunDate[q] = RunDate[p]
                   THEN IF p \in ps THEN 1 ELSE 0
                   ELSE row[p]]

\* _merge and ON CONFLICT DO UPDATE: what is in the rows by now, and the batch on top.
Merged(row, ps) == [p \in Picks |-> IF p \in ps THEN row[p] + 1 ELSE row[p]]

\* _flush_daily, and COMMIT.
FlushBatch ==
  /\ script.at = "flush"
  /\ \A p \in script.batch : counted[p] < MaxCount
  /\ counted' = Merged(counted, script.batch)
  /\ paid' = Merged(paid, script.profits)
  /\ script' = [IdleScript EXCEPT !.at = "read", !.last_id = script.upto]
  /\ UNCHANGED <<worker, touched>>

\* Whatever fails ends the run, between batches or under one: PostgreSQL may also fail it
\* for a deadlock, as it writes agg_pick_daily before agg_pick_dimension_daily and a
\* recomputation the other way round.
ScriptDies ==
  /\ script.at # "idle"
  /\ script' = [IdleScript EXCEPT !.last_id = script.last_id]
  /\ UNCHANGED <<aggregates, worker, touched>>

\* An empty page ends the loop.
LastPage ==
  /\ script.at = "read"
  /\ \A p \in Picks : ~After(p)
  /\ script' = [script EXCEPT !.at = "count"]
  /\ UNCHANGED <<aggregates, worker, touched>>

-----------------------------------------------------------------------------
\* run_validation: four statements; a profit is taken to be of the same amount for each pick

Total(row) == SumFunctionOnSet(row, Picks)

CountPicks ==
  /\ script.at = "count"
  /\ script' = [script EXCEPT !.at = "countRows", !.seen = Cardinality({p \in Picks : Exists(p)})]
  /\ UNCHANGED <<aggregates, worker, touched>>

CountRows ==
  /\ script.at = "countRows"
  /\ script' = [script EXCEPT !.at = "sum", !.fails = script.seen # Total(counted)]
  /\ UNCHANGED <<aggregates, worker, touched>>

SumPicks ==
  /\ script.at = "sum"
  /\ script' = [script EXCEPT !.at = "sumRows", !.seen = Cardinality({p \in Picks : Resolved(p)})]
  /\ UNCHANGED <<aggregates, worker, touched>>

SumRows ==
  /\ script.at = "sumRows"
  /\ script' = [script EXCEPT !.at = "verdict", !.fails = script.fails \/ script.seen # Total(paid)]
  /\ UNCHANGED <<aggregates, worker, touched>>

\* SystemExit(1), or the end of main.
Exit ==
  /\ script.at = "verdict"
  /\ script' = [IdleScript EXCEPT !.last_id = script.last_id]
  /\ UNCHANGED <<aggregates, worker, touched>>

-----------------------------------------------------------------------------
\* recompute_pick_aggregates_for_day_sync, whenever a message makes the worker run it

RecomputeScan ==
  /\ worker = IdleWorker
  /\ \E day \in Days :
       worker' = [day |-> day,
                  scan |-> {p \in OfDay(day) : Exists(p)},
                  profits |-> {p \in OfDay(day) : Resolved(p)}]
  /\ UNCHANGED <<aggregates, script, touched>>

\* The row of the day with what was scanned in place of what it held.
Replaced(row, ps) ==
  [p \in Picks |-> IF RunDate[p] # worker.day THEN row[p] ELSE IF p \in ps THEN 1 ELSE 0]

RecomputeUpsert ==
  /\ worker # IdleWorker
  /\ counted' = Replaced(counted, worker.scan)
  /\ paid' = Replaced(paid, worker.profits)
  /\ Touch(OfDay(worker.day))
  /\ worker' = IdleWorker
  /\ UNCHANGED script

RecomputeFails ==
  /\ worker # IdleWorker
  /\ worker' = IdleWorker
  /\ UNCHANGED <<aggregates, script, touched>>

ScriptStep ==
  \/ Truncate \/ SkipTruncate \/ ReadBatch \/ FlushBatch \/ ScriptDies \/ LastPage
  \/ CountPicks \/ CountRows \/ SumPicks \/ SumRows \/ Exit

WorkerStep == RecomputeScan \/ RecomputeUpsert \/ RecomputeFails
=============================================================================

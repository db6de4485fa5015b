# A verification project for betsync-api

betsync-api is a FastAPI service over PostgreSQL, Redis and Celery. It keeps
sports bets ("picks"), the wallets they are staked from, an append-only ledger,
an outbox of events, parlays, daily aggregates for a dashboard, and a pipeline
that imports odds. This directory models its core logic in TLA+, model-checks
it with TLC on small instances and proves theorems about it with TLAPS.

## The system and its parts

| Part | State it keeps | Operations | Talks to |
|---|---|---|---|
| Settlement engine (`settlement_engine.py`) | none of its own: rows of `picks`, `user_balances`, `ledger_entries`, `outbox_events` | `execute_settlement` | ledger, reconciliation (drift gate), outbox |
| Ledger (`ledger_service.py`) | `user_balances` (available, locked), `ledger_entries` | `record_movement`, `record_settlement`, `lock_and_get_balance` | called by picks and settlement |
| Pick service (`pick_service.py`) | `picks` | create, update, resolve, delete, confirm | ledger, settlement, Celery (aggregates) |
| Reconciliation (`reconciliation_service.py`) | `reconciliation_audits` | `reconcile_user`, `fix_user_balance`, drift gates | reads picks, ledger, wallets |
| Request transaction (`core/dependencies.py`) | one session per request | commit, hooks after the commit, rollback | everything |
| Idempotent creation (`core/idempotency.py`) | Redis: a processing lock and a stored answer per key | begin, complete, abort | `POST /picks` |
| Parlays (`parlay_service.py`) | `parlays`, `parlay_picks` | create, automatic resolution when a leg resolves | picks |
| Outbox worker (`outbox_worker.py`) | `processed_at` of outbox rows | fetch with SKIP LOCKED, deliver, mark | outbox |
| Aggregates (`worker/tasks.py`, `aggregate_recompute.py`) | `agg_*` tables, a Redis lock per day | enqueue, recompute a day | picks, dashboard |
| Dashboard (`dashboard_service.py`, `cache_service.py`) | Redis cache | summary, invalidation | aggregates, picks |
| Pipeline (`worker/pipeline/*`, `routers/pipeline.py`) | a Redis key per run and day | run, trigger, reset | odds API, picks, parlays |
| Cashflow (`transaction_service.py`) | `transactions` | create, update, delete, bulk import, deposit, withdrawal | system-wide drift gate |
| Fiscal reports (`fiscal_service.py`) | none | the summary of a year, its CSV | picks, transactions |
| Aggregate backfill (`scripts/backfill_aggregates.py`) | the same `agg_*` tables | truncate, batches, validation | picks, the recomputation by the worker |
| Reference data, configuration, health | single rows | reads and inserts | - |

Every HTTP request is one database transaction at READ COMMITTED: the handler
runs, `get_db` commits, and an exception rolls back. Requests interact through
rows (some read without a lock, some under `SELECT ... FOR UPDATE`), through
Redis keys and through Celery messages. What is hard here:

* two requests for one pick or one wallet that overlap, and state read before a
  lock and used after it (`update_pick`, the drift gate);
* crashes and errors between two writes, and what a rollback undoes;
* the order of transactions: the order in which they begin (`created_at` is the
  start time) is not the order in which they write;
* retries of what was already done; Redis keys that expire under a running
  request; messages sent before the commit they announce.

What makes each part correct, in a line: the settlement core settles a pick
once, pays it once and keeps wallet, ledger, picks and outbox in step; an
idempotency key creates one pick; a parlay is resolved when its legs are;
every outbox event is delivered; aggregates and cache converge to the
picks, and the backfill counts each pick once; a fiscal year counts each pick
once; a bulk import stores what it says; a day is imported once. `PROJECT.json` lists the hazards line by line
and the properties that cover each.

## Modules

| Module | What it is |
|---|---|
| `Settlement` | picks, wallets, ledger and outbox under concurrent transactions: create, resolve, delete, update, repair |
| `BetBook` | what a client is promised by `Settlement`: bets placed and closed in single steps |
| `MCSettlement` | its TLC instance: funding and symmetry |
| `SettlementProofs` | its theorems: locks, safety, money; `Settlement` implements `BetBook` |
| `Parlays` | parlays made of picks and resolved by the settlement of their legs |
| `MCParlays`, `ParlaysProofs` | its TLC instance; its theorems |
| `Idempotency`, `IdempotencyProofs` | `POST /picks` with an Idempotency-Key; its theorems |
| `OutboxDelivery`, `OutboxProofs` | delivery of the outbox by several workers; its theorems |
| `Pipeline`, `PipelineProofs` | the jobs that import the odds of one day; its theorems |
| `Dashboard`, `DashboardProofs` | the summary of one day, its aggregate and its cache; its theorems |
| `Cashflow`, `CashflowProofs` | deposits, withdrawals and bulk imports behind the system-wide drift gate, and the audit of all wallets; its theorems |
| `PickTable` | the table of picks as jobs see it that read all of it |
| `Fiscal` | the fiscal summary of a year, its CSV and the cashflow summary, statement by statement, over picks and transactions |
| `Backfill` | the script that fills the aggregates, beside the worker that recomputes days |
| `Reports` | the composition of these three |
| `MCReports`, `ReportsProofs` | its TLC instance; its theorems |

`Settlement` and `BetBook` are composed by refinement, `Fiscal` and `Backfill` by
a step of the picks, which tears the reports, passes the script and is a
commit of `Settlement` or of the pipeline. The others meet at narrow interfaces, and each module takes its neighbour as a few steps: for `Parlays` a
settlement is the lock of the pick and its new status; for `Idempotency`
`create_pick` either fails or has a COMMIT to come; for `OutboxDelivery` it
publishes an event; for `Dashboard` it is a change with its calls in order; for
`Cashflow` it is a wallet that drifts or is mended.

Operators named in a `\* Mutant` comment are changes that a bug would make to the
definition that follows them. No module uses them: each shows that a property
would notice.

### Settlement

One request is one transaction. `pc[r]` is the statement its handler is at:
`create`, `lockPick`, `gateWallet`, `gateLedger`, `lockBalance`, `flush` or one
of the three commits. `BeginX` is the first statement of a handler, and
`start[r]` the `now()` that its ledger row will carry. Row locks are `pickLock`
and `balanceLock`; an action that needs a lock held by someone else is not
enabled, which is what waiting is. What a transaction writes is kept in
`buf[r]` and appears in the tables at its commit (`CommitMoney`, `CommitPick`,
`CommitRepair`); `Abort` is a failure at any earlier point.

| Code | Actions |
|---|---|
| `create_pick` + `record_movement` | `BeginCreate`, `CreateUnstaked`, `CreateStaked` |
| `resolve_pick`, `delete_pick`, `confirm_pick` (rejected) -> `execute_settlement` | `BeginSettle`, `BeginDelete`, `LockPick`, `GateWallet`, `GateLedger`, `RecordSettlement` |
| `update_pick` | `BeginEdit`, `FlushEdit` |
| `fix_user_balance` | `BeginFix`, `GateWallet`, `GateLedger`, `Repair` |
| `get_db` | `CommitMoney`, `CommitPick`, `CommitRepair`, `Leave`, `Abort` |

Abstractions. Amounts are whole units, so every drift exceeds the tolerance of
0.01, and decimal odds are whole multipliers. A missing stake is 0. The
columns that no property reads (market, selection, grade, closing odds, clv,
timestamps of picks, audit rows) are left out. The unique indexes on ledger and
outbox are not needed: the row lock of the pick comes first, and
`OneSettlementPerPick` shows that the check of `record_settlement` for an
existing row never finds one for a pending pick. Wallets are seeded by SQL
without a ledger row, as the repository's seed script does.

### Parlays

A request makes a parlay (`group`), or settles a pick: `resolve`, `delete` and
`reject`, of which only the first resolves parlays. The checks of `create_parlay`
take no lock (`BeginGroup`); the insertion of each `parlay_picks` row takes
`FOR KEY SHARE` on its pick (`InsertLeg`), against which `FOR UPDATE` of a
settlement waits (`LockPick`). The wallet lock of a staked settlement is left out: two
legs of one user with stakes settle one after the other in the code, legs without a stake
or of different users as they do here. `auto_resolve_parlays_for_pick` is `ReadLinks`,
then for each parlay `ReadParlay`, `ReadLegs` and `UpdateParlay`, which waits for
the row of the parlay; `known[r]` is what the session has already read of a leg
and does not read again. Two requests that wait for each other's parlays are
a deadlock, of which PostgreSQL fails one (`DeadlockVictim`). A pick
belongs to one match, and the legs of a parlay to different ones.

### Idempotency

One key: its Redis value (`cell`), the picks of requests that carry it, and what
clients are told. `Begin` to `Get` is `begin_pick_create`; `Create` and `CreateFails`
the handler; `AbortGet`, `AbortDelete` the abort; `Commit`, `CommitFails`, `Store`
the COMMIT and the hook after it. A Redis call or a COMMIT that fails may have
been carried out. `Crash` ends the process: nothing of the handler runs.
`forgotten` remembers that the key expired under a request working with it, or
after a pick of it was committed: from then on a retry is a new request.

### OutboxDelivery

An event is the rank of its `created_at`. `Fetch` is the SELECT with SKIP LOCKED,
`Deliver` the handler and the mark of one event, `Commit`, `HandlerFails` and
`Crash` the end of the batch. The repository has neither the loop that calls
`run_outbox_batch` nor a handler: the caller is taken to commit when it returns
and to roll back when it raises. `calls` counts the effects of an event and
`lost` those that a rollback has forgotten.

### Pipeline

The jobs of one `run_date`. `Check` and `Enqueue` are the trigger, `Take` to `Ack`
the Celery task, with `Fetch`, `Call` and `GiveUp` the odds client (a cached listing, an
answer of the API that Redis may fail to keep, an error for which the runner
takes an empty listing), `Upsert` and `Load` the runner; `ShowFailed` and
`Retry` are the handling of an exception. `Enqueue` shows the job as queued and sends its
message in one step. A failed statement, a COMMIT whose
answer is lost, a Redis that fails after the COMMIT, a worker that dies and a
message that is lost are actions of their own, each counted against `MaxFaults`.
A fixture is a pair of teams, a row of `matches` is known by its fixture and the
run that inserted it, and a row of a playable fixture gets one pick: odds,
grades and the parlay builder are data. `base` is what was committed when a
run began. The day and job keys live for 24 hours and do not expire here;
sending a retry and acknowledging the message is one step.

### Dashboard

One day. A change is a committed request or import, and a figure is the set of
changes it was computed from: an aggregate or a summary is stale when changes
are missing in it. `change[c]` is the set of calls a request has still to make.
`Take`, `Scan` and `Upsert` are the Celery task; nobody deletes `runLock`, which
goes with `RunLockExpires`. `Ask`, `Fetch`, `ReadCount`, `ReadStatuses`, `ReadSums`,
`Store` are `get_summary`. Lifetimes (30, 5, 60, 300 and 600 seconds) are expiries
that may come at any time.

### Cashflow

A request creates a transaction, processes a deposit or a withdrawal, imports
several, or audits all wallets. `NextPage` and `Look` are the scan that gate and
audit share; `Look` may also take a healthy wallet for a drifting one, which is
what `Settlement` shows of two reads without a lock. That they hide a real drift,
when a settlement between them moves the wallet by just as much, is left out.
`HealthPasses` and `HealthFails` are the check of the wallet that a deposit names.
`Insert` and `InsertFails` are the rows of a bulk import: `flushed` is what its
transaction holds and `created`, `failed` are what its answer says. `sick[r]` is a
history variable: the wallets that have been CRITICAL since the request began.
Other transactions, and people at an SQL prompt, are `OpenWallet`, `Drift`, `Mend`
and `CloseWallet`.

### PickTable, Fiscal, Backfill, Reports

`PickTable` keeps of a pick its status and the day of `resolved_at`; stake, odds and
`run_date` are constants. Ids are uuids, whose order is not that of time: a pick may appear
behind the cursor of a job. An edit of a pick (`EditPick`) changes what it is
worth, which is not kept; that something was committed is all that the jobs could notice.

`Fiscal` is one client that asks for the summary of a year (`ReadWon` to
`ReadOutflow`), its CSV (`ReadDetailPicks`, `ReadDetailTransactions`) and its cashflow
(`ReadCashflow`), each a statement that sees what is committed then. A figure is known
by the rows it sums up, and the amounts are computed from these by `NetGamblingIncome`,
`PickNet`, `TxnNet` and `CashflowNet`. `Tear` counts the commits under the client
and notes the picks that one of them has edited.
`WriteTransaction`, `UpdateTransaction` and `EraseTransaction` are the writes; a `tax_year`
need not be that of the date. `before` is a history variable: the sums as they were
when the client asked.

`Backfill` knows the row of a day by how often each pick is in its count (`counted`) and
its profit in its sum (`paid`). `Truncate` or `SkipTruncate` begin a run, `ReadBatch` and
`FlushBatch` are a batch and its COMMIT, `CountPicks` to `Exit` the validation, and
`ScriptDies` ends it anywhere: the next run starts over. `RecomputeScan` and
`RecomputeUpsert` are the worker, which replaces the row of a day. `touched` is a history
variable: the picks that were changed, or whose day was recomputed, since
the tables were emptied. For those the script promises nothing, and what becomes of them
is `SummaryCatchesUp` of `Dashboard`.

## Runs

| Run | Instance | Shows |
|---|---|---|
| `settlement_races` | 4 requests, 2 picks, 1 user, stakes 1-2, funding 2; create, settle, delete, repair | 152,186 states: one settlement per pick, outbox, escrow and ledger in step, refinement of `BetBook`, repairs included |
| `settlement_edits` | 3 requests, 2 picks, 2 users, stakes 1-2, funding 2 and 1; all operations; fairness | 110,774 states: money conserved user by user, no wallet negative, the ledger tells the total of each, settled picks stay settled under edits and repairs, and every handler that has begun ends |
| `parlays` | 2 requests, used again and again, 2 picks, 2 parlays; all operations; fairness | 115,508 states: results agree with the legs and stay, and a retry resolves what was missed |
| `idempotency` | 3 requests, used again and again, 2 bodies, 2 pick ids; fairness | 447,118 states: one pick per key, only committed picks told, a stuck key comes back |
| `outbox` | 2 workers, 3 events, batches of 2, 2 forgotten effects of an event; fairness | 10,586 states: effects accounted for, every event delivered |
| `pipeline` | 2 jobs, forced or not, 2 fixtures, 2 processes, 1 retry, 1 fault; fairness | 397,708 states: clients are told committed imports, repeated ones are accounted for, jobs end |
| `dashboard` | 2 changes, 1 reader, 2 workers; fairness | 1,045,886 states: lag in one direction only and not for ever |
| `cashflow` | 1 request, 4 wallets in pages of 2, 3 rows, one of them a deposit; fairness | 314,625 states: no drift missed, failing rows abort no import and are not stored, every request ends |
| `reports` | 2 picks, 2 days, 3 transactions, batches of 1, one commit under a client | 832,988 states: a summary counts each pick once, its CSV adds up to it on its picks even when torn, reports that nothing tore agree, the backfill counts what nobody touched once |
| `tail_by_time` | 4 requests; create, settle | violation: the ledger tail by `created_at` |
| `parlay_missed` | 2 requests, 2 picks, 1 parlay; group, resolve | violation: the last two legs settle together |
| `pipeline_twice` | 2 jobs, not forced, no faults | violation: a day imported twice |

Bounds. In `Settlement` a request is used once, so the number of requests
bounds every behaviour and the clock needs no bound of its own. Four requests
are two that set up picks and two that race on them or on the wallet they
share, as `settlement_races` has them; three in `settlement_edits` are a pick, an edit or
a repair, and the settlement after it, of two users who may be different; two picks are enough for one settlement to change the wallet another is
computing on. Funding 2 or 3 against stakes 1 and 2 makes both a refused bet
and an empty escrow happen; odds 3 keep gains apart from stakes. In `Parlays` and
`Idempotency` requests are used again, and ids bound the behaviours: two parlays
share both picks, which a deadlock needs; three requests on one key are one that
holds it, one that finds it and one that takes it over; two pick ids are one more
than a key may create. Three events in batches of two leave one for the other
worker, and `MaxLost` bounds only how often effects are repeated. One retry and one fault
give each job up to three runs (the code allows two retries: another round of
the same); two fixtures are one that is playable and one that only makes matches.
In `Dashboard` each change happens once; two let one be scanned and the other
missed, and two workers overtake each other. A request of `Cashflow` shares
nothing with another but rows that are only added or deleted, and everything
others do to wallets is an action, so that one is enough; four wallets are two
full pages, and fewer give partial and empty ones. Two picks in batches of one
make each a batch, a commit or a crash between them, and an id behind the cursor; they are of one
day, so that a batch meets the row of another, and may be resolved in the year after.
The three transactions are a deposit, a withdrawal and a commission. `MaxCount` keeps a
pick from being counted a third time. `OneAtATime` prunes what shares no state: transactions and
picks, and reports and aggregates, are not explored together, and one commit under a client is
enough to come between any two statements. Requests are symmetric in
safety runs; runs with liveness use no symmetry.

Fairness. A server runs the handlers it has begun, PostgreSQL hands a released lock
to a waiter, and a worker that is up takes messages: weak fairness of `Step(r)`
in `Settlement`, `Idempotency`, `OutboxDelivery` and `Cashflow`. It is strong in `Parlays`, since
a lock may be free only between others, and in `Pipeline`, since a process may be.
Failures and new requests are never fair, with three exceptions. `Recover`: what
makes requests or handlers fail does not last for ever. In `Parlays` a client
that was answered sends its result again, which `RetryResolves` is about. And
time passes: the key in `Idempotency` expires once nobody works on it, and so do
the cached summary and the freshness of the row in `Dashboard`, which asks for
nothing else. `Reports` asks for none: a client may stop, and a script is run by
hand. `Idle` steps are where a system may come to rest.

### What the code does otherwise than its documentation

The three violation runs are divergences; `findings` in `PROJECT.json` quotes
both sides. The properties they break hold of the operations that do not contain
the cause. Others were met while modelling, are behaviours of the modules,
and have no run of their own:

* `assert_financial_health` reads wallet and ledger in two statements without a lock: a
  healthy wallet may be refused as FINANCIAL_STATE_CORRUPTED (`GateWallet`,
  `GateLedger`), against `docs/scaling_strategy.md:28`.
* `update_pick` leaves wallet and ledger at the old stake, and checks the status of a row it
  has not locked: the edit may be written to a pick settled meanwhile (`BeginEdit`,
  `FlushEdit`), against `docs/api_edge_cases.md:38`.
* `fix_user_balance` changes the wallet without a ledger row (`CommitRepair`), against
  `app/models/balance.py:18-19`.
* Legs that are push or void leave a parlay pending for ever (`Verdict`); a pick settled
  between the check of `create_parlay` and the insertion of its row is grouped all the
  same; a reject, or a delete that passed its check before the row was inserted,
  voids a pick inside a parlay.
* An Odds API that fails is a day with no picks, shown as completed and marked as run
  (`GiveUp`); `docs/api_edge_cases.md:58-60` says failed. "failed" may turn into
  "completed" by a retry, and a committed import may end as "failed".
* The upsert of matches is idempotent between runs, as `runner.py:6` says, and not within
  runs that overlap: two rows of a match make every later run of the day fail.
* Recomputation is enqueued, and the summary invalidated, before the COMMIT; updates and
  deletions invalidate nothing, against `docs/scaling_strategy.md:90`. A summary served
  from the aggregate takes its counts by status from the picks, so that it may show more
  resolved picks than picks. `SummaryCatchesUp` says that all this passes.
* A bulk import that fails at a row rolls back the rows before it and counts them as
  created (`InsertFails`), against its docstring, `transaction_service.py:143-147`: rows are
  tried one by one "para poder reportar errores por índice sin abortar todo el lote".
  `FailuresAbortNoImport` claims what code and docstring agree on: what is created after the
  last failure is stored, and nothing that is not answered as created. It would hold as well
  if each failing row were rolled back alone, and says nothing of the rows that are lost.
* The fiscal summary and its CSV are live sums over picks, against
  `docs/scaling_strategy.md:57` and 68. A settlement between their statements is in one
  and not in the other (`SummaryCountsOnce` says how far that goes).
* `gross_winnings_mxn` is "Suma de (stake * odds_decimal)" in `schemas/fiscal.py:29`, and stake
  times odds less stake in `fiscal_service.py:85`. Commissions and refunds are "neutrales en el
  reporte" in `fiscal_service.py:342` and credits in the next lines (`TxnNet`), so that the nets of
  the CSV do not add up to the summary when there are any. `DetailAddsUp` is about the other
  types, and holds whichever of the two is meant.
* `tax_year` is "Calculado automáticamente desde transaction_date" (`models/transaction.py:81`)
  when a row is made; `update_transaction` leaves it at the old year (`UpdateTransaction`), and
  the summary and the cashflow put the row in different years.
* "A full re-run is idempotent" (`backfill_aggregates.py:4`) while nobody changes a pick and no
  worker recomputes: a batch on top of a recomputed row counts twice, a pick with an id behind the
  cursor is missing, and the totals that the validation compares may agree all the same when
  one pick is counted twice and another not at all.
* `GET /transactions` passes `transaction_type=`, which `list_transactions` does not have; the route of
  a deletion declares the row as its answer and returns a boolean. Both are errors to the client, the
  second after the row is gone.

## Proofs

The theorems hold for any set of requests, picks, users, workers, events,
fixtures and keys, finite or not, under the named assumptions of each module. Only
`Reports` assumes that its picks and its transactions are finitely many, because
its figures are sums over a table, and `Cashflow` its users and rows, because a page
is cut by counting.

`Settlement`:

* `LockDiscipline`: `Spec => []IInv`. `IInv` says that a handler past
  `FOR UPDATE` holds the lock (`LocksHeld`), that what it has established of
  its pick still holds (`Grounded`), and that what it has buffered is what
  its operation gives on the tables as they are now (`NoLostUpdate`). None of
  the safety properties is inductive without it: at a commit the tables are
  overwritten by values computed earlier, and only the locks say that these
  are still right. The proof splits on the request that moves: it re-establishes
  its own part (`OwnStep`), and the parts of the others do not read what it may
  write (`TableFrame`, `OthersOwn`).
* `TypeCorrect`, `WritesAreFresh` are conjuncts of it.
* `NonNegative`, `OutboxTells`, `LedgerTotals`, `SettledOnce` are invariants and
  `SettledStays`, `NothingSilent` action properties of the three commits, whose
  effect `CommitMoneyCases`, `CommitPickCases` and `CommitRepairCase` spell out.
* `Conservation`: `Spec => []MoneyConserved`, for every operation. The sum of the profits of
  settled picks moves at a commit by what the pick of that transaction brings in
  (`BooksMoved`); that it can be taken out of the sum is a lemma (`SumTaken`). The invariant
  behind it (`BooksInv`) says that only finitely many picks exist, so that the sums are
  sums, and that a pick has no profit before it is settled.
* `EscrowKept`: as long as no stake is edited (`"edit" \notin Ops`) the locked balance is the
  sum of the pending stakes. With edits it is not so, since `update_pick` leaves the wallet
  at the old stake. Repairs are allowed: `NothingToRepair` shows that without edits there
  is no drift for `fix_user_balance` to mend, although it may take the lock and look.
* `LedgerMirrors`: unless both edits and repairs are on offer, a wallet is field by field what
  its last ledger row says. With both, a repair moves a wallet and writes no row.
* `BetBookImplemented`: with `Ops` without `edit`, `Spec` implements `BetBook` under
  `cash <- available`, `bet <- picks`. It needs `SettledOnce` (the repair path of
  `record_settlement` would close a bet without paying it) and `NothingToRepair`. What a
  handler has asked for is recorded in `AskedInv`: the outcome in its buffer is one that
  a client may ask for.

Sums over finite sets: `SumFunctionOnSet` is defined by choosing a function on the subsets of a set. Its lemmas say
that this function exists and is unique, and that a sum may be taken apart: by one element
(`SumTaken`), into two sets (`SumUnion`), with negated terms (`SumMinus`), or as a count
(`SumCounts`). They go by induction over the subsets of a finite set, stated for a set of good subsets
(`SetInduction`) and proved from the well-foundedness of inclusion; an induction
rule with an operator for a parameter could not be used. `ReportsProofs` has all of them;
`SettlementProofs` repeats those it needs, up to `SumTaken`, so that it reads on its own.

`Parlays`: `Invariance` is the invariant `IInv`: a settling request holds its pick
and a grouping one shares those it has inserted (`Own`, `Exclusive`), what its
session knows of settled legs is so, what it has flushed for a parlay is the
verdict on legs that are settled, and parlays not made yet have no legs
(`NoLegs`). From it follow `ResolvedAsLegsAlways`, `ResolvedForGoodAlways` and
`LegsHeldToCommitAlways`. The point is that a leg read as settled stays so, while one
read as pending may be out of date: the verdict of a stale session is late,
never wrong.

`Idempotency`: `KeyLocked` is the invariant that, until the key is forgotten, at most one
request is past its SET NX, the key is taken while one is or once a pick is
committed, and no pick is committed before that request's COMMIT. `OnePickPerKeyAlways` and
`ToldCommittedAlways` follow.

`OutboxDelivery`: `RowsHeld` says that a worker has locked the events of its batch and
that those it has marked are apart from those to come; `EffectsAccountedAlways`
counts effects with it.

`Dashboard`: `FiguresKnown` says that whatever a worker has scanned, a reader has put
together and a row shows is committed, and that a reader's figures are read in
order; with at most one run under its lock, `AggregateNeverOlderAlways` follows,
and with the order of reads `SummaryOnlyLagsAlways`.

`Reports`: `Invariance` is the invariant `IInv`. For the client (`ReportInv`): a pick that is won or
lost stays so, in its year, so that what a statement has read is still so and what was so when
it asked is in it. For the script (`BatchInv`, `CountedUpToCursor`): the batch it holds is
the page after its cursor, but for picks in `touched`, so that adding it to the rows moves
the cursor and nothing else. `SummaryCountsOnceAlways` and `CountedUpToCursorAlways` follow, for any
number of picks, days and transactions, any commits in between and any size of a batch. What a client has
summed up as won or lost is still so, and the rows of these picks in its CSV add up to its net
income whatever was committed meanwhile (`PicksAddUp`), but for picks in `edited`, whose new
figures the model does not keep. `ReadsCurrent` says that a client under which nothing was
committed has read what is there, from which `DetailAddsUpAlways` computes the rest: the other
rows of the CSV have a net of 0 (`OtherRowsZero`), its transactions come in or go out
(`TransactionsAddUp`). `ValidInv` says that with nothing touched a validation that has been
reached finds totals that count the picks (`TotalsCount`), which gives `CountedOnceAlways`.

`Cashflow`: `Invariance` is the invariant `IInv`, for any number of requests, wallets and rows and
any size of a page. `Scanned` says where a wallet is that has been CRITICAL since the request began:
found, still in the page, or after the cursor. It needs that a page leaves out nothing up to its last
wallet, and is empty only when none is left (`PageTakesAll`, from the least and the greatest element of
a finite set of numbers and the cardinality of its initial parts). Wallets that are opened behind the
cursor are not in `sick`, and one that is mended or closed leaves it: that is the promise
`NoDriftMissedAlways` makes and no more. `Payload` says that rows are taken in their order, so that what a
rollback leaves is what was created after the last failure (`FailuresAbortNoImportAlways`).

`Pipeline`: `Invariance` is the invariant `IInv`, for any number of jobs, processes, retries and
faults. `Counted` says that the committed runs of a job are as many as `runs` tells, and all but
the last are forgotten commits (`repeats`): that is why a repeat without a failure between
COMMIT and end of the task is impossible (`ImportsAreAccounted`). `Inserts` says that what a
run has inserted carries its number and is new to what was committed when it began, which holds because
a run sees all that its base held; numbers of committed runs are below the next one
(`TablesInv`), so that rows and runs of different commits are told apart
(`UpsertIdempotent`). `Tells` follows the answer from the COMMIT to the acknowledgement
(`CompletedIsImported`, `AckedHasTold`). A step of one job leaves the others alone and only adds
to the tables (`Frame`).

Only model-checked: everything about fairness (`EveryRequestEnds`, `RetryResolves`,
`KeyComesBack`, `EveryEventDelivered`, `EveryJobEnds`, `SummaryCatchesUp`), which is out of the
prover's reach. Every invariant and every action property that a run checks is a theorem. `NoLostUpdate`,
`NoSilentMovement` and `LegsHeldToCommit` are proved, and were model-checked on their way to
the proof; no run repeats them.

## Plan

1. Settlement core with its proofs; parlays, idempotency, outbox, pipeline, dashboard, fiscal
   reports, backfill and cashflow with theirs (done).
2. An abstract specification of the key of `Idempotency` (a pick created once or
   refused) that the module implements, as `BetBook` is of `Settlement`.
3. Pure algorithms against reference definitions: best odds of the runner over ties.

Not modelled, and why:

* schemas and serialisation, logging, migrations and seed scripts: no behaviour of their own;
* the parlay builder and the odds calculator (`calculator.py`): floating-point formulas without
  state; for `Pipeline` they are which fixtures are playable. `predictor.py` has no caller;
* counters of operational metrics: incremented and shown, and read by no other part;
* a confirmation that accepts (`confirmed_at` is read by nothing in the money core), `get_segments`
  and the lists: single reads and writes;
* `agg_pick_dimension_daily`, written beside `agg_pick_daily` and read by nobody;
* the arithmetic of cents: both sides of every equation are rounded alike by `Numeric(15, 2)`;
* `dev_reset_pipeline`: a development tool.

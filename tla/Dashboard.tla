------------------------------ MODULE Dashboard ------------------------------
(***************************************************************************)
(* The summary of a day and the two things it may be served from instead   *)
(* of the picks: the row of agg_pick_daily that worker/tasks.py recomputes *)
(* (services/aggregate_recompute.py), and the answer that                  *)
(* services/dashboard_service.py keeps in Redis.                           *)
(*                                                                         *)
(* A change is a committed request or import that touches the picks of     *)
(* the day; what a figure shows is the set of changes it was computed      *)
(* from.  The columns of the row are computed from one scan, so they show  *)
(* the same changes; its counts by status partition its pick_count, and    *)
(* the check that they do never fails.  agg_pick_dimension_daily has no    *)
(* reader and is left out, as are metrics and the sampled comparison.      *)
(***************************************************************************)
EXTENDS Naturals, FiniteSets

CONSTANTS
  Changes,      \* requests and imports that change the picks of the day
  Readers,      \* requests for the summary in flight at a time
  Workers,      \* processes of the Celery worker
  NoMessage     \* "the worker has no message"

ASSUME DashboardAssumption == NoMessage \notin Changes

VARIABLES
  picks,        \* the changes committed
  agg,          \* the row of the day in agg_pick_daily, if there is one
  cache,        \* dashboard:summary:<params>, if it is there
  runLock,      \* agg_lock:<day>, 30 seconds
  enqueueLock,  \* agg_enqueue_lock:<day>, 5 seconds
  queue,        \* messages for the worker, each known by the change that sent it
  circuit,      \* agg_fail_circuit_open, 60 seconds
  change,       \* change -> the calls that its request has still to make
  worker,       \* worker -> where it stands, its message and what it has scanned
  reader,       \* reader -> where it stands, the row it has and the figures so far
  overrun       \* the lock of a run has expired before its end

redis == <<cache, runLock, enqueueLock, queue, circuit>>
vars == <<picks, agg, redis, change, worker, reader, overrun>>

Calls == {"enqueue", "send", "invalidate", "commit"}
Row == [shows : SUBSET Changes, fresh : BOOLEAN]
Summary == [count : SUBSET Changes, statuses : SUBSET Changes, sums : SUBSET Changes]
Blank == [count |-> {}, statuses |-> {}, sums |-> {}]
IdleWorker == [at |-> "idle", message |-> NoMessage, scan |-> {}]
IdleReader == [at |-> "idle", row |-> {}, sum |-> Blank]

Init ==
  /\ picks = {}
  /\ agg = {}
  /\ cache = {}
  /\ runLock = FALSE
  /\ enqueueLock = FALSE
  /\ queue = {}
  /\ circuit = FALSE
  /\ change = [c \in Changes |-> {"begin"}]
  /\ worker = [w \in Workers |-> IdleWorker]
  /\ reader = [r \in Readers |-> IdleReader]
  /\ overrun = FALSE

-----------------------------------------------------------------------------
\* Changes of picks: the calls of a request are in the order enqueue, send, invalidate, commit

Left(c, calls) == change' = [change EXCEPT ![c] = calls]

\* create_pick and resolve_pick make all the calls.  update_pick and delete_pick do not
\* invalidate the summary; confirm_pick and the pipeline do nothing but COMMIT.
Begin(c) ==
  /\ change[c] = {"begin"}
  /\ \E calls \in {Calls, Calls \ {"invalidate"}, {"commit"}} : Left(c, calls)
  /\ UNCHANGED <<picks, agg, redis, worker, reader, overrun>>

\* enqueue_recompute_aggregates_for_day: nothing to send while a run has its lock ...
Enqueue(c) ==
  /\ "enqueue" \in change[c]
  /\ Left(c, change[c] \ (IF runLock THEN {"enqueue", "send"} ELSE {"enqueue"}))
  /\ UNCHANGED <<picks, agg, redis, worker, reader, overrun>>

\* ... or when another change has sent a message in the last 5 seconds.
Send(c) ==
  /\ "enqueue" \notin change[c] /\ "send" \in change[c]
  /\ enqueueLock' = TRUE
  /\ queue' = IF enqueueLock THEN queue ELSE queue \cup {c}
  /\ Left(c, change[c] \ {"send"})
  /\ UNCHANGED <<picks, agg, cache, runLock, circuit, worker, reader, overrun>>

\* The broker fails when the lock has been set: the request ends in an error.
SendFails(c) ==
  /\ "enqueue" \notin change[c] /\ "send" \in change[c]
  /\ enqueueLock' = TRUE
  /\ Left(c, {})
  /\ UNCHANGED <<picks, agg, cache, runLock, queue, circuit, worker, reader, overrun>>

\* invalidate_dashboard_cache: a failing Redis is passed over.
Invalidate(c) ==
  /\ change[c] = {"invalidate", "commit"}
  /\ cache' \in {cache, {}}
  /\ Left(c, {"commit"})
  /\ UNCHANGED <<picks, agg, runLock, enqueueLock, queue, circuit, worker, reader, overrun>>

Commit(c) ==
  /\ change[c] = {"commit"}
  /\ picks' = picks \cup {c}
  /\ Left(c, {})
  /\ UNCHANGED <<agg, redis, worker, reader, overrun>>

Abort(c) ==
  /\ "commit" \in change[c]
  /\ Left(c, {})
  /\ UNCHANGED <<picks, agg, redis, worker, reader, overrun>>

-----------------------------------------------------------------------------
\* recompute_aggregates_for_day

\* Mutant: the lock of a run is set, not taken.
TakeUnlocked(w) ==
  /\ worker[w].at = "idle"
  /\ \E m \in queue :
       /\ queue' = queue \ {m}
       /\ runLock' = TRUE
       /\ worker' = [worker EXCEPT ![w] = [IdleWorker EXCEPT !.at = "scan", !.message = m]]
  /\ UNCHANGED <<picks, agg, cache, enqueueLock, circuit, change, reader, overrun>>

\* SET NX of the lock of the day, which nobody deletes; without it the task ends at once.
Take(w) ==
  /\ worker[w].at = "idle"
  /\ \E m \in queue :
       /\ queue' = queue \ {m}
       /\ runLock' = TRUE
       /\ worker' = IF runLock THEN worker
                    ELSE [worker EXCEPT ![w] = [IdleWorker EXCEPT !.at = "scan", !.message = m]]
  /\ UNCHANGED <<picks, agg, cache, enqueueLock, circuit, change, reader, overrun>>

Scan(w) ==
  /\ worker[w].at = "scan"
  /\ worker' = [worker EXCEPT ![w].at = "write", ![w].scan = picks]
  /\ UNCHANGED <<picks, agg, redis, change, reader, overrun>>

\* The UPSERT of the day and its COMMIT, whatever the row shows by now.
Upsert(w) ==
  /\ worker[w].at = "write"
  /\ agg' = {[shows |-> worker[w].scan, fresh |-> TRUE]}
  /\ worker' = [worker EXCEPT ![w] = IdleWorker]
  /\ UNCHANGED <<picks, redis, change, reader, overrun>>

\* The task raises: nobody retries it, and its message is acknowledged.
RunFails(w) ==
  /\ worker[w].at # "idle"
  /\ worker' = [worker EXCEPT ![w] = IdleWorker]
  /\ UNCHANGED <<picks, agg, redis, change, reader, overrun>>

\* Mutant: a worker with no message gives one back.
WorkerDiesIdle(w) ==
  /\ queue' = queue \cup {worker[w].message}
  /\ worker' = [worker EXCEPT ![w] = IdleWorker]
  /\ UNCHANGED <<picks, agg, cache, runLock, enqueueLock, circuit, change, reader, overrun>>

\* The worker dies, and its message, acknowledged late, is delivered again.
WorkerDies(w) ==
  /\ worker[w].at # "idle"
  /\ queue' = queue \cup {worker[w].message}
  /\ worker' = [worker EXCEPT ![w] = IdleWorker]
  /\ UNCHANGED <<picks, agg, cache, runLock, enqueueLock, circuit, change, reader, overrun>>

-----------------------------------------------------------------------------
\* get_summary

\* GET of the cache, whose failure is a miss, then the operator's switches and the circuit.
Ask(r) ==
  /\ reader[r].at = "idle"
  /\ \E aggregates \in BOOLEAN :
       reader' = [reader EXCEPT ![r].at = IF aggregates /\ ~circuit THEN "fetch" ELSE "count"]
  /\ UNCHANGED <<picks, agg, redis, change, worker, overrun>>

\* Mutant: the age of the row is not looked at.
ValidAtAnyAge == agg

\* _validate_agg_pick_daily_rows: the day has a row, updated in the last 10 minutes.
Valid == {row \in agg : row.fresh}

\* Without a valid row the circuit is opened, if Redis takes it.
Fetch(r) ==
  /\ reader[r].at = "fetch"
  /\ circuit' \in {circuit, circuit \/ Valid = {}}
  /\ reader' = [reader EXCEPT ![r].at = "count", ![r].row = {row.shows : row \in Valid}]
  /\ UNCHANGED <<picks, agg, cache, runLock, enqueueLock, queue, change, worker, overrun>>

\* _compute_raw_summary_data reads in one statement after another; the count of picks and
\* the sums are those of the row, if it was valid.
Figure(r) == IF reader[r].row = {} THEN picks ELSE UNION reader[r].row

ReadCount(r) ==
  /\ reader[r].at = "count"
  /\ reader' = [reader EXCEPT ![r].at = "statuses", ![r].sum.count = Figure(r)]
  /\ UNCHANGED <<picks, agg, redis, change, worker, overrun>>

ReadStatuses(r) ==
  /\ reader[r].at = "statuses"
  /\ reader' = [reader EXCEPT ![r].at = "sums", ![r].sum.statuses = picks]
  /\ UNCHANGED <<picks, agg, redis, change, worker, overrun>>

ReadSums(r) ==
  /\ reader[r].at = "sums"
  /\ reader' = [reader EXCEPT ![r].at = "store", ![r].sum.sums = Figure(r)]
  /\ UNCHANGED <<picks, agg, redis, change, worker, overrun>>

\* Mutant: the row is fetched after the picks.
StoreLateRow(r) ==
  /\ reader[r].at = "store"
  /\ cache' = {IF Valid = {} THEN reader[r].sum
               ELSE [reader[r].sum EXCEPT !.count = UNION {row.shows : row \in Valid},
                                          !.sums = UNION {row.shows : row \in Valid}]}
  /\ reader' = [reader EXCEPT ![r] = IdleReader]
  /\ UNCHANGED <<picks, agg, runLock, enqueueLock, queue, circuit, change, worker, overrun>>

\* set_cache, whose failure is passed over, and the answer.
Store(r) ==
  /\ reader[r].at = "store"
  /\ cache' \in {cache, {reader[r].sum}}
  /\ reader' = [reader EXCEPT ![r] = IdleReader]
  /\ UNCHANGED <<picks, agg, runLock, enqueueLock, queue, circuit, change, worker, overrun>>

\* A statement or an EXISTS of the gate fails.
ReadFails(r) ==
  /\ reader[r].at # "idle"
  /\ reader' = [reader EXCEPT ![r] = IdleReader]
  /\ UNCHANGED <<picks, agg, redis, change, worker, overrun>>

-----------------------------------------------------------------------------
\* Time

RunLockExpires ==
  /\ runLock
  /\ runLock' = FALSE
  /\ overrun' = (overrun \/ \E w \in Workers : worker[w].at # "idle")
  /\ UNCHANGED <<picks, agg, cache, enqueueLock, queue, circuit, change, worker, reader>>

EnqueueLockExpires ==
  /\ enqueueLock
  /\ enqueueLock' = FALSE
  /\ UNCHANGED <<picks, agg, cache, runLock, queue, circuit, change, worker, reader, overrun>>

CircuitCloses ==
  /\ circuit
  /\ circuit' = FALSE
  /\ UNCHANGED <<picks, agg, cache, runLock, enqueueLock, queue, change, worker, reader, overrun>>

\* 5 minutes after it was stored.
SummaryExpires ==
  /\ cache # {}
  /\ cache' = {}
  /\ UNCHANGED <<picks, agg, runLock, enqueueLock, queue, circuit, change, worker, reader, overrun>>

\* AGG_STALENESS_MAX, 10 minutes after updated_at.
RowAges ==
  /\ Valid # {}
  /\ agg' = {[row EXCEPT !.fresh = FALSE] : row \in agg}
  /\ UNCHANGED <<picks, redis, change, worker, reader, overrun>>

Next ==
  \/ \E c \in Changes : \/ Begin(c) \/ Enqueue(c) \/ Send(c) \/ SendFails(c)
                        \/ Invalidate(c) \/ Commit(c) \/ Abort(c)
  \/ \E w \in Workers : Take(w) \/ Scan(w) \/ Upsert(w) \/ RunFails(w) \/ WorkerDies(w)
  \/ \E r \in Readers : \/ Ask(r) \/ Fetch(r) \/ ReadCount(r) \/ ReadStatuses(r)
                        \/ ReadSums(r) \/ Store(r) \/ ReadFails(r)
  \/ RunLockExpires \/ EnqueueLockExpires \/ CircuitCloses \/ SummaryExpires \/ RowAges

Spec == Init /\ [][Next]_vars

\* Time passes.  Nothing is asked of requests, workers or Redis.
FairSpec == Spec /\ WF_vars(SummaryExpires) /\ WF_vars(RowAges)

-----------------------------------------------------------------------------
\* Properties

TypeOK ==
  /\ picks \in SUBSET Changes
  /\ agg \in SUBSET Row
  /\ cache \in SUBSET Summary
  /\ runLock \in BOOLEAN
  /\ enqueueLock \in BOOLEAN
  /\ queue \in SUBSET Changes
  /\ circuit \in BOOLEAN
  /\ change \in [Changes -> SUBSET (Calls \cup {"begin"})]
  /\ worker \in [Workers -> [at : {"idle", "scan", "write"},
                             message : Changes \cup {NoMessage}, scan : SUBSET Changes]]
  /\ reader \in [Readers -> [at : {"idle", "fetch", "count", "statuses", "sums", "store"},
                             row : SUBSET SUBSET Changes, sum : Summary]]
  /\ overrun \in BOOLEAN

\* Recomputing never takes a day back to before an earlier recomputation, unless the lock of
\* a run, which lives for 30 seconds, expires before the run has ended.
AggregateNeverOlder ==
  [][~overrun => \A old \in agg, new \in agg' : old.shows \subseteq new.shows]_vars

\* A summary shows committed changes only.  It is of one mind or lags in one way: sums taken
\* from the aggregate show the changes that its count of picks shows, sums taken from the
\* picks all that its counts by status show, and these all that the count of picks shows.
SummaryOnlyLags ==
  \A s \in cache :
    /\ s.count \subseteq s.statuses
    /\ s.sums = s.count \/ s.statuses \subseteq s.sums
    /\ s.statuses \cup s.sums \subseteq picks

\* Once the picks of a day no longer change, neither a stale cache nor a stale aggregate
\* hides a change for ever, although a recomputation may never be enqueued, or be enqueued
\* and lost, and a summary may be read before a COMMIT and stored after the invalidation.
SummaryCatchesUp ==
  <>[](\A s \in cache : s = [count |-> picks, statuses |-> picks, sums |-> picks])
=============================================================================

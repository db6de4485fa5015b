--------------------------- MODULE DashboardProofs ---------------------------
(***************************************************************************)
(* Theorems about Dashboard: types, what a summary may show, and the order *)
(* of recomputations, for any sets of changes, readers and workers.        *)
(***************************************************************************)
EXTENDS Dashboard, TLAPS

Busy(w) == worker[w].at # "idle"

\* The day has one row; it and what workers have scanned is committed.
RowsCommitted ==
  /\ \A a, b \in agg : a = b
  /\ \A row \in agg : row.shows \subseteq picks
  /\ \A w \in Workers : worker[w].scan \subseteq picks

\* A run that dies has the message to give back.
RunsHaveMessages == \A w \in Workers : Busy(w) => worker[w].message \in Changes

\* What a reader has put together was committed when it was read, one figure after another.
ReadInOrder(r) ==
  LET row == reader[r].row
      sum == reader[r].sum
      at == reader[r].at
  IN /\ UNION row \subseteq picks
     /\ at \in {"statuses", "sums", "store"} =>
          sum.count \subseteq picks /\ (row # {} => sum.count = UNION row)
     /\ at \in {"sums", "store"} => sum.count \subseteq sum.statuses /\ sum.statuses \subseteq picks
     /\ at = "store" => /\ sum.sums \subseteq picks
                        /\ sum.sums = sum.count \/ sum.statuses \subseteq sum.sums

\* While no lock has expired under its run, a run has the lock to itself, and what it has
\* scanned is no older than the row.
OneRun ==
  ~overrun =>
    /\ \A w \in Workers : Busy(w) => runLock
    /\ \A v, w \in Workers : Busy(v) /\ Busy(w) => v = w
    /\ \A w \in Workers, row \in agg : worker[w].at = "write" => row.shows \subseteq worker[w].scan

IInv ==
  /\ TypeOK
  /\ RowsCommitted
  /\ RunsHaveMessages
  /\ \A r \in Readers : ReadInOrder(r)
  /\ OneRun
  /\ SummaryOnlyLags

-----------------------------------------------------------------------------
LEMMA InitIInv == Init => IInv
<1> SUFFICES ASSUME Init PROVE IInv
  OBVIOUS
<1> USE DEF Init, IdleWorker, IdleReader, Blank
<1>1. TypeOK
  BY DEF TypeOK, Row, Summary, Calls
<1>2. RowsCommitted /\ RunsHaveMessages /\ OneRun /\ SummaryOnlyLags
  BY DEF RowsCommitted, RunsHaveMessages, OneRun, SummaryOnlyLags, Busy
<1>3. ASSUME NEW r \in Readers PROVE ReadInOrder(r)
  BY DEF ReadInOrder
<1>4. QED
  BY <1>1, <1>2, <1>3 DEF IInv

-----------------------------------------------------------------------------
\* Changes touch nothing that workers and readers have, and only add to the picks.

ChangeStep(c) ==
  Begin(c) \/ Enqueue(c) \/ Send(c) \/ SendFails(c) \/ Invalidate(c) \/ Commit(c) \/ Abort(c)

LEMMA ChangeTyped ==
  ASSUME IInv, NEW c \in Changes, ChangeStep(c)
  PROVE  TypeOK'
<1> USE DEF IInv, TypeOK, Left, redis
<1>1. ASSUME NEW calls \in SUBSET Calls, Left(c, calls)
      PROVE  change' \in [Changes -> SUBSET (Calls \cup {"begin"})]
  BY <1>1
<1>2. change[c] \in SUBSET (Calls \cup {"begin"})
  OBVIOUS
<1>3. CASE Begin(c)
  BY <1>1, <1>3 DEF Begin, Calls
<1>4. CASE Enqueue(c)
  BY <1>2, <1>4 DEF Enqueue
<1>5. CASE Send(c)
  BY <1>2, <1>5 DEF Send
<1>6. CASE SendFails(c)
  BY <1>1, <1>6 DEF SendFails
<1>7. CASE Invalidate(c)
  BY <1>1, <1>7 DEF Invalidate, Calls
<1>8. CASE Commit(c)
  BY <1>1, <1>8 DEF Commit
<1>9. CASE Abort(c)
  BY <1>1, <1>9 DEF Abort
<1>10. QED
  BY <1>3, <1>4, <1>5, <1>6, <1>7, <1>8, <1>9 DEF ChangeStep

LEMMA ChangeIInv ==
  ASSUME IInv, NEW c \in Changes, ChangeStep(c)
  PROVE  IInv'
<1>1. /\ picks \subseteq picks' /\ cache' \subseteq cache
      /\ UNCHANGED <<agg, runLock, worker, reader, overrun>>
  BY DEF ChangeStep, Begin, Enqueue, Send, SendFails, Invalidate, Commit, Abort, redis
<1>2. TypeOK'
  BY ChangeTyped
<1>3. RowsCommitted' /\ RunsHaveMessages'
  BY <1>1 DEF IInv, RowsCommitted, RunsHaveMessages, Busy
<1>4. ASSUME NEW r \in Readers PROVE ReadInOrder(r)'
  BY <1>1 DEF IInv, ReadInOrder
<1>5. OneRun'
  BY <1>1 DEF IInv, OneRun, Busy
<1>6. SummaryOnlyLags'
  BY <1>1 DEF IInv, SummaryOnlyLags
<1>7. QED
  BY <1>2, <1>3, <1>4, <1>5, <1>6 DEF IInv

-----------------------------------------------------------------------------
\* Workers

WorkerStep(w) == Take(w) \/ Scan(w) \/ Upsert(w) \/ RunFails(w) \/ WorkerDies(w)

WorkerRecord ==
  [at : {"idle", "scan", "write"}, message : Changes \cup {NoMessage}, scan : SUBSET Changes]

\* A worker that becomes idle, or has a message, keeps the types and the messages of workers.
LEMMA WorkerBecomes ==
  ASSUME IInv, NEW w \in Workers, NEW held \in WorkerRecord,
         held.at = "idle" \/ held.message \in Changes,
         worker' = [worker EXCEPT ![w] = held]
  PROVE  worker' \in [Workers -> WorkerRecord] /\ RunsHaveMessages'
<1>1. worker \in [Workers -> WorkerRecord]
  BY DEF IInv, TypeOK, WorkerRecord
<1>2. worker' \in [Workers -> WorkerRecord]
  BY <1>1
<1>3. ASSUME NEW v \in Workers, worker'[v].at # "idle" PROVE worker'[v].message \in Changes
  <2>1. CASE v = w
    BY <1>1, <1>3, <2>1
  <2>2. CASE v # w
    BY <1>1, <1>3, <2>2 DEF IInv, RunsHaveMessages, Busy
  <2>3. QED
    BY <2>1, <2>2
<1>4. QED
  BY <1>2, <1>3 DEF RunsHaveMessages, Busy

LEMMA WorkerTyped ==
  ASSUME IInv, NEW w \in Workers, WorkerStep(w)
  PROVE  TypeOK' /\ RunsHaveMessages'
<1>1. TypeOK /\ RunsHaveMessages
  BY DEF IInv
<1>2. worker[w] \in WorkerRecord /\ IdleWorker \in WorkerRecord /\ picks \in SUBSET Changes
  BY <1>1 DEF TypeOK, WorkerRecord, IdleWorker
<1>3. UNCHANGED <<picks, cache, enqueueLock, circuit, change, reader, overrun>>
  BY DEF WorkerStep, Take, Scan, Upsert, RunFails, WorkerDies, redis
<1>4. SUFFICES /\ worker' \in [Workers -> WorkerRecord] /\ RunsHaveMessages'
               /\ agg' \in SUBSET Row /\ queue' \in SUBSET Changes /\ runLock' \in BOOLEAN
  BY <1>1, <1>3 DEF TypeOK, WorkerRecord
<1>5. CASE Take(w)
  <2>1. PICK m \in queue :
          /\ queue' = queue \ {m}
          /\ runLock' = TRUE
          /\ \/ UNCHANGED worker
             \/ worker' = [worker EXCEPT ![w] = [at |-> "scan", message |-> m, scan |-> {}]]
    BY <1>5 DEF Take, IdleWorker
  <2>2. m \in Changes /\ [at |-> "scan", message |-> m, scan |-> {}] \in WorkerRecord
    BY <1>1 DEF TypeOK, WorkerRecord
  <2>3. worker' \in [Workers -> WorkerRecord] /\ RunsHaveMessages'
    <3>1. CASE UNCHANGED worker
      BY <1>1, <3>1 DEF TypeOK, WorkerRecord, RunsHaveMessages, Busy
    <3>2. CASE worker' = [worker EXCEPT ![w] = [at |-> "scan", message |-> m, scan |-> {}]]
      BY <2>2, <3>2, WorkerBecomes
    <3>3. QED
      BY <2>1, <3>1, <3>2
  <2>4. QED
    BY <1>1, <1>5, <2>1, <2>3 DEF Take, TypeOK
<1>6. CASE Scan(w)
  <2>1. worker' = [worker EXCEPT ![w] =
                     [at |-> "write", message |-> worker[w].message, scan |-> picks]]
    <3> DEFINE held == [at |-> "write", message |-> worker[w].message, scan |-> picks]
    <3>1. worker \in [Workers -> WorkerRecord]
      BY <1>1 DEF TypeOK, WorkerRecord
    <3>2. worker' \in [Workers -> WorkerRecord] /\ worker'[w] = held
      BY <1>2, <1>6, <3>1 DEF Scan, WorkerRecord
    <3>3. \A v \in Workers \ {w} : worker'[v] = worker[v]
      BY <1>6, <3>1 DEF Scan
    <3>4. QED
      BY <3>1, <3>2, <3>3
  <2>2. /\ worker[w].message \in Changes
        /\ [at |-> "write", message |-> worker[w].message, scan |-> picks] \in WorkerRecord
    BY <1>1, <1>2, <1>6 DEF Scan, RunsHaveMessages, Busy, WorkerRecord
  <2>3. QED
    BY <1>1, <1>6, <2>1, <2>2, WorkerBecomes DEF Scan, TypeOK, redis
<1>7. ASSUME worker' = [worker EXCEPT ![w] = IdleWorker]
      PROVE  worker' \in [Workers -> WorkerRecord] /\ RunsHaveMessages'
  BY <1>2, <1>7, WorkerBecomes DEF IdleWorker
<1>8. CASE Upsert(w)
  <2>1. [shows |-> worker[w].scan, fresh |-> TRUE] \in Row
    BY <1>2 DEF WorkerRecord, Row
  <2>2. QED
    BY <1>1, <1>7, <1>8, <2>1 DEF Upsert, TypeOK, redis
<1>9. CASE RunFails(w)
  BY <1>1, <1>7, <1>9 DEF RunFails, TypeOK, redis
<1>10. CASE WorkerDies(w)
  BY <1>1, <1>7, <1>10 DEF WorkerDies, TypeOK, RunsHaveMessages, Busy
<1>11. QED
  BY <1>5, <1>6, <1>8, <1>9, <1>10 DEF WorkerStep

\* A run that ends, or dies, leaves the row and the locks alone.
LEMMA WorkerRests ==
  ASSUME IInv, NEW w \in Workers,
         worker' = [worker EXCEPT ![w] = IdleWorker], UNCHANGED <<picks, agg, runLock, overrun>>
  PROVE  RowsCommitted' /\ OneRun'
<1>1. worker \in [Workers -> WorkerRecord]
  BY DEF IInv, TypeOK, WorkerRecord
<1>2. worker'[w].at = "idle" /\ worker'[w].scan = {} /\ \A v \in Workers \ {w} : worker'[v] = worker[v]
  BY <1>1 DEF IdleWorker
<1>3. RowsCommitted'
  BY <1>2 DEF IInv, RowsCommitted
<1>4. OneRun'
  BY <1>2 DEF IInv, OneRun, Busy
<1>5. QED
  BY <1>3, <1>4

LEMMA WorkerIInv ==
  ASSUME IInv, NEW w \in Workers, WorkerStep(w)
  PROVE  IInv'
<1>1. TypeOK /\ RowsCommitted /\ OneRun /\ worker \in [Workers -> WorkerRecord]
  BY DEF IInv, TypeOK, WorkerRecord
<1>2. UNCHANGED <<picks, cache, reader, overrun>>
  BY DEF WorkerStep, Take, Scan, Upsert, RunFails, WorkerDies, redis
<1>3. TypeOK' /\ RunsHaveMessages'
  BY WorkerTyped
<1>4. RowsCommitted' /\ OneRun'
  <2>1. CASE Take(w)
    <3>1. CASE runLock
      BY <1>1, <1>2, <2>1, <3>1 DEF Take, RowsCommitted, OneRun, Busy
    <3>2. CASE ~runLock
      <4>1. PICK m \in queue : worker' = [worker EXCEPT ![w] =
                                            [at |-> "scan", message |-> m, scan |-> {}]]
        BY <2>1, <3>2 DEF Take, IdleWorker
      <4>2. /\ worker'[w] = [at |-> "scan", message |-> m, scan |-> {}]
            /\ \A v \in Workers \ {w} : worker'[v] = worker[v]
            /\ agg' = agg /\ runLock' = TRUE
        BY <1>1, <2>1, <4>1 DEF Take
      <4>3. RowsCommitted'
        BY <1>1, <1>2, <4>2 DEF RowsCommitted
      <4>4. OneRun'
        BY <1>1, <1>2, <3>2, <4>2 DEF OneRun, Busy
      <4>5. QED
        BY <4>3, <4>4
    <3>3. QED
      BY <3>1, <3>2, <1>1 DEF TypeOK
  <2>2. CASE Scan(w)
    <3>1. /\ worker'[w].scan = picks /\ worker'[w].at = "write"
          /\ \A v \in Workers \ {w} : worker'[v] = worker[v]
          /\ UNCHANGED <<agg, runLock>>
      BY <1>1, <2>2 DEF Scan, WorkerRecord, redis
    <3>2. RowsCommitted'
      BY <1>1, <1>2, <3>1 DEF RowsCommitted
    <3>3. OneRun'
      BY <1>1, <1>2, <2>2, <3>1 DEF OneRun, Busy, Scan, RowsCommitted
    <3>4. QED
      BY <3>2, <3>3
  <2>3. CASE Upsert(w)
    <3>1. /\ agg' = {[shows |-> worker[w].scan, fresh |-> TRUE]}
          /\ worker'[w].at = "idle" /\ worker'[w].scan = {}
          /\ \A v \in Workers \ {w} : worker'[v] = worker[v]
          /\ UNCHANGED runLock /\ worker[w].at = "write"
      BY <1>1, <2>3 DEF Upsert, IdleWorker, redis
    <3>2. RowsCommitted'
      BY <1>1, <1>2, <3>1 DEF RowsCommitted
    <3>3. OneRun'
      BY <1>1, <1>2, <3>1 DEF OneRun, Busy
    <3>4. QED
      BY <3>2, <3>3
  <2>4. CASE RunFails(w)
    BY <2>4, WorkerRests DEF RunFails, redis
  <2>5. CASE WorkerDies(w)
    BY <2>5, WorkerRests DEF WorkerDies
  <2>6. QED
    BY <2>1, <2>2, <2>3, <2>4, <2>5 DEF WorkerStep
<1>5. ASSUME NEW r \in Readers PROVE ReadInOrder(r)'
  BY <1>2 DEF IInv, ReadInOrder
<1>6. SummaryOnlyLags'
  BY <1>2 DEF IInv, SummaryOnlyLags
<1>7. QED
  BY <1>3, <1>4, <1>5, <1>6 DEF IInv

-----------------------------------------------------------------------------
\* Readers

ReaderStep(r) ==
  Ask(r) \/ Fetch(r) \/ ReadCount(r) \/ ReadStatuses(r) \/ ReadSums(r) \/ Store(r) \/ ReadFails(r)

ReaderRecord ==
  [at : {"idle", "fetch", "count", "statuses", "sums", "store"},
   row : SUBSET SUBSET Changes, sum : Summary]

\* What a step makes of its reader; no reader touches another, the picks, the row or a run.
LEMMA ReaderBecomes ==
  ASSUME IInv, NEW r \in Readers, ReaderStep(r)
  PROVE  LET was == reader[r]
             is == reader'[r]
         IN /\ reader' \in [Readers -> ReaderRecord]
            /\ \A q \in Readers \ {r} : reader'[q] = reader[q]
            /\ \/ /\ is.at \in {"idle", "fetch", "count"}
                  /\ is.row \subseteq was.row \cup {row.shows : row \in agg}
               \/ was.at = "count" /\ is = [was EXCEPT !.at = "statuses", !.sum.count = Figure(r)]
               \/ was.at = "statuses" /\ is = [was EXCEPT !.at = "sums", !.sum.statuses = picks]
               \/ was.at = "sums" /\ is = [was EXCEPT !.at = "store", !.sum.sums = Figure(r)]
<1>1. TypeOK /\ reader \in [Readers -> ReaderRecord] /\ reader[r] \in ReaderRecord
  BY DEF IInv, TypeOK, ReaderRecord
<1>2. IdleReader \in ReaderRecord
  BY DEF IdleReader, ReaderRecord, Blank, Summary
<1>3. Figure(r) \in SUBSET Changes
  BY <1>1 DEF Figure, TypeOK, ReaderRecord
<1>4. CASE Ask(r)
  <2>1. PICK at \in {"fetch", "count"} : reader' = [reader EXCEPT ![r].at = at]
    BY <1>4 DEF Ask
  <2>2. QED
    BY <1>1, <2>1 DEF ReaderRecord
<1>5. CASE Fetch(r)
  <2> DEFINE rows == {row.shows : row \in Valid}
  <2>1. rows \subseteq {row.shows : row \in agg} /\ rows \in SUBSET SUBSET Changes
    BY <1>1 DEF Valid, TypeOK, Row
  <2>2. reader' = [reader EXCEPT ![r].at = "count", ![r].row = rows]
    BY <1>5 DEF Fetch
  <2>3. reader' \in [Readers -> ReaderRecord]
    BY <1>1, <2>1, <2>2 DEF ReaderRecord
  <2>4. /\ reader'[r].at = "count" /\ reader'[r].row = rows
        /\ \A q \in Readers \ {r} : reader'[q] = reader[q]
    BY <1>1, <2>2 DEF ReaderRecord
  <2>5. QED
    BY <2>1, <2>3, <2>4
<1>6. CASE ReadCount(r)
  BY <1>1, <1>3, <1>6 DEF ReadCount, ReaderRecord, Summary
<1>7. CASE ReadStatuses(r)
  BY <1>1, <1>7 DEF ReadStatuses, ReaderRecord, Summary, TypeOK
<1>8. CASE ReadSums(r)
  BY <1>1, <1>3, <1>8 DEF ReadSums, ReaderRecord, Summary
<1>9. CASE Store(r)
  BY <1>1, <1>2, <1>9 DEF Store, IdleReader
<1>10. CASE ReadFails(r)
  BY <1>1, <1>2, <1>10 DEF ReadFails, IdleReader
<1>11. QED
  BY <1>4, <1>5, <1>6, <1>7, <1>8, <1>9, <1>10 DEF ReaderStep

LEMMA ReaderInOrder ==
  ASSUME IInv, NEW r \in Readers, ReaderStep(r), UNCHANGED picks
  PROVE  ReadInOrder(r)'
<1> DEFINE was == reader[r]
           is == reader'[r]
<1>1. /\ ReadInOrder(r) /\ \A row \in agg : row.shows \subseteq picks
      /\ was \in ReaderRecord /\ is \in ReaderRecord
  BY ReaderBecomes DEF IInv, RowsCommitted, TypeOK, ReaderRecord
<1>2. CASE is.at \in {"idle", "fetch", "count"} /\ is.row \subseteq was.row \cup {row.shows : row \in agg}
  <2>1. UNION is.row \subseteq picks
    BY <1>1, <1>2 DEF ReadInOrder
  <2>2. QED
    BY <1>2, <2>1 DEF ReadInOrder
<1>3. CASE was.at = "count" /\ is = [was EXCEPT !.at = "statuses", !.sum.count = Figure(r)]
  <2>1. /\ is.at = "statuses" /\ is.row = was.row
        /\ is.sum.count = Figure(r)
    BY <1>1, <1>3 DEF ReaderRecord, Summary
  <2>2. QED
    BY <1>1, <2>1 DEF ReadInOrder, Figure
<1>4. CASE was.at = "statuses" /\ is = [was EXCEPT !.at = "sums", !.sum.statuses = picks]
  <2>1. /\ is.at = "sums" /\ is.row = was.row
        /\ is.sum.count = was.sum.count /\ is.sum.statuses = picks
    BY <1>1, <1>4 DEF ReaderRecord, Summary
  <2>2. QED
    BY <1>1, <1>4, <2>1 DEF ReadInOrder
<1>5. CASE was.at = "sums" /\ is = [was EXCEPT !.at = "store", !.sum.sums = Figure(r)]
  <2>1. /\ is.at = "store" /\ is.row = was.row
        /\ is.sum.count = was.sum.count /\ is.sum.statuses = was.sum.statuses
        /\ is.sum.sums = Figure(r)
    BY <1>1, <1>5 DEF ReaderRecord, Summary
  <2>2. QED
    BY <1>1, <1>5, <2>1 DEF ReadInOrder, Figure
<1>6. QED
  BY <1>2, <1>3, <1>4, <1>5, ReaderBecomes

LEMMA ReaderIInv ==
  ASSUME IInv, NEW r \in Readers, ReaderStep(r)
  PROVE  IInv'
<1>1. UNCHANGED <<picks, agg, runLock, enqueueLock, queue, change, worker, overrun>>
  BY DEF ReaderStep, Ask, Fetch, ReadCount, ReadStatuses, ReadSums, Store, ReadFails, redis
<1>2. reader' \in [Readers -> ReaderRecord] /\ \A q \in Readers \ {r} : reader'[q] = reader[q]
  BY ReaderBecomes
<1>3. circuit' \in BOOLEAN
  BY DEF IInv, TypeOK, ReaderStep, Ask, Fetch, ReadCount, ReadStatuses, ReadSums, Store, ReadFails, redis
<1>4. cache' = cache \/ (reader[r].at = "store" /\ cache' = {reader[r].sum})
  BY DEF ReaderStep, Ask, Fetch, ReadCount, ReadStatuses, ReadSums, Store, ReadFails, redis
<1>5. cache' \in SUBSET Summary
  BY <1>4 DEF IInv, TypeOK
<1>6. TypeOK'
  BY <1>1, <1>2, <1>3, <1>5 DEF IInv, TypeOK, ReaderRecord
<1>7. RowsCommitted' /\ RunsHaveMessages' /\ OneRun'
  BY <1>1 DEF IInv, RowsCommitted, RunsHaveMessages, OneRun, Busy
<1>8. ASSUME NEW q \in Readers PROVE ReadInOrder(q)'
  <2>1. CASE q = r
    BY <1>1, <2>1, ReaderInOrder
  <2>2. CASE q # r
    BY <1>1, <1>2, <2>2 DEF IInv, ReadInOrder
  <2>3. QED
    BY <2>1, <2>2
<1>9. SummaryOnlyLags'
  <2>1. CASE cache' = cache
    BY <1>1, <2>1 DEF IInv, SummaryOnlyLags
  <2>2. CASE reader[r].at = "store" /\ cache' = {reader[r].sum}
    BY <1>1, <2>2 DEF IInv, SummaryOnlyLags, ReadInOrder
  <2>3. QED
    BY <1>4, <2>1, <2>2
<1>10. QED
  BY <1>6, <1>7, <1>8, <1>9 DEF IInv

-----------------------------------------------------------------------------
\* Time

Tick == RunLockExpires \/ EnqueueLockExpires \/ CircuitCloses \/ SummaryExpires \/ RowAges

LEMMA TickIInv ==
  ASSUME IInv, Tick
  PROVE  IInv'
<1>1. UNCHANGED <<picks, queue, change, worker, reader>>
  BY DEF Tick, RunLockExpires, EnqueueLockExpires, CircuitCloses, SummaryExpires, RowAges, redis
<1>2. /\ runLock' \in BOOLEAN /\ enqueueLock' \in BOOLEAN /\ circuit' \in BOOLEAN
      /\ overrun' \in BOOLEAN /\ cache' \subseteq cache
  BY DEF IInv, TypeOK, Tick, RunLockExpires, EnqueueLockExpires, CircuitCloses, SummaryExpires,
         RowAges, redis
<1>3. agg' = agg \/ agg' = {[row EXCEPT !.fresh = FALSE] : row \in agg}
  BY DEF Tick, RunLockExpires, EnqueueLockExpires, CircuitCloses, SummaryExpires, RowAges, redis
<1>4. /\ agg' \in SUBSET Row
      /\ \A new \in agg' : \E old \in agg : new.shows = old.shows
      /\ \A a, b \in agg' : a = b
  <2>1. agg \in SUBSET Row /\ \A a, b \in agg : a = b
    BY DEF IInv, TypeOK, RowsCommitted
  <2>2. QED
    BY <1>3, <2>1 DEF Row
<1>5. TypeOK'
  BY <1>1, <1>2, <1>4 DEF IInv, TypeOK
<1>6. RowsCommitted' /\ RunsHaveMessages'
  BY <1>1, <1>4 DEF IInv, RowsCommitted, RunsHaveMessages, Busy
<1>7. ASSUME NEW r \in Readers PROVE ReadInOrder(r)'
  BY <1>1 DEF IInv, ReadInOrder
<1>8. OneRun'
  <2>1. overrun => overrun'
    BY DEF Tick, RunLockExpires, EnqueueLockExpires, CircuitCloses, SummaryExpires, RowAges, redis
  <2>2. runLock' = runLock \/ overrun' \/ \A w \in Workers : ~Busy(w)
    BY DEF Tick, RunLockExpires, EnqueueLockExpires, CircuitCloses, SummaryExpires, RowAges, redis,
           Busy
  <2>3. QED
    BY <1>1, <1>4, <2>1, <2>2 DEF IInv, OneRun, Busy
<1>9. SummaryOnlyLags'
  BY <1>1, <1>2 DEF IInv, SummaryOnlyLags
<1>10. QED
  BY <1>5, <1>6, <1>7, <1>8, <1>9 DEF IInv

-----------------------------------------------------------------------------
LEMMA NextIInv == IInv /\ [Next]_vars => IInv'
<1> SUFFICES ASSUME IInv, [Next]_vars PROVE IInv'
  OBVIOUS
<1>1. CASE UNCHANGED vars
  BY <1>1 DEF IInv, TypeOK, RowsCommitted, RunsHaveMessages, ReadInOrder, OneRun, Busy,
              SummaryOnlyLags, vars, redis
<1>2. CASE Next
  <2>1. \/ \E c \in Changes : ChangeStep(c)
        \/ \E w \in Workers : WorkerStep(w)
        \/ \E r \in Readers : ReaderStep(r)
        \/ Tick
    BY <1>2 DEF Next, ChangeStep, WorkerStep, ReaderStep, Tick
  <2>2. QED
    BY <2>1, ChangeIInv, WorkerIInv, ReaderIInv, TickIInv
<1>3. QED
  BY <1>1, <1>2

\* Figures only show what was committed when they were read, and a run that has its lock has
\* scanned all that the row shows: what recompute_aggregates_for_day and get_summary rest on.
THEOREM FiguresKnown == Spec => []IInv
<1>1. QED
  BY InitIInv, NextIInv, PTL DEF Spec

\* The state of the picks, of Redis, of the worker and of requests is well typed.
THEOREM TypeCorrect == Spec => []TypeOK
<1>1. IInv => TypeOK
  BY DEF IInv
<1>2. QED
  BY <1>1, FiguresKnown, PTL

\* A stored summary shows committed changes only, and lags in one way: whatever get_summary
\* interleaves with, its sums agree with its count of picks or are as new as its statuses.
THEOREM SummaryOnlyLagsAlways == Spec => []SummaryOnlyLags
<1>1. IInv => SummaryOnlyLags
  BY DEF IInv
<1>2. QED
  BY <1>1, FiguresKnown, PTL

\* A step of the worker that ends no later than its lock puts no older row in place.
LEMMA StepNotOlder ==
  IInv /\ [Next]_vars => [~overrun => \A old \in agg, new \in agg' : old.shows \subseteq new.shows]_vars
<1> SUFFICES ASSUME IInv, Next, ~overrun, NEW old \in agg, NEW new \in agg'
             PROVE  old.shows \subseteq new.shows
  OBVIOUS
<1>1. agg \in SUBSET Row /\ \A a, b \in agg : a = b
  BY DEF IInv, TypeOK, RowsCommitted
<1>2. CASE agg' = agg
  BY <1>1, <1>2
<1>3. CASE RowAges
  BY <1>1, <1>3 DEF RowAges, Row
<1>4. ASSUME NEW w \in Workers, Upsert(w) PROVE old.shows \subseteq new.shows
  BY <1>4 DEF Upsert, IInv, OneRun
<1>5. agg' = agg \/ RowAges \/ \E w \in Workers : Upsert(w)
  BY DEF Next, Begin, Enqueue, Send, SendFails, Invalidate, Commit, Abort, Take, Scan, RunFails,
         WorkerDies, Ask, Fetch, ReadCount, ReadStatuses, ReadSums, Store, ReadFails,
         RunLockExpires, EnqueueLockExpires, CircuitCloses, SummaryExpires, redis
<1>6. QED
  BY <1>2, <1>3, <1>4, <1>5

\* While no lock of a run expires before the run ends, the UPSERT of
\* recompute_aggregates_for_day never takes the row of a day back to fewer changes.
THEOREM AggregateNeverOlderAlways == Spec => AggregateNeverOlder
<1>1. QED
  BY StepNotOlder, FiguresKnown, PTL DEF Spec, AggregateNeverOlder
=============================================================================

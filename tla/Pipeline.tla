------------------------------ MODULE Pipeline ------------------------------
(***************************************************************************)
(* The daily import of odds: routers/pipeline.py triggers jobs,            *)
(* worker/tasks.py runs them under Celery and worker/pipeline/runner.py    *)
(* turns the listing of the Odds API into matches and picks.  The module   *)
(* follows the jobs of one run_date.                                       *)
(*                                                                         *)
(* A run is one transaction at READ COMMITTED.  A fixture is a pair of     *)
(* teams; a row of matches is known by its fixture and the run that        *)
(* inserted it.  What odds a pick takes, how it is graded and how parlays  *)
(* are put together is left out: a row whose fixture is playable gets one  *)
(* pick.  Parlays are inserted with the picks, in the same transaction.    *)
(* The keys of a day and of a job live 24 hours and do not expire here.    *)
(*                                                                         *)
(* Celery acknowledges late: a message whose worker dies is delivered      *)
(* again, one whose child process dies is acknowledged and lost.  That a   *)
(* retry is sent and its first message acknowledged is one step.           *)
(***************************************************************************)
EXTENDS Naturals, FiniteSets

CONSTANTS
  Jobs,         \* job ids that uuid4 hands out
  Fixtures,     \* pairs of teams that the API may list
  Playable,     \* those that pass the filters: scheduled, to come, tier, odds, grade
  Slots,        \* processes of the worker
  MaxRetries,   \* max_retries of the task
  ForceValues,  \* what clients send as "force"
  MaxFaults     \* bound of TLC: crashes and failures in a behaviour

ASSUME PipelineAssumption ==
  /\ Playable \subseteq Fixtures
  /\ Slots \in Nat \ {0}
  /\ MaxRetries \in Nat
  /\ MaxFaults \in Nat
  /\ ForceValues \subseteq BOOLEAN

VARIABLES
  ran,          \* pipeline:ran:<day>
  shown,        \* job:<id>: what a client that polls is shown
  cache,        \* odds:idempotency:<key>: the listing received, if it is there
  matches,      \* committed rows of matches
  imports,      \* committed runs, each with its picks
  pc,           \* job -> where its message or its run stands
  tries,        \* job -> retries its message has had
  runs,         \* job -> runs committed
  work,         \* job -> what its run has read and inserted
  repeats,      \* job -> commits that a failure or a crash made it forget
  faults        \* crashes and failures so far

jobs == <<pc, tries, runs, work>>
vars == <<ran, shown, cache, matches, imports, jobs, repeats, faults>>

Row == [fixture : Fixtures, run : Jobs \X Nat]
NoWork == [events |-> {}, todo |-> {}, new |-> {}, picks |-> {}, base |-> {}]
Begun == {"start", "fetch", "call", "upsert", "load", "commit"}
Ended == {"show", "mark", "ack"}
Running == Begun \cup Ended \cup {"fail", "retry"}

Init ==
  /\ ran = FALSE
  /\ shown = [j \in Jobs |-> [status |-> "none", picks |-> 0]]
  /\ cache = {}
  /\ matches = {}
  /\ imports = {}
  /\ pc = [j \in Jobs |-> "new"]
  /\ tries = [j \in Jobs |-> 0]
  /\ runs = [j \in Jobs |-> 0]
  /\ work = [j \in Jobs |-> NoWork]
  /\ repeats = [j \in Jobs |-> 0]
  /\ faults = 0

Goto(j, at) == pc' = [pc EXCEPT ![j] = at]
Show(j, status, n) == shown' = [shown EXCEPT ![j] = [status |-> status, picks |-> n]]

-----------------------------------------------------------------------------
\* trigger_pipeline

\* Without force, a day that is marked is refused.
Check(j) ==
  /\ pc[j] = "new"
  /\ \E force \in ForceValues : force \/ ~ran
  /\ Goto(j, "checked")
  /\ UNCHANGED <<ran, shown, cache, matches, imports, tries, runs, work, repeats, faults>>

Enqueue(j) ==
  /\ pc[j] = "checked"
  /\ Show(j, "queued", 0)
  /\ Goto(j, "ready")
  /\ UNCHANGED <<ran, cache, matches, imports, tries, runs, work, repeats, faults>>

-----------------------------------------------------------------------------
\* run_pipeline_task and PipelineRunner.run

Take(j) ==
  /\ pc[j] = "ready"
  /\ Cardinality({k \in Jobs : pc[k] \in Running}) < Slots
  /\ work' = [work EXCEPT ![j] = [NoWork EXCEPT !.base = matches]]
  /\ Goto(j, "start")
  /\ UNCHANGED <<ran, shown, cache, matches, imports, tries, runs, repeats, faults>>

Start(j) ==
  /\ pc[j] = "start"
  /\ Show(j, "running", 0)
  /\ Goto(j, "fetch")
  /\ UNCHANGED <<ran, cache, matches, imports, tries, runs, work, repeats, faults>>

\* With no events there is nothing to do but COMMIT.
Receive(j, L) ==
  /\ work' = [work EXCEPT ![j].events = L, ![j].todo = L]
  /\ Goto(j, IF L = {} THEN "commit" ELSE "upsert")

\* get_odds: the cached listing, if there is one and Redis gives it.
Fetch(j) ==
  /\ pc[j] = "fetch"
  /\ \/ \E L \in cache : Receive(j, L)
     \/ Goto(j, "call") /\ UNCHANGED work
  /\ UNCHANGED <<ran, shown, cache, matches, imports, tries, runs, repeats, faults>>

\* _request_json: the API answers, and the listing is cached if Redis takes it, over what
\* another run may have cached meanwhile.
Call(j) ==
  /\ pc[j] = "call"
  /\ \E L \in SUBSET Fixtures : Receive(j, L) /\ cache' \in {{L}, cache}
  /\ UNCHANGED <<ran, shown, matches, imports, tries, runs, repeats, faults>>

\* It refuses the request, or is busy or out of reach at every attempt: between them nothing
\* changes.  _fetch_world_cup_events takes an API that fails, whatever the error, for one
\* that lists nothing.
GiveUp(j) ==
  /\ pc[j] = "call"
  /\ Receive(j, {})
  /\ UNCHANGED <<ran, shown, cache, matches, imports, tries, runs, repeats, faults>>

\* The rows that a run sees: those committed and its own.
Visible(j) == matches \cup work[j].new
RowsOf(j, f) == {m \in Visible(j) : m.fixture = f}

\* Mutant: a match is inserted without being looked for.
UpsertBlind(j) ==
  /\ pc[j] = "upsert"
  /\ \E f \in work[j].todo :
       /\ work' = [work EXCEPT ![j].todo = @ \ {f},
                               ![j].new = @ \cup {[fixture |-> f, run |-> <<j, runs[j]>>]}]
       /\ Goto(j, IF work[j].todo = {f} THEN "load" ELSE "upsert")
  /\ UNCHANGED <<ran, shown, cache, matches, imports, tries, runs, repeats, faults>>

\* _upsert_world_cup_matches: SELECT, then INSERT when there is no row.  scalar_one_or_none
\* raises when there are two.
Upsert(j) ==
  /\ pc[j] = "upsert"
  /\ \E f \in work[j].todo :
       LET row == [fixture |-> f, run |-> <<j, runs[j]>>]
       IN \/ /\ Cardinality(RowsOf(j, f)) <= 1
             /\ work' = [work EXCEPT ![j].todo = @ \ {f},
                                     ![j].new = @ \cup (IF RowsOf(j, f) = {} THEN {row} ELSE {})]
             /\ Goto(j, IF work[j].todo = {f} THEN "load" ELSE "upsert")
          \/ /\ Cardinality(RowsOf(j, f)) > 1
             /\ work' = [work EXCEPT ![j] = NoWork]
             /\ Goto(j, "fail")
  /\ UNCHANGED <<ran, shown, cache, matches, imports, tries, runs, repeats, faults>>

\* _load_scheduled_matches, _process_odds and _bulk_insert_picks: a pick for every row, of
\* this run or not, whose fixture is playable and listed.
Load(j) ==
  /\ pc[j] = "load"
  /\ work' = [work EXCEPT ![j].picks =
                {m \in Visible(j) : m.fixture \in Playable \cap work[j].events}]
  /\ Goto(j, "commit")
  /\ UNCHANGED <<ran, shown, cache, matches, imports, tries, runs, repeats, faults>>

Committed(j) ==
  /\ matches' = matches \cup work[j].new
  /\ imports' = imports \cup {[run |-> <<j, runs[j]>>, picks |-> work[j].picks,
                               base |-> work[j].base]}
  /\ runs' = [runs EXCEPT ![j] = @ + 1]

Commit(j) ==
  /\ pc[j] = "commit"
  /\ Committed(j)
  /\ Goto(j, "show")
  /\ UNCHANGED <<ran, shown, cache, tries, work, repeats, faults>>

\* Mutants: the job is shown as completed before the COMMIT; the day is not marked; a message
\* is not acknowledged when its run succeeds.
ShowCompletedEarly(j) ==
  /\ pc[j] \in {"commit", "show"}
  /\ Show(j, "completed", Cardinality(work[j].picks))
  /\ Goto(j, IF pc[j] = "show" THEN "mark" ELSE "commit")
  /\ UNCHANGED <<ran, cache, matches, imports, tries, runs, work, repeats, faults>>
MarkNothing(j) ==
  /\ pc[j] = "mark"
  /\ Goto(j, "ack")
  /\ UNCHANGED <<ran, shown, cache, matches, imports, tries, runs, work, repeats, faults>>
AckAgain(j) ==
  /\ pc[j] = "ack"
  /\ Goto(j, "ready")
  /\ UNCHANGED <<ran, shown, cache, matches, imports, tries, runs, work, repeats, faults>>

ShowCompleted(j) ==
  /\ pc[j] = "show"
  /\ Show(j, "completed", Cardinality(work[j].picks))
  /\ Goto(j, "mark")
  /\ UNCHANGED <<ran, cache, matches, imports, tries, runs, work, repeats, faults>>

MarkDay(j) ==
  /\ pc[j] = "mark"
  /\ ran' = TRUE
  /\ Goto(j, "ack")
  /\ UNCHANGED <<shown, cache, matches, imports, tries, runs, work, repeats, faults>>

Ack(j) ==
  /\ pc[j] = "ack"
  /\ Goto(j, "acked")
  /\ UNCHANGED <<ran, shown, cache, matches, imports, tries, runs, work, repeats, faults>>

-----------------------------------------------------------------------------
\* except Exception: the job is shown as failed, then Celery retries it or gives up

ShowFailed(j) ==
  /\ pc[j] = "fail"
  /\ Show(j, "failed", 0)
  /\ Goto(j, "retry")
  /\ UNCHANGED <<ran, cache, matches, imports, tries, runs, work, repeats, faults>>

\* Mutants: one retry too many; retries that are not counted.
RetryOnceMore(j) ==
  /\ pc[j] = "retry"
  /\ IF tries[j] <= MaxRetries
     THEN tries' = [tries EXCEPT ![j] = @ + 1] /\ Goto(j, "ready")
     ELSE UNCHANGED tries /\ Goto(j, "acked")
  /\ UNCHANGED <<ran, shown, cache, matches, imports, runs, work, repeats, faults>>
RetryUncounted(j) ==
  /\ pc[j] = "retry"
  /\ Goto(j, "ready")
  /\ UNCHANGED <<ran, shown, cache, matches, imports, tries, runs, work, repeats, faults>>

Retry(j) ==
  /\ pc[j] = "retry"
  /\ IF tries[j] < MaxRetries
     THEN tries' = [tries EXCEPT ![j] = @ + 1] /\ Goto(j, "ready")
     ELSE UNCHANGED tries /\ Goto(j, "acked")
  /\ UNCHANGED <<ran, shown, cache, matches, imports, runs, work, repeats, faults>>

-----------------------------------------------------------------------------
\* Failures and crashes

Fault == faults < MaxFaults /\ faults' = faults + 1

\* The task no longer knows that it has committed.
Forget(j, committed) ==
  repeats' = IF committed THEN [repeats EXCEPT ![j] = @ + 1] ELSE repeats

\* A statement of the transaction fails, and it is rolled back.
RunFails(j) ==
  /\ pc[j] \in Begun
  /\ Fault
  /\ work' = [work EXCEPT ![j] = NoWork]
  /\ Goto(j, "fail")
  /\ UNCHANGED <<ran, shown, cache, matches, imports, tries, runs, repeats>>

\* The answer to a COMMIT that was carried out is lost.
CommitAnswerLost(j) ==
  /\ pc[j] = "commit"
  /\ Fault
  /\ Committed(j)
  /\ Forget(j, TRUE)
  /\ work' = [work EXCEPT ![j] = NoWork]
  /\ Goto(j, "fail")
  /\ UNCHANGED <<ran, shown, cache, tries>>

\* Redis fails after the COMMIT, perhaps with the day marked.
RedisFails(j) ==
  /\ pc[j] \in {"show", "mark"}
  /\ Fault
  /\ Forget(j, TRUE)
  /\ ran' \in {ran, ran \/ pc[j] = "mark"}
  /\ Goto(j, "fail")
  /\ UNCHANGED <<shown, cache, matches, imports, tries, runs, work>>

\* The worker dies: its transaction is rolled back and its message delivered again.
WorkerDies(j) ==
  /\ pc[j] \in Running
  /\ Fault
  /\ Forget(j, pc[j] \in Ended)
  /\ work' = [work EXCEPT ![j] = NoWork]
  /\ Goto(j, "ready")
  /\ UNCHANGED <<ran, shown, cache, matches, imports, tries, runs>>

\* Its child process dies, or Redis fails while a failure is being handled.
Lose(j) ==
  /\ pc[j] \in Running
  /\ Fault
  /\ Goto(j, "lost")
  /\ work' = [work EXCEPT ![j] = NoWork]
  /\ UNCHANGED <<ran, shown, cache, matches, imports, tries, runs, repeats>>

\* The listing is cached for 5 minutes.
CacheExpires ==
  /\ cache # {}
  /\ cache' = {}
  /\ UNCHANGED <<ran, shown, matches, imports, jobs, repeats, faults>>

Step(j) ==
  \/ Take(j) \/ Start(j) \/ Fetch(j) \/ Call(j) \/ GiveUp(j)
  \/ Upsert(j) \/ Load(j) \/ Commit(j)
  \/ ShowCompleted(j) \/ MarkDay(j) \/ Ack(j) \/ ShowFailed(j) \/ Retry(j)

\* No job left, or the day is marked and nobody forces it.
Idle == (\A j \in Jobs : pc[j] \in {"new", "acked", "lost"}) /\ UNCHANGED vars

Next ==
  \/ Idle
  \/ CacheExpires
  \/ \E j \in Jobs : \/ Check(j) \/ Enqueue(j) \/ Step(j)
                     \/ RunFails(j) \/ CommitAnswerLost(j) \/ RedisFails(j)
                     \/ WorkerDies(j) \/ Lose(j)

Spec == Init /\ [][Next]_vars

\* The worker takes messages in turn and runs what it has taken.
FairSpec == Spec /\ \A j \in Jobs : SF_vars(Step(j))

-----------------------------------------------------------------------------
\* Properties

TypeOK ==
  /\ ran \in BOOLEAN
  /\ shown \in [Jobs -> [status : {"none", "queued", "running", "completed", "failed"},
                         picks : Nat]]
  /\ cache \in SUBSET SUBSET Fixtures
  /\ matches \in SUBSET Row
  /\ imports \in SUBSET [run : Jobs \X Nat, picks : SUBSET Row, base : SUBSET Row]
  /\ pc \in [Jobs -> {"new", "checked", "ready", "acked", "lost"} \cup Running]
  /\ tries \in [Jobs -> 0..MaxRetries]
  /\ runs \in [Jobs -> Nat]
  /\ work \in [Jobs -> [events : SUBSET Fixtures,
                        todo : SUBSET Fixtures, new : SUBSET Row, picks : SUBSET Row, base : SUBSET Row]]
  /\ repeats \in [Jobs -> Nat]
  /\ faults \in 0..MaxFaults

ImportsOf(j) == {i \in imports : i.run[1] = j}

\* A client that polls and is shown "completed" with n picks finds a committed run of its
\* job with n picks, whatever crashed before or after; a day is not marked before that.
CompletedImported ==
  /\ \A j \in Jobs : shown[j].status = "completed" =>
       \E i \in ImportsOf(j) : Cardinality(i.picks) = shown[j].picks
  /\ ran => imports # {}

\* A job whose message is acknowledged has told how it ended: completed, with the day marked
\* against another trigger, or failed at its last retry.
AckedTells ==
  \A j \in Jobs : pc[j] = "acked" =>
    \/ shown[j].status = "completed" /\ ran
    \/ shown[j].status = "failed" /\ tries[j] = MaxRetries

\* Retries and redeliveries import a day again only when a crash or a failure came between
\* the COMMIT of a run and the end of its task.
ImportsAccounted == \A j \in Jobs : Cardinality(ImportsOf(j)) <= 1 + repeats[j]

\* The upsert is idempotent from one run to the next: two rows of a fixture are inserted
\* only by runs that overlap.
OnlyOverlapDuplicates ==
  \A i \in imports, m \in matches :
    m.run = i.run => \A o \in i.base : o.fixture # m.fixture

\* Every message that is delivered is acknowledged or lost in the end: retries run out, also
\* when the fixtures a run finds twice make it fail each time.
EveryJobEnds == \A j \in Jobs : pc[j] = "ready" ~> pc[j] \in {"acked", "lost"}

\* An idempotency guard prevents duplicate runs for the same date.
DayImportedOnce ==
  \A i, k \in imports : i.picks # {} /\ k.picks # {} => i = k
=============================================================================

---------------------------- MODULE PipelineProofs ----------------------------
(***************************************************************************)
(* Theorems about Pipeline, for every set of jobs and fixtures, every      *)
(* number of processes and retries and every number of faults.             *)
(***************************************************************************)
EXTENDS Pipeline, FiniteSetTheorems, TLAPS

-----------------------------------------------------------------------------
\* The inductive invariant

\* Where a job stands that has no run, or has one that has not committed.
Early == {"new", "checked", "ready", "fail", "retry"} \cup Begun

\* The runs of a job that are committed are counted, and all but the last one are among
\* those that its task has forgotten.
Counted(j) ==
  /\ IsFiniteSet(ImportsOf(j))
  /\ Cardinality(ImportsOf(j)) = runs[j]
  /\ runs[j] = repeats[j] \/ runs[j] = repeats[j] + 1
  /\ pc[j] \in Early => runs[j] = repeats[j]
  /\ pc[j] \in Ended => runs[j] = repeats[j] + 1

\* What a run inserts is its own, and new to what was committed when it began.
Inserts(j) ==
  /\ IsFiniteSet(work[j].new)
  /\ IsFiniteSet(work[j].picks)
  /\ pc[j] \in Begun =>
       /\ work[j].base \subseteq matches
       /\ \A m \in work[j].new : /\ m.run = <<j, runs[j]>>
                                 /\ \A o \in work[j].base : o.fixture # m.fixture

\* What a client is shown, and what the task has still to show it.
Tells(j) ==
  /\ pc[j] = "show" => \E i \in ImportsOf(j) : i.picks = work[j].picks
  /\ shown[j].status = "completed" =>
       \E i \in ImportsOf(j) : Cardinality(i.picks) = shown[j].picks
  /\ pc[j] = "mark" => shown[j].status = "completed"
  /\ pc[j] = "ack" => shown[j].status = "completed" /\ ran
  /\ pc[j] = "retry" => shown[j].status = "failed"
  /\ pc[j] = "acked" => \/ shown[j].status = "completed" /\ ran
                        \/ shown[j].status = "failed" /\ tries[j] = MaxRetries

\* What holds of a job at any time.
JobInv(j) == Counted(j) /\ Inserts(j) /\ Tells(j)

\* The committed rows and runs carry the numbers of runs that are committed.
TablesInv ==
  /\ IsFiniteSet(matches)
  /\ \A m \in matches : m.run[2] < runs[m.run[1]]
  /\ \A i \in imports : i.run[2] < runs[i.run[1]]
  /\ ran => imports # {}

\* The inductive invariant.
IInv == TypeOK /\ TablesInv /\ OnlyOverlapDuplicates /\ \A j \in Jobs : JobInv(j)

\* A step of one job.
JobStep(j) ==
  \/ Check(j) \/ Enqueue(j) \/ Step(j)
  \/ RunFails(j) \/ CommitAnswerLost(j) \/ RedisFails(j) \/ WorkerDies(j) \/ Lose(j)

\* Every step is one of a job, or changes nothing but the cache.
LEMMA Steps ==
  ASSUME [Next]_vars
  PROVE  \/ /\ UNCHANGED <<ran, shown, matches, imports, jobs, repeats, faults>>
            /\ cache' \in {{}, cache}
         \/ \E j \in Jobs : JobStep(j)
BY DEF Next, Idle, CacheExpires, JobStep, vars

\* A new run of j is one import more, of a number not used before.
LEMMA CommittedCounts ==
  ASSUME TypeOK, TablesInv, NEW j \in Jobs, JobInv(j), Committed(j)
  PROVE  /\ runs' = [runs EXCEPT ![j] = runs[j] + 1]
         /\ matches' = matches \cup work[j].new
         /\ IsFiniteSet(ImportsOf(j)')
         /\ Cardinality(ImportsOf(j)') = runs'[j]
         /\ \A k \in Jobs : k # j => ImportsOf(k)' = ImportsOf(k)
         /\ imports \subseteq imports'
         /\ \E i \in ImportsOf(j)' : i.picks = work[j].picks
<1> DEFINE i == [run |-> <<j, runs[j]>>, picks |-> work[j].picks, base |-> work[j].base]
<1>1. /\ runs' = [runs EXCEPT ![j] = runs[j] + 1]
      /\ matches' = matches \cup work[j].new
      /\ imports' = imports \cup {i}
      /\ runs'[j] = runs[j] + 1
      /\ runs[j] \in Nat
  BY DEF Committed, TypeOK
<1>2. i.run[1] = j /\ i.run[2] = runs[j] /\ i.picks = work[j].picks
  OBVIOUS
<1> HIDE DEF i
<1>3. i \notin imports
  <2>1. SUFFICES ASSUME i \in imports PROVE FALSE
    OBVIOUS
  <2>2. runs[j] < runs[j]
    BY <1>2, <2>1 DEF TablesInv
  <2> QED
    BY <1>1, <2>2
<1>4. ImportsOf(j)' = ImportsOf(j) \cup {i} /\ i \notin ImportsOf(j)
  BY <1>1, <1>2, <1>3 DEF ImportsOf
<1>5. /\ IsFiniteSet(ImportsOf(j) \cup {i})
      /\ Cardinality(ImportsOf(j) \cup {i}) = Cardinality(ImportsOf(j)) + 1
  BY <1>4, FS_AddElement DEF JobInv, Counted
<1>6. \A k \in Jobs : k # j => ImportsOf(k)' = ImportsOf(k)
  BY <1>1, <1>2 DEF ImportsOf
<1> QED
  BY <1>1, <1>2, <1>4, <1>5, <1>6 DEF JobInv, Counted

\* A step of j leaves the other jobs alone, and only adds to what they find in the tables.
LEMMA Frame ==
  ASSUME TypeOK, TablesInv, NEW j \in Jobs, JobInv(j), JobStep(j), NEW k \in Jobs, k # j
  PROVE  /\ pc'[k] = pc[k]
         /\ shown'[k] = shown[k]
         /\ tries'[k] = tries[k]
         /\ runs'[k] = runs[k]
         /\ work'[k] = work[k]
         /\ repeats'[k] = repeats[k]
         /\ matches \subseteq matches'
         /\ ImportsOf(k)' = ImportsOf(k)
         /\ ran => ran'
<1> DEFINE Goal == /\ pc'[k] = pc[k]
                   /\ shown'[k] = shown[k]
                   /\ tries'[k] = tries[k]
                   /\ runs'[k] = runs[k]
                   /\ work'[k] = work[k]
                   /\ repeats'[k] = repeats[k]
                   /\ matches \subseteq matches'
                   /\ ImportsOf(k)' = ImportsOf(k)
                   /\ (ran => ran')
<1>1. CASE Check(j) \/ Enqueue(j) \/ Take(j) \/ Start(j)
  BY <1>1 DEF Check, Enqueue, Take, Start, Goto, Show, ImportsOf, TypeOK
<1>2. CASE Fetch(j) \/ Call(j) \/ GiveUp(j)
  <2>1. /\ \E at : pc' = [pc EXCEPT ![j] = at]
        /\ \E w : work' = [work EXCEPT ![j] = w]
        /\ UNCHANGED <<ran, shown, matches, imports, tries, runs, repeats>>
    <3>1. ASSUME NEW L, Receive(j, L)
          PROVE  /\ \E at : pc' = [pc EXCEPT ![j] = at]
                 /\ \E w : work' = [work EXCEPT ![j] = w]
      BY <3>1 DEF Receive, Goto
    <3>2. CASE Goto(j, "call") /\ UNCHANGED work
      <4>1. work' = [work EXCEPT ![j] = work[j]]
        BY <3>2 DEF TypeOK
      <4> QED
        BY <1>2, <3>2, <4>1 DEF Fetch, Call, GiveUp, Goto
    <3> QED
      BY <1>2, <3>1, <3>2 DEF Fetch, Call, GiveUp
  <2> QED
    BY <2>1 DEF ImportsOf, TypeOK
<1>3. CASE Upsert(j)
  <2>1. /\ \E at : pc' = [pc EXCEPT ![j] = at]
        /\ \E w : work' = [work EXCEPT ![j] = w]
        /\ UNCHANGED <<ran, shown, matches, imports, tries, runs, repeats>>
    BY <1>3 DEF Upsert, Goto
  <2> QED
    BY <2>1 DEF ImportsOf, TypeOK
<1>4. CASE Load(j) \/ ShowCompleted(j) \/ MarkDay(j) \/ Ack(j) \/ ShowFailed(j)
  BY <1>4 DEF Load, ShowCompleted, MarkDay, Ack, ShowFailed, Goto, Show, ImportsOf, TypeOK
<1>5. CASE Retry(j) \/ RunFails(j) \/ RedisFails(j) \/ WorkerDies(j) \/ Lose(j)
  BY <1>5 DEF Retry, RunFails, RedisFails, WorkerDies, Lose, Forget, Goto, ImportsOf, TypeOK
<1>6. CASE Commit(j) \/ CommitAnswerLost(j)
  <2>1. /\ Committed(j)
        /\ pc'[k] = pc[k]
        /\ work'[k] = work[k]
        /\ repeats'[k] = repeats[k]
        /\ UNCHANGED <<ran, shown, tries>>
    BY <1>6 DEF Commit, CommitAnswerLost, Forget, Goto, TypeOK
  <2>2. runs'[k] = runs[k]
    BY <2>1 DEF Committed, TypeOK
  <2> QED
    BY <2>1, <2>2, CommittedCounts
<1> QED
  BY <1>1, <1>2, <1>3, <1>4, <1>5, <1>6 DEF JobStep, Step

\* What a run may hold, where a job may stand and what a client may be shown.
Works == [events : SUBSET Fixtures, todo : SUBSET Fixtures, new : SUBSET Row,
          picks : SUBSET Row, base : SUBSET Row]
Places == {"new", "checked", "ready", "acked", "lost"} \cup Running
Statuses == {"none", "queued", "running", "completed", "failed"}

\* TypeOK with these names.
LEMMA Typed ==
  ASSUME TypeOK
  PROVE  /\ ran \in BOOLEAN
         /\ shown \in [Jobs -> [status : Statuses, picks : Nat]]
         /\ cache \in SUBSET SUBSET Fixtures
         /\ matches \in SUBSET Row
         /\ imports \in SUBSET [run : Jobs \X Nat, picks : SUBSET Row, base : SUBSET Row]
         /\ pc \in [Jobs -> Places]
         /\ tries \in [Jobs -> 0..MaxRetries]
         /\ runs \in [Jobs -> Nat]
         /\ work \in [Jobs -> Works]
         /\ repeats \in [Jobs -> Nat]
         /\ faults \in 0..MaxFaults
BY DEF TypeOK, Works, Places, Statuses

\* What the actions do to the fields of a run keeps their types.
LEMMA WorkTypes ==
  ASSUME NEW w \in Works, NEW L \in SUBSET Fixtures, NEW f, NEW R \in SUBSET Row
  PROVE  /\ [w EXCEPT !.events = L, !.todo = L] \in Works
         /\ [w EXCEPT !.todo = @ \ {f}, !.new = @ \cup R] \in Works
         /\ [w EXCEPT !.picks = R] \in Works
         /\ [NoWork EXCEPT !.base = R] \in Works
         /\ NoWork \in Works
<1>1. [w EXCEPT !.events = L, !.todo = L] \in Works
  BY DEF Works
<1>2. [w EXCEPT !.todo = @ \ {f}, !.new = @ \cup R] \in Works
  BY DEF Works
<1>3. [w EXCEPT !.picks = R] \in Works
  BY DEF Works
<1>4. [NoWork EXCEPT !.base = R] \in Works /\ NoWork \in Works
  BY DEF Works, NoWork
<1> QED
  BY <1>1, <1>2, <1>3, <1>4

\* The place, the work and the answer that a step gives a job are typed.
LEMMA Moves ==
  ASSUME TypeOK, NEW j \in Jobs
  PROVE  /\ \A at \in Places : Goto(j, at) => pc' \in [Jobs -> Places]
         /\ \A st \in Statuses, n \in Nat :
              Show(j, st, n) => shown' \in [Jobs -> [status : Statuses, picks : Nat]]
         /\ \A w \in Works : work' = [work EXCEPT ![j] = w] => work' \in [Jobs -> Works]
<1>1. ASSUME NEW at \in Places, Goto(j, at) PROVE pc' \in [Jobs -> Places]
  BY <1>1, Typed DEF Goto
<1>2. ASSUME NEW st \in Statuses, NEW n \in Nat, Show(j, st, n)
      PROVE  shown' \in [Jobs -> [status : Statuses, picks : Nat]]
  <2>1. [status |-> st, picks |-> n] \in [status : Statuses, picks : Nat]
    BY <1>2
  <2> QED
    BY <1>2, <2>1, Typed DEF Show
<1>3. ASSUME NEW w \in Works, work' = [work EXCEPT ![j] = w] PROVE work' \in [Jobs -> Works]
  BY <1>3, Typed
<1> QED
  BY <1>1, <1>2, <1>3

\* Values of these types make a typed state.
LEMMA Retype ==
  ASSUME /\ ran' \in BOOLEAN
         /\ shown' \in [Jobs -> [status : Statuses, picks : Nat]]
         /\ cache' \in SUBSET SUBSET Fixtures
         /\ matches' \in SUBSET Row
         /\ imports' \in SUBSET [run : Jobs \X Nat, picks : SUBSET Row, base : SUBSET Row]
         /\ pc' \in [Jobs -> Places]
         /\ tries' \in [Jobs -> 0..MaxRetries]
         /\ runs' \in [Jobs -> Nat]
         /\ work' \in [Jobs -> Works]
         /\ repeats' \in [Jobs -> Nat]
         /\ faults' \in 0..MaxFaults
  PROVE  TypeOK'
BY DEF TypeOK, Works, Places, Statuses

\* A step of one job keeps the types; the numbers of picks shown are those of finite sets.
LEMMA TypeStep ==
  ASSUME TypeOK, NEW j \in Jobs, JobInv(j), JobStep(j)
  PROVE  TypeOK'
<1> USE Typed
<1>p. /\ {"new", "checked", "ready", "acked", "lost", "start", "fetch", "call", "upsert", "load",
          "commit", "show", "mark", "ack", "fail", "retry"} = Places
      /\ {"none", "queued", "running", "completed", "failed"} = Statuses
  BY DEF Places, Statuses, Running, Begun, Ended
<1>0. work[j] \in Works /\ Cardinality(work[j].picks) \in Nat
  BY FS_CardinalityType DEF JobInv, Inserts
<1>1. \A w \in Works : work' = [work EXCEPT ![j] = w] => work' \in [Jobs -> Works]
  BY Moves
<1>2. \A at \in Places : Goto(j, at) => pc' \in [Jobs -> Places]
  BY Moves
<1>3. \A st \in Statuses, n \in Nat :
        Show(j, st, n) => shown' \in [Jobs -> [status : Statuses, picks : Nat]]
  BY Moves
<1>4. NoWork \in Works
  BY <1>0, WorkTypes
<1>5. faults' = faults \/ Fault => faults' \in 0..MaxFaults
  BY PipelineAssumption DEF Fault
<1>6. \A c \in BOOLEAN : Forget(j, c) => repeats' \in [Jobs -> Nat]
  BY DEF Forget
<1>7. CASE Check(j) \/ MarkDay(j) \/ Ack(j)
  BY <1>p, <1>2, <1>7, Retype DEF Check, MarkDay, Ack
<1>8. CASE Enqueue(j) \/ Start(j) \/ ShowFailed(j)
  <2>1. 0 \in Nat
    OBVIOUS
  <2> QED
    BY <1>p, <1>2, <1>3, <1>8, <2>1, Retype DEF Enqueue, Start, ShowFailed
<1>9. CASE ShowCompleted(j)
  BY <1>p, <1>0, <1>2, <1>3, <1>9, Retype DEF ShowCompleted
<1>10. CASE Retry(j)
  <2>1. tries' \in [Jobs -> 0..MaxRetries]
    BY <1>10, PipelineAssumption DEF Retry
  <2> QED
    BY <1>p, <1>2, <1>10, <2>1, Retype DEF Retry
<1>11. CASE Take(j)
  <2>1. [NoWork EXCEPT !.base = matches] \in Works
    BY <1>0, WorkTypes
  <2> QED
    BY <1>p, <1>1, <1>2, <1>11, <2>1, Retype DEF Take
<1>12. CASE Fetch(j) \/ Call(j) \/ GiveUp(j)
  <2>1. ASSUME NEW L \in SUBSET Fixtures, Receive(j, L)
        PROVE  work' \in [Jobs -> Works] /\ pc' \in [Jobs -> Places]
    <3>1. work' = [work EXCEPT ![j] = [work[j] EXCEPT !.events = L, !.todo = L]]
      BY <2>1 DEF Receive
    <3>2. [work[j] EXCEPT !.events = L, !.todo = L] \in Works
      BY <1>0, WorkTypes
    <3> QED
      BY <1>p, <1>1, <1>2, <2>1, <3>1, <3>2 DEF Receive
  <2>2. CASE Fetch(j)
    <3>1. ASSUME NEW L \in cache, Receive(j, L) PROVE TypeOK'
      <4>1. L \in SUBSET Fixtures
        BY <3>1
      <4> QED
        BY <2>1, <2>2, <3>1, <4>1, Retype DEF Fetch
    <3>2. CASE Goto(j, "call") /\ UNCHANGED work
      BY <1>p, <1>2, <2>2, <3>2, Retype DEF Fetch
    <3> QED
      BY <2>2, <3>1, <3>2 DEF Fetch
  <2>3. CASE Call(j)
    <3>1. PICK L \in SUBSET Fixtures : Receive(j, L) /\ cache' \in {{L}, cache}
      BY <2>3 DEF Call
    <3> QED
      BY <2>1, <2>3, <3>1, Retype DEF Call
  <2>4. CASE GiveUp(j)
    BY <2>1, <2>4, Retype DEF GiveUp
  <2> QED
    BY <1>12, <2>2, <2>3, <2>4
<1>13. CASE Upsert(j)
  <2>1. PICK f \in work[j].todo :
          \/ /\ work' = [work EXCEPT ![j].todo = @ \ {f},
                                     ![j].new = @ \cup (IF RowsOf(j, f) = {}
                                        THEN {[fixture |-> f, run |-> <<j, runs[j]>>]} ELSE {})]
             /\ Goto(j, IF work[j].todo = {f} THEN "load" ELSE "upsert")
          \/ /\ work' = [work EXCEPT ![j] = NoWork]
             /\ Goto(j, "fail")
    BY <1>13 DEF Upsert
  <2>2. [fixture |-> f, run |-> <<j, runs[j]>>] \in Row
    BY <1>0, <2>1 DEF Works, Row
  <2> DEFINE R == IF RowsOf(j, f) = {} THEN {[fixture |-> f, run |-> <<j, runs[j]>>]} ELSE {}
  <2>3. R \in SUBSET Row
    BY <2>2
  <2> HIDE DEF R
  <2>4. [work[j] EXCEPT !.todo = @ \ {f}, !.new = @ \cup R] \in Works
    BY <1>0, <2>3, WorkTypes
  <2>5. \/ work' = [work EXCEPT ![j] = [work[j] EXCEPT !.todo = @ \ {f}, !.new = @ \cup R]]
        \/ work' = [work EXCEPT ![j] = NoWork]
    BY <2>1 DEF R
  <2>6. work' \in [Jobs -> Works]
    BY <1>1, <1>4, <2>4, <2>5
  <2>7. pc' \in [Jobs -> Places]
    BY <1>p, <1>2, <2>1
  <2> QED
    BY <1>13, <2>6, <2>7, Retype DEF Upsert
<1>14. CASE Load(j)
  <2>1. PICK R \in SUBSET Row : work' = [work EXCEPT ![j].picks = R]
    BY <1>0, <1>14 DEF Load, Visible, Works
  <2>2. work' = [work EXCEPT ![j] = [work[j] EXCEPT !.picks = R]]
    BY <2>1
  <2>3. [work[j] EXCEPT !.picks = R] \in Works
    BY <1>0, WorkTypes
  <2> QED
    BY <1>p, <1>1, <1>2, <1>14, <2>2, <2>3, Retype DEF Load
<1>15. CASE Commit(j) \/ CommitAnswerLost(j)
  <2>1. /\ Committed(j)
        /\ UNCHANGED <<ran, shown, cache, tries>>
    BY <1>15 DEF Commit, CommitAnswerLost
  <2>2. matches' \in SUBSET Row
    BY <1>0, <2>1 DEF Committed, Works
  <2>3. imports' \in SUBSET [run : Jobs \X Nat, picks : SUBSET Row, base : SUBSET Row]
    BY <1>0, <2>1 DEF Committed, Works
  <2>4. runs' \in [Jobs -> Nat]
    BY <2>1 DEF Committed
  <2>5. CASE Commit(j)
    BY <1>p, <1>2, <2>1, <2>2, <2>3, <2>4, <2>5, Retype DEF Commit
  <2>6. CASE CommitAnswerLost(j)
    BY <1>p, <1>1, <1>2, <1>4, <1>5, <1>6, <2>1, <2>2, <2>3, <2>4, <2>6, Retype
    DEF CommitAnswerLost
  <2> QED
    BY <1>15, <2>5, <2>6
<1>16. CASE RunFails(j) \/ Lose(j)
  BY <1>p, <1>1, <1>2, <1>4, <1>5, <1>16, Retype DEF RunFails, Lose
<1>17. CASE RedisFails(j)
  <2>1. ran' \in BOOLEAN
    BY <1>17 DEF RedisFails
  <2> QED
    BY <1>p, <1>2, <1>5, <1>6, <1>17, <2>1, Retype DEF RedisFails
<1>18. CASE WorkerDies(j)
  <2>1. (pc[j] \in Ended) \in BOOLEAN
    OBVIOUS
  <2>2. repeats' \in [Jobs -> Nat]
    BY <1>6, <1>18, <2>1 DEF WorkerDies
  <2> QED
    BY <1>p, <1>1, <1>2, <1>4, <1>5, <1>18, <2>2, Retype DEF WorkerDies
<1> QED
  BY <1>7, <1>8, <1>9, <1>10, <1>11, <1>12, <1>13, <1>14, <1>15, <1>16, <1>17, <1>18
  DEF JobStep, Step

\* The invariant of another job is kept.
LEMMA OthersKept ==
  ASSUME TypeOK, TablesInv, NEW j \in Jobs, JobInv(j), JobStep(j), NEW k \in Jobs, k # j,
         JobInv(k)
  PROVE  JobInv(k)'
<1>1. /\ pc'[k] = pc[k]
      /\ shown'[k] = shown[k]
      /\ tries'[k] = tries[k]
      /\ runs'[k] = runs[k]
      /\ work'[k] = work[k]
      /\ repeats'[k] = repeats[k]
      /\ matches \subseteq matches'
      /\ ImportsOf(k)' = ImportsOf(k)
      /\ ran => ran'
  BY Frame
<1>2. Counted(k)'
  BY <1>1 DEF JobInv, Counted
<1>3. Inserts(k)'
  BY <1>1 DEF JobInv, Inserts
<1>4. Tells(k)'
  BY <1>1 DEF JobInv, Tells
<1> QED
  BY <1>2, <1>3, <1>4 DEF JobInv

-----------------------------------------------------------------------------
\* A step keeps the invariant of its own job

\* The steps that neither commit nor forget a commit leave the counts alone.
LEMMA Quiet ==
  ASSUME TypeOK, NEW j \in Jobs, JobStep(j)
  PROVE  \/ Commit(j) \/ CommitAnswerLost(j) \/ RedisFails(j) \/ WorkerDies(j)
         \/ /\ UNCHANGED <<imports, runs, repeats>>
            /\ \/ pc'[j] \in {"acked", "lost"}
               \/ pc[j] \in Early /\ pc'[j] \in Early
               \/ pc[j] \in Ended /\ pc'[j] \in Ended
<1>1. \A at : Goto(j, at) => pc'[j] = at
  BY Typed DEF Goto
<1>2. CASE Check(j) \/ Enqueue(j) \/ Take(j) \/ Start(j) \/ ShowFailed(j)
  BY <1>1, <1>2 DEF Check, Enqueue, Take, Start, ShowFailed, Early, Begun
<1>3. CASE Fetch(j) \/ Call(j) \/ GiveUp(j)
  <2>1. \A L : Receive(j, L) => pc'[j] \in Early
    BY <1>1 DEF Receive, Early, Begun
  <2> QED
    BY <1>1, <1>3, <2>1 DEF Fetch, Call, GiveUp, Early, Begun
<1>4. CASE Upsert(j) \/ Load(j)
  BY <1>1, <1>4 DEF Upsert, Load, Early, Begun
<1>5. CASE ShowCompleted(j) \/ MarkDay(j) \/ Ack(j)
  BY <1>1, <1>5 DEF ShowCompleted, MarkDay, Ack, Ended
<1>6. CASE Retry(j) \/ RunFails(j) \/ Lose(j)
  BY <1>1, <1>6 DEF Retry, RunFails, Lose, Early
<1> QED
  BY <1>2, <1>3, <1>4, <1>5, <1>6 DEF JobStep, Step

\* No place is before and after a COMMIT.
LEMMA Apart == Early \cap (Ended \cup {"acked", "lost"}) = {} /\ "commit" \in Early
               /\ {"fail", "ready"} \subseteq Early /\ {"show", "mark"} \subseteq Ended
               /\ Ended \cap {"acked", "lost"} = {}
BY DEF Early, Ended, Begun

\* Every COMMIT of the job is counted, and every one that is forgotten.
LEMMA CountedKept ==
  ASSUME TypeOK, TablesInv, NEW j \in Jobs, JobInv(j), JobStep(j)
  PROVE  Counted(j)'
<1> USE Typed, Apart
<1>1. Counted(j) /\ runs[j] \in Nat /\ repeats[j] \in Nat
  BY DEF JobInv
<1>2. \A at : Goto(j, at) => pc'[j] = at
  BY DEF Goto
<1>3. \A c \in BOOLEAN : Forget(j, c) => repeats'[j] = IF c THEN repeats[j] + 1 ELSE repeats[j]
  BY DEF Forget
<1>4. CASE /\ UNCHANGED <<imports, runs, repeats>>
           /\ \/ pc'[j] \in {"acked", "lost"}
              \/ pc[j] \in Early /\ pc'[j] \in Early
              \/ pc[j] \in Ended /\ pc'[j] \in Ended
  <2>1. ImportsOf(j)' = ImportsOf(j)
    BY <1>4 DEF ImportsOf
  <2>2. runs'[j] = runs[j] /\ repeats'[j] = repeats[j]
    BY <1>4
  <2> QED
    BY <1>1, <1>4, <2>1, <2>2 DEF Counted
<1>5. CASE Commit(j) \/ CommitAnswerLost(j)
  <2>1. Committed(j) /\ pc[j] = "commit"
    BY <1>5 DEF Commit, CommitAnswerLost
  <2>2. /\ IsFiniteSet(ImportsOf(j)')
        /\ Cardinality(ImportsOf(j)') = runs'[j]
        /\ runs'[j] = runs[j] + 1
    BY <2>1, CommittedCounts
  <2>3. runs[j] = repeats[j]
    BY <1>1, <2>1 DEF Counted
  <2>4. \/ pc'[j] = "show" /\ repeats'[j] = repeats[j]
        \/ pc'[j] = "fail" /\ repeats'[j] = repeats[j] + 1
    BY <1>2, <1>3, <1>5 DEF Commit, CommitAnswerLost
  <2> QED
    BY <1>1, <2>2, <2>3, <2>4 DEF Counted
<1>6. CASE RedisFails(j) \/ WorkerDies(j)
  <2>1. ImportsOf(j)' = ImportsOf(j) /\ runs'[j] = runs[j]
    BY <1>6 DEF RedisFails, WorkerDies, ImportsOf
  <2>2. pc'[j] \in {"fail", "ready"}
    BY <1>2, <1>6 DEF RedisFails, WorkerDies
  <2>3. (pc[j] \in Ended) \in BOOLEAN
    OBVIOUS
  <2>4. repeats'[j] = IF pc[j] \in Ended THEN repeats[j] + 1 ELSE repeats[j]
    BY <1>3, <1>6, <2>3 DEF RedisFails, WorkerDies
  <2>5. pc[j] \notin Ended => pc[j] \in Early
    BY <1>6 DEF RedisFails, WorkerDies, Running, Early
  <2> QED
    BY <1>1, <2>1, <2>2, <2>4, <2>5 DEF Counted
<1> QED
  BY <1>4, <1>5, <1>6, Quiet

\* A finite set stays finite with one row more.
LEMMA Added ==
  ASSUME NEW S, IsFiniteSet(S), NEW x
  PROVE  IsFiniteSet(S \cup {x})
BY FS_AddElement

\* A count that is at most m and not below it is m.
LEMMA Reached ==
  ASSUME NEW n \in Int, NEW m \in Int, n <= m, ~(n < m)
  PROVE  n = m
OBVIOUS

\* What a run has inserted stays its own, and new to what was committed when it began: a
\* fixture that is looked for in what is visible and not found is not in its base either.
LEMMA InsertsKept ==
  ASSUME TypeOK, TablesInv, NEW j \in Jobs, JobInv(j), JobStep(j)
  PROVE  Inserts(j)'
<1> USE Typed
<1>1. /\ IsFiniteSet(work[j].new)
      /\ IsFiniteSet(work[j].picks)
      /\ pc[j] \in Begun => /\ work[j].base \subseteq matches
                            /\ \A m \in work[j].new : m.run = <<j, runs[j]>>
                            /\ \A m \in work[j].new, o \in work[j].base : o.fixture # m.fixture
  BY DEF JobInv, Inserts
<1>2. \A at : Goto(j, at) => pc'[j] = at
  BY DEF Goto
<1>3. IsFiniteSet({})
  BY FS_EmptySet
<1>4. "show" \notin Begun /\ "fail" \notin Begun /\ "ready" \notin Begun /\ "lost" \notin Begun
      /\ "checked" \notin Begun /\ "mark" \notin Begun /\ "ack" \notin Begun
      /\ "acked" \notin Begun /\ "retry" \notin Begun
  BY DEF Begun
<1>5. CASE work' = [work EXCEPT ![j] = NoWork] /\ pc'[j] \notin Begun
  BY <1>3, <1>5 DEF Inserts, NoWork
<1>6. CASE work'[j] = work[j] /\ pc'[j] \notin Begun
  BY <1>1, <1>6 DEF Inserts
<1>7. CASE /\ pc[j] \in Begun
           /\ work'[j].new = work[j].new
           /\ work'[j].base = work[j].base
           /\ IsFiniteSet(work'[j].picks)
           /\ matches' = matches
           /\ runs' = runs
  BY <1>1, <1>7 DEF Inserts
<1>8. CASE Take(j)
  <2>1. /\ work'[j].new = {}
        /\ work'[j].picks = {}
        /\ work'[j].base = matches
        /\ matches' = matches
    BY <1>8 DEF Take, NoWork
  <2> QED
    BY <1>3, <2>1 DEF Inserts
<1>9. CASE Start(j)
  BY <1>1, <1>7, <1>9 DEF Start, Begun
<1>10. CASE Fetch(j) \/ Call(j) \/ GiveUp(j)
  <2>1. \A L : Receive(j, L) => /\ work'[j].new = work[j].new
                                /\ work'[j].base = work[j].base
                                /\ work'[j].picks = work[j].picks
    BY DEF Receive, Works
  <2>2. pc[j] \in Begun /\ matches' = matches /\ runs' = runs
    BY <1>10 DEF Fetch, Call, GiveUp, Begun
  <2>3. (\E L : Receive(j, L)) \/ UNCHANGED work
    BY <1>10 DEF Fetch, Call, GiveUp
  <2> QED
    BY <1>1, <1>7, <2>1, <2>2, <2>3
<1>11. CASE Upsert(j)
  <2>1. /\ pc[j] \in Begun
        /\ matches' = matches
        /\ runs' = runs
    BY <1>11 DEF Upsert, Begun
  <2>2. PICK f \in work[j].todo :
          \/ work' = [work EXCEPT ![j].todo = @ \ {f},
                                  ![j].new = @ \cup (IF RowsOf(j, f) = {}
                                     THEN {[fixture |-> f, run |-> <<j, runs[j]>>]} ELSE {})]
          \/ /\ work' = [work EXCEPT ![j] = NoWork]
             /\ Goto(j, "fail")
    BY <1>11 DEF Upsert
  <2>3. CASE work' = [work EXCEPT ![j] = NoWork] /\ Goto(j, "fail")
    BY <1>2, <1>4, <1>5, <2>3
  <2>4. CASE work' = [work EXCEPT ![j].todo = @ \ {f},
                                  ![j].new = @ \cup (IF RowsOf(j, f) = {}
                                     THEN {[fixture |-> f, run |-> <<j, runs[j]>>]} ELSE {})]
    <3> DEFINE row == [fixture |-> f, run |-> <<j, runs[j]>>]
    <3>1. /\ work'[j].base = work[j].base
          /\ work'[j].picks = work[j].picks
          /\ work'[j].new = work[j].new \cup (IF RowsOf(j, f) = {} THEN {row} ELSE {})
      BY <2>4 DEF Works
    <3>2. row.fixture = f /\ row.run = <<j, runs[j]>>
      OBVIOUS
    <3> HIDE DEF row
    <3>3. CASE RowsOf(j, f) # {}
      BY <1>1, <1>7, <2>1, <3>1, <3>3
    <3>4. CASE RowsOf(j, f) = {}
      <4>1. work'[j].new = work[j].new \cup {row}
        BY <3>1, <3>4
      <4>2. IsFiniteSet(work'[j].new)
        <5>1. IsFiniteSet(work[j].new \cup {row})
          BY <1>1, Added
        <5> QED
          BY <4>1, <5>1
      <4>3. \A o \in work[j].base : o.fixture # f
        BY <1>1, <2>1, <3>4 DEF RowsOf, Visible
      <4> QED
        BY <1>1, <2>1, <3>1, <3>2, <4>1, <4>2, <4>3 DEF Inserts
    <3> QED
      BY <3>3, <3>4
  <2> QED
    BY <2>2, <2>3, <2>4
<1>12. CASE Load(j)
  <2>1. IsFiniteSet(Visible(j))
    BY <1>1, FS_Union DEF Visible, TablesInv
  <2>2. /\ work'[j].new = work[j].new
        /\ work'[j].base = work[j].base
        /\ work'[j].picks \subseteq Visible(j)
    BY <1>12 DEF Load, Works
  <2>3. IsFiniteSet(work'[j].picks)
    BY <2>1, <2>2, FS_Subset
  <2> QED
    BY <1>7, <1>12, <2>2, <2>3 DEF Load, Begun
<1>13. CASE Check(j) \/ Enqueue(j) \/ Commit(j) \/ ShowCompleted(j) \/ MarkDay(j) \/ Ack(j)
            \/ ShowFailed(j) \/ Retry(j) \/ RedisFails(j)
  <2>1. work'[j] = work[j]
    BY <1>13 DEF Check, Enqueue, Commit, ShowCompleted, MarkDay, Ack, ShowFailed, Retry,
                 RedisFails
  <2>2. pc'[j] \in {"checked", "ready", "show", "mark", "ack", "acked", "retry", "fail"}
    BY <1>2, <1>13 DEF Check, Enqueue, Commit, ShowCompleted, MarkDay, Ack, ShowFailed, Retry,
                       RedisFails
  <2> QED
    BY <1>4, <1>6, <2>1, <2>2
<1>14. CASE RunFails(j) \/ CommitAnswerLost(j) \/ WorkerDies(j) \/ Lose(j)
  BY <1>2, <1>4, <1>5, <1>14 DEF RunFails, CommitAnswerLost, WorkerDies, Lose
<1> QED
  BY <1>8, <1>9, <1>10, <1>11, <1>12, <1>13, <1>14 DEF JobStep, Step

\* What the client is shown, and what the task has still to show it, stays true.
LEMMA TellsKept ==
  ASSUME TypeOK, TablesInv, NEW j \in Jobs, JobInv(j), JobStep(j)
  PROVE  Tells(j)'
<1> USE Typed
<1>1. Tells(j)
  BY DEF JobInv
<1>2. \A at : Goto(j, at) => pc'[j] = at
  BY DEF Goto
<1>3. \A st, n : Show(j, st, n) => shown'[j].status = st /\ shown'[j].picks = n
  BY DEF Show
<1>4. CASE /\ UNCHANGED <<shown, imports>>
           /\ pc'[j] \in Begun \cup {"checked", "fail", "ready", "lost"}
  <2>1. ImportsOf(j)' = ImportsOf(j) /\ shown'[j] = shown[j]
    BY <1>4 DEF ImportsOf
  <2>2. pc'[j] \notin {"show", "mark", "ack", "retry", "acked"}
    BY <1>4 DEF Begun
  <2> QED
    BY <1>1, <2>1, <2>2 DEF Tells
<1>5. CASE \E st : Show(j, st, 0) /\ st # "completed" /\ pc'[j] \in {"fetch", "ready"}
  BY <1>3, <1>5 DEF Tells
<1>6. CASE Check(j) \/ Take(j) \/ RunFails(j) \/ RedisFails(j) \/ WorkerDies(j) \/ Lose(j)
  BY <1>2, <1>4, <1>6 DEF Check, Take, RunFails, RedisFails, WorkerDies, Lose, Begun
<1>7. CASE Enqueue(j) \/ Start(j)
  BY <1>2, <1>5, <1>7 DEF Enqueue, Start
<1>8. CASE Fetch(j) \/ Call(j) \/ GiveUp(j)
  <2>1. \A L : Receive(j, L) => pc'[j] \in Begun
    BY <1>2 DEF Receive, Begun
  <2> QED
    BY <1>2, <1>4, <1>8, <2>1 DEF Fetch, Call, GiveUp, Begun
<1>9. CASE Upsert(j) \/ Load(j)
  BY <1>2, <1>4, <1>9 DEF Upsert, Load, Begun
<1>10. CASE Commit(j) \/ CommitAnswerLost(j)
  <2>1. Committed(j)
    BY <1>10 DEF Commit, CommitAnswerLost
  <2>2. /\ imports \subseteq imports'
        /\ \E i \in ImportsOf(j)' : i.picks = work[j].picks
    BY <2>1, CommittedCounts
  <2>3. ImportsOf(j) \subseteq ImportsOf(j)'
    BY <2>2 DEF ImportsOf
  <2>4. shown' = shown /\ ((pc'[j] = "show" /\ work' = work) \/ pc'[j] = "fail")
    BY <1>2, <1>10 DEF Commit, CommitAnswerLost
  <2> QED
    BY <1>1, <2>2, <2>3, <2>4 DEF Tells
<1>11. CASE ShowCompleted(j)
  <2>1. \E i \in ImportsOf(j) : i.picks = work[j].picks
    BY <1>1, <1>11 DEF ShowCompleted, Tells
  <2>2. /\ shown'[j].status = "completed"
        /\ shown'[j].picks = Cardinality(work[j].picks)
        /\ pc'[j] = "mark"
        /\ ImportsOf(j)' = ImportsOf(j)
    BY <1>2, <1>3, <1>11 DEF ShowCompleted, ImportsOf
  <2> QED
    BY <2>1, <2>2 DEF Tells
<1>12. CASE MarkDay(j) \/ Ack(j)
  <2>1. ImportsOf(j)' = ImportsOf(j) /\ shown'[j] = shown[j]
    BY <1>12 DEF MarkDay, Ack, ImportsOf
  <2>2. \/ pc[j] = "mark" /\ pc'[j] = "ack" /\ ran'
        \/ pc[j] = "ack" /\ pc'[j] = "acked" /\ ran' = ran
    BY <1>2, <1>12 DEF MarkDay, Ack
  <2> QED
    BY <1>1, <2>1, <2>2 DEF Tells
<1>13. CASE ShowFailed(j)
  BY <1>2, <1>3, <1>13 DEF ShowFailed, Tells
<1>14. CASE Retry(j)
  <2>1. ImportsOf(j)' = ImportsOf(j) /\ shown'[j] = shown[j] /\ shown[j].status = "failed"
    BY <1>1, <1>14 DEF Retry, ImportsOf, Tells
  <2>2. \/ pc'[j] = "ready"
        \/ pc'[j] = "acked" /\ tries'[j] = MaxRetries
    <3>1. tries[j] \in Int /\ tries[j] <= MaxRetries /\ MaxRetries \in Int
      BY PipelineAssumption
    <3>2. CASE tries[j] < MaxRetries
      BY <1>2, <1>14, <3>2 DEF Retry
    <3>3. CASE ~(tries[j] < MaxRetries)
      <4>1. tries[j] = MaxRetries
        BY <3>1, <3>3, Reached
      <4> QED
        BY <1>2, <1>14, <3>3, <4>1 DEF Retry
    <3> QED
      BY <3>2, <3>3
  <2> QED
    BY <2>1, <2>2 DEF Tells
<1> QED
  BY <1>6, <1>7, <1>8, <1>9, <1>10, <1>11, <1>12, <1>13, <1>14 DEF JobStep, Step

-----------------------------------------------------------------------------
\* A step keeps what is said of the tables

\* A run is committed under a number that no row and no run has, and the rows it inserts are
\* new to its base.
LEMMA CommittedTables ==
  ASSUME TypeOK, TablesInv, OnlyOverlapDuplicates, NEW j \in Jobs, JobInv(j),
         pc[j] = "commit", Committed(j), ran' = ran
  PROVE  TablesInv' /\ OnlyOverlapDuplicates'
<1> USE Typed
<1> DEFINE new == [run |-> <<j, runs[j]>>, picks |-> work[j].picks, base |-> work[j].base]
<1>1. /\ matches' = matches \cup work[j].new
      /\ imports' = imports \cup {new}
      /\ runs' = [runs EXCEPT ![j] = runs[j] + 1]
  BY DEF Committed
<1>2. new.run = <<j, runs[j]>> /\ new.base = work[j].base
  OBVIOUS
<1> HIDE DEF new
<1>3. \A m \in work[j].new : /\ m.run = <<j, runs[j]>>
                             /\ \A o \in work[j].base : o.fixture # m.fixture
  BY DEF JobInv, Inserts, Begun
<1>4. /\ \A m \in matches : m.run \in Jobs \X Nat /\ m.run[2] < runs[m.run[1]]
      /\ \A i \in imports : i.run \in Jobs \X Nat /\ i.run[2] < runs[i.run[1]]
  BY DEF TablesInv, Row
<1>5. \A r \in Jobs \X Nat : r[2] < runs[r[1]] => r # <<j, runs[j]>> /\ r[2] < runs'[r[1]]
  <2>1. ASSUME NEW r \in Jobs \X Nat, r[2] < runs[r[1]] PROVE r # <<j, runs[j]>>
    <3>1. SUFFICES ASSUME r = <<j, runs[j]>> PROVE FALSE
      OBVIOUS
    <3>2. runs[j] < runs[j] /\ runs[j] \in Nat
      BY <2>1, <3>1
    <3> QED
      BY <3>2
  <2>2. ASSUME NEW r \in Jobs \X Nat, r[2] < runs[r[1]] PROVE r[2] < runs'[r[1]]
    <3>1. r[1] \in Jobs /\ r[2] \in Nat /\ runs[r[1]] \in Nat
      BY <2>2
    <3>2. runs'[r[1]] \in {runs[r[1]], runs[r[1]] + 1}
      BY <1>1, <3>1
    <3> QED
      BY <2>2, <3>1, <3>2
  <2> QED
    BY <2>1, <2>2
<1>6. IsFiniteSet(matches')
  BY <1>1, FS_Union DEF TablesInv, JobInv, Inserts
<1>7. <<j, runs[j]>>[2] < runs'[<<j, runs[j]>>[1]]
  BY <1>1
<1>8. \A m \in matches' : m.run[2] < runs'[m.run[1]]
  BY <1>1, <1>3, <1>4, <1>5, <1>7
<1>9. \A i \in imports' : i.run[2] < runs'[i.run[1]]
  BY <1>1, <1>2, <1>4, <1>5, <1>7
<1>10. ran' => imports' # {}
  BY <1>1 DEF TablesInv
<1>11. ASSUME NEW i \in imports', NEW m \in matches', m.run = i.run, NEW o \in i.base
       PROVE  o.fixture # m.fixture
  <2>1. CASE i \in imports /\ m \in matches
    BY <1>11, <2>1 DEF OnlyOverlapDuplicates
  <2>2. CASE i \in imports /\ m \in work[j].new
    BY <1>3, <1>4, <1>5, <1>11, <2>2
  <2>3. CASE i = new /\ m \in matches
    BY <1>2, <1>4, <1>5, <1>11, <2>3
  <2>4. CASE i = new /\ m \in work[j].new
    BY <1>2, <1>3, <1>11, <2>4
  <2> QED
    BY <1>1, <2>1, <2>2, <2>3, <2>4
<1> QED
  BY <1>6, <1>8, <1>9, <1>10, <1>11 DEF TablesInv, OnlyOverlapDuplicates

\* Any other step leaves the tables alone; the day is marked after a COMMIT.
LEMMA TablesKept ==
  ASSUME TypeOK, TablesInv, OnlyOverlapDuplicates, NEW j \in Jobs, JobInv(j), JobStep(j)
  PROVE  TablesInv' /\ OnlyOverlapDuplicates'
<1>1. CASE Commit(j) \/ CommitAnswerLost(j)
  BY <1>1, CommittedTables DEF Commit, CommitAnswerLost
<1>2. CASE UNCHANGED <<matches, imports, runs>> /\ (ran' => imports # {})
  <2>1. matches' = matches /\ imports' = imports /\ runs' = runs
    BY <1>2
  <2> QED
    BY <1>2, <2>1 DEF TablesInv, OnlyOverlapDuplicates
<1>3. CASE MarkDay(j) \/ RedisFails(j)
  <2>1. pc[j] \in {"show", "mark"}
    BY <1>3 DEF MarkDay, RedisFails
  <2>2. Cardinality(ImportsOf(j)) = repeats[j] + 1
    BY <2>1 DEF JobInv, Counted, Ended
  <2>3. ImportsOf(j) # {}
    <3>1. repeats[j] \in Nat
      BY Typed
    <3> QED
      BY <2>2, <3>1, FS_EmptySet
  <2> QED
    BY <1>2, <1>3, <2>3 DEF MarkDay, RedisFails, ImportsOf
<1>4. CASE /\ ~(Commit(j) \/ CommitAnswerLost(j))
           /\ ~(MarkDay(j) \/ RedisFails(j))
  <2>1. UNCHANGED <<ran, matches, imports, runs>>
    <3>1. CASE Check(j) \/ Enqueue(j) \/ Take(j) \/ Start(j) \/ ShowCompleted(j) \/ Ack(j)
               \/ ShowFailed(j) \/ Retry(j)
      BY <3>1 DEF Check, Enqueue, Take, Start, ShowCompleted, Ack, ShowFailed, Retry
    <3>2. CASE Fetch(j) \/ Call(j) \/ GiveUp(j) \/ Upsert(j) \/ Load(j)
      BY <3>2 DEF Fetch, Call, GiveUp, Upsert, Load
    <3>3. CASE RunFails(j) \/ WorkerDies(j) \/ Lose(j)
      BY <3>3 DEF RunFails, WorkerDies, Lose
    <3> QED
      BY <1>4, <3>1, <3>2, <3>3 DEF JobStep, Step
  <2> QED
    BY <1>2, <2>1 DEF TablesInv
<1> QED
  BY <1>1, <1>3, <1>4

-----------------------------------------------------------------------------
\* The theorems

\* At the start nothing is committed, shown or held.
LEMMA Initially ==
  ASSUME Init
  PROVE  IInv
<1>1. NoWork \in Works /\ "new" \in Places /\ 0 \in 0..MaxRetries /\ 0 \in 0..MaxFaults
  BY PipelineAssumption DEF NoWork, Works, Places
<1>2. TypeOK
  BY <1>1 DEF Init, TypeOK, Works, Places
<1>3. IsFiniteSet({}) /\ Cardinality({}) = 0
  BY FS_EmptySet
<1>4. TablesInv /\ OnlyOverlapDuplicates
  BY <1>3 DEF Init, TablesInv, OnlyOverlapDuplicates
<1>5. ASSUME NEW j \in Jobs PROVE JobInv(j)
  <2>1. /\ ImportsOf(j) = {}
        /\ pc[j] = "new"
        /\ work[j] = NoWork
        /\ runs[j] = 0
        /\ repeats[j] = 0
        /\ shown[j].status = "none"
    BY DEF Init, ImportsOf
  <2>2. "new" \notin Begun /\ "new" \notin Ended
    BY DEF Begun, Ended
  <2>3. Counted(j)
    BY <1>3, <2>1, <2>2 DEF Counted
  <2>4. Inserts(j)
    BY <1>3, <2>1, <2>2 DEF Inserts, NoWork
  <2>5. Tells(j)
    BY <2>1 DEF Tells
  <2> QED
    BY <2>3, <2>4, <2>5 DEF JobInv
<1> QED
  BY <1>2, <1>4, <1>5 DEF IInv

\* A step of one job, or of the cache, keeps the invariant.
LEMMA Inductive ==
  ASSUME IInv, [Next]_vars
  PROVE  IInv'
<1>1. CASE \E j \in Jobs : JobStep(j)
  <2>1. PICK j \in Jobs : JobStep(j)
    BY <1>1
  <2>2. TypeOK'
    BY <2>1, TypeStep DEF IInv
  <2>3. TablesInv' /\ OnlyOverlapDuplicates'
    BY <2>1, TablesKept DEF IInv
  <2>4. JobInv(j)'
    BY <2>1, CountedKept, InsertsKept, TellsKept DEF IInv, JobInv
  <2>5. \A k \in Jobs : k # j => JobInv(k)'
    BY <2>1, OthersKept DEF IInv
  <2> QED
    BY <2>2, <2>3, <2>4, <2>5 DEF IInv
<1>2. CASE /\ UNCHANGED <<ran, shown, matches, imports, jobs, repeats, faults>>
           /\ cache' \in {{}, cache}
  <2>1. /\ ran' = ran
        /\ shown' = shown
        /\ matches' = matches
        /\ imports' = imports
        /\ pc' = pc
        /\ tries' = tries
        /\ runs' = runs
        /\ work' = work
        /\ repeats' = repeats
    BY <1>2 DEF jobs
  <2>2. TypeOK'
    <3>1. cache' \in SUBSET SUBSET Fixtures /\ faults' \in 0..MaxFaults
      BY <1>2, Typed DEF IInv
    <3> QED
      BY <2>1, <3>1, Typed, Retype DEF IInv
  <2>3. TablesInv' /\ OnlyOverlapDuplicates'
    BY <2>1 DEF IInv, TablesInv, OnlyOverlapDuplicates
  <2>4. ASSUME NEW j \in Jobs PROVE JobInv(j)'
    <3>1. JobInv(j) /\ ImportsOf(j)' = ImportsOf(j)
      BY <2>1 DEF IInv, ImportsOf
    <3> QED
      BY <2>1, <3>1 DEF JobInv, Counted, Inserts, Tells
  <2> QED
    BY <2>2, <2>3, <2>4 DEF IInv
<1> QED
  BY <1>1, <1>2, Steps

\* The invariant holds of every behaviour, whatever fails and however messages are taken.
THEOREM Invariance == Spec => []IInv
<1>1. Init => IInv
  BY Initially
<1>2. IInv /\ [Next]_vars => IInv'
  BY Inductive
<1> QED
  BY <1>1, <1>2, PTL DEF Spec

\* Every value has its type.
THEOREM TypeCorrect == Spec => []TypeOK
<1>1. IInv => TypeOK
  BY DEF IInv
<1> QED
  BY <1>1, Invariance, PTL

\* A client that is shown "completed" with n picks finds a committed run of its job with n
\* picks, also after crashes and repeats; no day is marked before a run is committed.
THEOREM CompletedIsImported == Spec => []CompletedImported
<1>1. IInv => CompletedImported
  BY DEF IInv, TablesInv, JobInv, Tells, CompletedImported
<1> QED
  BY <1>1, Invariance, PTL

\* A job whose message is acknowledged has told how it ended.
THEOREM AckedHasTold == Spec => []AckedTells
<1>1. IInv => AckedTells
  BY DEF IInv, JobInv, Tells, AckedTells
<1> QED
  BY <1>1, Invariance, PTL

\* A job imports its day once, and once more for every commit that a failure or a crash made
\* it forget, for every number of jobs, processes, retries and faults.
THEOREM ImportsAreAccounted == Spec => []ImportsAccounted
<1>1. ASSUME IInv PROVE ImportsAccounted
  <2>1. ASSUME NEW j \in Jobs PROVE Cardinality(ImportsOf(j)) <= 1 + repeats[j]
    <3>1. repeats[j] \in Nat /\ Counted(j)
      BY <1>1, Typed DEF IInv, JobInv
    <3> QED
      BY <3>1 DEF Counted
  <2> QED
    BY <2>1 DEF ImportsAccounted
<1>2. IInv => ImportsAccounted
  BY <1>1
<1> QED
  BY <1>2, Invariance, PTL

\* A fixture is inserted twice only by runs that overlap.
THEOREM UpsertIdempotent == Spec => []OnlyOverlapDuplicates
<1>1. IInv => OnlyOverlapDuplicates
  BY DEF IInv
<1> QED
  BY <1>1, Invariance, PTL
=============================================================================

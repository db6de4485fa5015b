------------------------- MODULE IdempotencyProofs -------------------------
(***************************************************************************)
(* Theorems about Idempotency, for any set of requests, bodies and picks:  *)
(* a key creates one pick unless it is forgotten too early, and clients    *)
(* are told committed picks only.                                          *)
(***************************************************************************)
EXTENDS Idempotency, TLAPS

-----------------------------------------------------------------------------
\* The inductive invariant

\* What a request has at each statement: its body, and from its INSERT on a pick of its own
\* that is committed by nobody else.
Own(r) ==
  /\ pc[r] # "idle" => body[r] \in Bodies
  /\ pc[r] \in {"commit", "store", "answer"} => mine[r] \in PickIds
  /\ pc[r] = "commit" => /\ picks[mine[r]] = NoBody
                         /\ \A s \in Requests : mine[s] = mine[r] => s = r
  /\ pc[r] \in {"store", "answer"} => picks[mine[r]] = body[r]

\* What is stored is a committed pick and its body.
CellTells ==
  /\ cell \in {Free, Processing} \/ cell.state = "result"
  /\ cell.state = "result" => /\ cell.pick \in PickIds
                              /\ cell.body \in Bodies
                              /\ picks[cell.pick] = cell.body

\* Statements before the COMMIT of a request that has the key.
Uncommitted == {"handler", "commit", "abortGet", "abortDelete"}

\* As long as the key is not forgotten, its lock is exclusive, nothing is committed before
\* the COMMIT of the request that has it, and it is taken once something is.
Locked ==
  /\ \A r \in Requests : Working(r) => cell = Processing
  /\ \A r, s \in Requests : Working(r) /\ Working(s) => r = s
  /\ \A r \in Requests : pc[r] \in Uncommitted => Created = {}
  /\ Created # {} => cell # Free
  /\ \A p, q \in Created : p = q

IInv ==
  /\ TypeOK
  /\ \A r \in Requests : Own(r)
  /\ CellTells
  /\ ToldCommitted
  /\ ~forgotten => Locked

-----------------------------------------------------------------------------
\* Steps

\* The Redis values of a key without an answer differ from each other and from an answer.
LEMMA Cells ==
  /\ Free \in Cell /\ Processing \in Cell /\ Free # Processing
  /\ Free.state # "result" /\ Processing.state # "result"
BY DEF Free, Processing, Cell

LEMMA InitIInv == Init => IInv
<1> SUFFICES ASSUME Init PROVE IInv
  OBVIOUS
<1>1. TypeOK
  BY Cells DEF Init, TypeOK
<1>2. Created = {}
  BY DEF Init, Created
<1> QED
  BY <1>1, <1>2, Cells DEF Init, IInv, Own, CellTells, ToldCommitted, Locked, Working, Holding

\* Another request keeps its statement, its body and its pick.
LEMMA OthersKeep ==
  ASSUME TypeOK, NEW r \in Requests, Begin(r) \/ Step(r) \/ Crash(r), NEW s \in Requests, s # r
  PROVE  pc'[s] = pc[s] /\ body'[s] = body[s] /\ mine'[s] = mine[s]
<1>1. CASE Begin(r) \/ Crash(r)
  BY <1>1 DEF Begin, Crash, End, TypeOK
<1>2. CASE SetNx(r) \/ Get(r) \/ BeginFails(r)
  BY <1>2 DEF SetNx, Get, BeginFails, Goto, End, TypeOK
<1>3. CASE Create(r) \/ CreateFails(r) \/ AbortGet(r) \/ AbortDelete(r) \/ AbortFails(r)
  BY <1>3 DEF Create, CreateFails, AbortGet, AbortDelete, AbortFails, Goto, End, TypeOK
<1>4. CASE Commit(r) \/ CommitFails(r) \/ Store(r) \/ AnswerCreated(r)
  BY <1>4 DEF Commit, CommitFails, Store, AnswerCreated, Goto, End, TypeOK
<1> QED
  BY <1>1, <1>2, <1>3, <1>4 DEF Step

\* Only a commit writes picks: the pick of its request, once.
LEMMA PicksKeep ==
  ASSUME IInv, NEW r \in Requests, Begin(r) \/ Step(r) \/ Crash(r)
  PROVE  \/ picks' = picks
         \/ /\ pc[r] = "commit"
            /\ picks' = [picks EXCEPT ![mine[r]] = body[r]]
            /\ mine[r] \in PickIds /\ picks[mine[r]] = NoBody /\ body[r] \in Bodies
            /\ cell' = cell /\ told' = told /\ forgotten' = forgotten
<1>1. CASE Commit(r) \/ CommitFails(r)
  <2>1. pc[r] = "commit" /\ cell' = cell /\ told' = told /\ forgotten' = forgotten
    BY <1>1 DEF Commit, CommitFails
  <2>2. picks' = picks \/ picks' = [picks EXCEPT ![mine[r]] = body[r]]
    BY <1>1 DEF Commit, CommitFails, Committed
  <2> QED
    BY <2>1, <2>2 DEF IInv, Own
<1>2. CASE ~(Commit(r) \/ CommitFails(r))
  BY <1>2 DEF Begin, Step, Crash, SetNx, Get, BeginFails, Create, CreateFails, AbortGet,
              AbortDelete, AbortFails, Store, AnswerCreated
<1> QED
  BY <1>1, <1>2

\* A pick that exists stays as it is.
LEMMA PicksStay ==
  ASSUME IInv, NEW r \in Requests, Begin(r) \/ Step(r) \/ Crash(r)
  PROVE  \A p \in PickIds : picks[p] # NoBody => picks'[p] = picks[p]
BY PicksKeep DEF IInv, TypeOK

\* Types
LEMMA MoveTyped ==
  ASSUME IInv, NEW r \in Requests, Begin(r) \/ Step(r) \/ Crash(r)
  PROVE  TypeOK'
<1>t. TypeOK /\ Own(r) /\ CellTells
  BY DEF IInv
<1>1. CASE Begin(r) \/ Crash(r)
  BY <1>1, <1>t DEF Begin, Crash, End, TypeOK, Asking
<1>2. CASE SetNx(r) \/ BeginFails(r)
  BY <1>2, <1>t, Cells DEF SetNx, BeginFails, Goto, End, TypeOK, Asking, Holding
<1>3. CASE Get(r)
  <2>1. cell.state = "result" /\ pc[r] # "idle" => [body |-> body[r], pick |-> cell.pick] \in Answer
    BY <1>t DEF Own, CellTells, Answer
  <2>2. told' \in SUBSET Answer
    BY <1>3, <1>t, <2>1 DEF Get, TypeOK
  <2> QED
    BY <1>3, <1>t, <2>2 DEF Get, Goto, End, TypeOK, Asking
<1>4. CASE Create(r) \/ CreateFails(r) \/ AbortGet(r) \/ AbortDelete(r) \/ AbortFails(r)
  BY <1>4, <1>t, Cells DEF Create, CreateFails, AbortGet, AbortDelete, AbortFails, Goto, End,
                           TypeOK, Holding
<1>5. CASE Commit(r) \/ CommitFails(r)
  BY <1>5, <1>t DEF Commit, CommitFails, Committed, Goto, End, TypeOK, Holding
<1>6. CASE Store(r)
  <2>1. Stored(r) \in Cell
    BY <1>6, <1>t DEF Store, Own, Stored, Cell
  <2> QED
    BY <1>6, <1>t, <2>1 DEF Store, Goto, TypeOK
<1>7. CASE AnswerCreated(r)
  <2>1. [body |-> body[r], pick |-> mine[r]] \in Answer
    BY <1>7, <1>t DEF AnswerCreated, Own, Answer
  <2> QED
    BY <1>7, <1>t, <2>1 DEF AnswerCreated, End, TypeOK
<1> QED
  BY <1>1, <1>2, <1>3, <1>4, <1>5, <1>6, <1>7 DEF Step

\* A request that has ended has nothing.
LEMMA OwnStep ==
  ASSUME IInv, NEW r \in Requests, Begin(r) \/ Step(r) \/ Crash(r)
  PROVE  Own(r)'
<1>t. TypeOK /\ Own(r)
  BY DEF IInv
<1>1. ASSUME End(r)
      PROVE  Own(r)'
  BY <1>1, <1>t DEF End, Own, TypeOK
<1>2. CASE Begin(r)
  BY <1>2, <1>t DEF Begin, Own, TypeOK
<1>3. CASE SetNx(r) \/ CreateFails(r)
  BY <1>3, <1>t DEF SetNx, CreateFails, Goto, Own, TypeOK
<1>4. CASE Get(r) \/ BeginFails(r) \/ AbortGet(r)
  <2>1. CASE Get(r)
    BY <1>1, <1>t, <2>1 DEF Get, Goto, Own, TypeOK
  <2>2. CASE BeginFails(r)
    BY <1>1, <2>2 DEF BeginFails
  <2>3. CASE AbortGet(r)
    BY <1>1, <1>t, <2>3 DEF AbortGet, Goto, Own, TypeOK
  <2> QED
    BY <1>4, <2>1, <2>2, <2>3
<1>5. CASE Create(r)
  <2>1. PICK p \in PickIds \ (Created \cup {mine[s] : s \in Requests}) :
          mine' = [mine EXCEPT ![r] = p]
    BY <1>5 DEF Create
  <2>2. picks[p] = NoBody /\ \A s \in Requests : mine[s] # p
    BY <2>1 DEF Created
  <2>3. pc'[r] = "commit" /\ body'[r] = body[r] /\ picks' = picks /\ body[r] \in Bodies
    BY <1>5, <1>t DEF Create, Own, TypeOK
  <2>4. mine'[r] = p /\ \A s \in Requests : s # r => mine'[s] = mine[s]
    BY <2>1, <1>t DEF TypeOK
  <2> QED
    BY <2>1, <2>2, <2>3, <2>4 DEF Own
<1>6. CASE AbortDelete(r) \/ AbortFails(r) \/ CommitFails(r) \/ AnswerCreated(r) \/ Crash(r)
  BY <1>1, <1>6 DEF AbortDelete, AbortFails, CommitFails, AnswerCreated, Crash
<1>7. CASE Commit(r) \/ Store(r)
  BY <1>7, <1>t DEF Commit, Store, Committed, Goto, Own, TypeOK
<1> QED
  BY <1>2, <1>3, <1>4, <1>5, <1>6, <1>7 DEF Step

\* What a request has survives the steps of the others.
LEMMA OthersOwn ==
  ASSUME IInv, NEW r \in Requests, Begin(r) \/ Step(r) \/ Crash(r), NEW s \in Requests, s # r
  PROVE  Own(s)'
<1>t. TypeOK /\ Own(s) /\ Own(r)
  BY DEF IInv
<1>1. pc'[s] = pc[s] /\ body'[s] = body[s] /\ mine'[s] = mine[s]
  BY <1>t, OthersKeep
<1>2. \A q \in Requests : q \notin {r, s} => mine'[q] = mine[q]
  BY <1>t, OthersKeep
<1>3. ASSUME pc[s] = "commit"
      PROVE  picks'[mine[s]] = NoBody
  <2>1. pc[r] = "commit" => mine[s] # mine[r]
    BY <1>t DEF Own
  <2> QED
    BY <1>3, <1>t, <2>1, PicksKeep DEF Own, TypeOK
<1>4. ASSUME pc[s] = "commit"
      PROVE  mine'[r] # mine[s]
  <2>1. mine[r] # mine[s] /\ mine[s] \in PickIds /\ mine[s] # NoPick
    BY <1>t, <1>4, IdempotencyAssumption DEF Own
  <2>2. \/ mine'[r] = mine[r] \/ mine'[r] = NoPick
        \/ mine'[r] \notin {mine[q] : q \in Requests}
    <3>1. End(r) => mine'[r] = NoPick
      BY <1>t DEF End, TypeOK
    <3>2. Create(r) => mine'[r] \notin {mine[q] : q \in Requests}
      BY <1>t DEF Create, TypeOK
    <3> QED
      BY <3>1, <3>2 DEF Begin, Step, Crash, SetNx, Get, BeginFails, CreateFails, AbortGet,
                        AbortDelete, AbortFails, Commit, CommitFails, Store, AnswerCreated, Goto
  <2> QED
    BY <2>1, <2>2
<1>5. ASSUME pc[s] \in {"store", "answer"}
      PROVE  picks'[mine[s]] = body[s]
  BY <1>5, <1>t, PicksStay, IdempotencyAssumption DEF Own
<1> QED
  BY <1>1, <1>2, <1>3, <1>4, <1>5, <1>t DEF Own

\* What is stored, and what is told, stays true.
LEMMA CellStep ==
  ASSUME IInv, NEW r \in Requests, Begin(r) \/ Step(r) \/ Crash(r)
  PROVE  CellTells' /\ ToldCommitted'
<1>t. TypeOK /\ Own(r) /\ CellTells /\ ToldCommitted
  BY DEF IInv
<1>1. \A p \in PickIds : picks[p] # NoBody => picks'[p] = picks[p]
  BY PicksStay
<1>2. ASSUME cell' \in {cell, Free, Processing}
      PROVE  CellTells'
  BY <1>1, <1>2, <1>t, Cells, IdempotencyAssumption DEF CellTells
<1>3. ASSUME told' = told
      PROVE  ToldCommitted'
  BY <1>1, <1>3, <1>t, IdempotencyAssumption DEF ToldCommitted, TypeOK, Answer
<1>4. CASE Get(r)
  <2>1. cell' = cell
    BY <1>4 DEF Get
  <2>2. \/ told' = told
        \/ /\ cell.state = "result" /\ cell.body = body[r]
           /\ told' = told \cup {[body |-> body[r], pick |-> cell.pick]}
    BY <1>4 DEF Get, SameBody
  <2>3. ASSUME cell.state = "result", cell.body = body[r],
               told' = told \cup {[body |-> body[r], pick |-> cell.pick]}
        PROVE  ToldCommitted'
    <3>1. picks'[cell.pick] = body[r]
      BY <1>1, <1>t, <2>3, IdempotencyAssumption DEF CellTells
    <3>2. \A t \in told : picks'[t.pick] = t.body
      BY <1>1, <1>t, IdempotencyAssumption DEF ToldCommitted, TypeOK, Answer
    <3> QED
      BY <2>3, <3>1, <3>2 DEF ToldCommitted
  <2> QED
    BY <1>2, <1>3, <2>1, <2>2, <2>3
<1>5. CASE Store(r)
  <2>1. told' = told /\ picks' = picks
    BY <1>5 DEF Store
  <2>2. CASE cell' = Stored(r)
    BY <1>3, <1>5, <1>t, <2>1, <2>2 DEF Store, Stored, Own, CellTells
  <2>3. CASE cell' = cell
    BY <1>2, <1>3, <2>1, <2>3
  <2> QED
    BY <1>5, <2>2, <2>3 DEF Store
<1>6. CASE AnswerCreated(r)
  <2>1. cell' = cell /\ picks' = picks /\ told' = told \cup {[body |-> body[r], pick |-> mine[r]]}
    BY <1>6 DEF AnswerCreated
  <2>2. picks[mine[r]] = body[r]
    BY <1>6, <1>t DEF AnswerCreated, Own
  <2> QED
    BY <1>2, <1>t, <2>1, <2>2 DEF ToldCommitted
<1>7. CASE ~(Get(r) \/ Store(r) \/ AnswerCreated(r))
  <2>1. told' = told /\ cell' \in {cell, Free, Processing}
    BY <1>7 DEF Begin, Step, Crash, SetNx, BeginFails, Create, CreateFails, AbortGet, AbortDelete,
                AbortFails, Commit, CommitFails
  <2> QED
    BY <1>2, <1>3, <2>1
<1> QED
  BY <1>4, <1>5, <1>6, <1>7

\* As long as the key is not forgotten, one request at most works with it.
LEMMA LockedStep ==
  ASSUME IInv, ~forgotten, NEW r \in Requests, Begin(r) \/ Step(r) \/ Crash(r)
  PROVE  Locked'
<1>t. TypeOK /\ Own(r) /\ CellTells /\ Locked
  BY DEF IInv
<1>k. \A s \in Requests : s # r => pc'[s] = pc[s]
  BY <1>t, OthersKeep
\* Nothing is acquired, committed or freed.
<1>1. ASSUME Working(r)' => Working(r), pc'[r] \in Uncommitted => pc[r] \in Uncommitted,
             picks' = picks, cell' = cell
      PROVE  Locked'
  <2>1. \A s \in Requests : /\ Working(s)' => Working(s)
                            /\ pc'[s] \in Uncommitted => pc[s] \in Uncommitted
    BY <1>1, <1>k DEF Working
  <2>2. Created' = Created
    BY <1>1 DEF Created
  <2> QED
    BY <1>1, <1>t, <2>1, <2>2 DEF Locked
<1>2. CASE SetNx(r)
  <2>1. CASE cell # Free
    BY <1>1, <1>2, <1>t, <2>1 DEF SetNx, Acquired, Goto, Working, Holding, Uncommitted, TypeOK
  <2>2. CASE cell = Free
    <3>1. cell' = Processing /\ pc'[r] = "handler" /\ picks' = picks
      BY <1>2, <1>t, <2>2 DEF SetNx, Acquired, Goto, TypeOK
    <3>2. Created = {} /\ Created' = {}
      BY <1>t, <2>2, <3>1 DEF Locked, Created
    <3>3. \A s \in Requests : ~Working(s)
      BY <1>t, <2>2, Cells DEF Locked
    <3>4. \A s \in Requests : Working(s)' => s = r
      BY <1>k, <3>3 DEF Working
    <3> QED
      BY <3>1, <3>2, <3>4, Cells DEF Locked
  <2> QED
    BY <2>1, <2>2
<1>3. CASE BeginFails(r)
  <2>1. CASE cell' = cell
    BY <1>1, <1>3, <1>t, <2>1 DEF BeginFails, End, Working, Holding, Uncommitted, TypeOK
  <2>2. CASE cell' # cell
    <3>1. cell = Free /\ cell' = Processing /\ picks' = picks /\ pc'[r] = "idle"
      BY <1>3, <1>t, <2>2 DEF BeginFails, Acquired, End, TypeOK
    <3>2. Created = {} /\ Created' = {}
      BY <1>t, <3>1 DEF Locked, Created
    <3>3. \A s \in Requests : ~Working(s)
      BY <1>t, <3>1, Cells DEF Locked
    <3>4. \A s \in Requests : ~Working(s)'
      BY <1>k, <3>1, <3>3 DEF Working, Holding
    <3> QED
      BY <3>1, <3>2, <3>4, Cells DEF Locked
  <2> QED
    BY <2>1, <2>2
\* The request that works with the key gives it up.
<1>4. ASSUME Working(r), ~Working(r)', pc'[r] \notin Uncommitted
      PROVE  /\ \A s \in Requests : ~Working(s)'
             /\ \A s \in Requests : pc'[s] \notin Uncommitted
  BY <1>4, <1>k, <1>t DEF Locked, Working, Holding, Uncommitted
<1>5. CASE AbortDelete(r)
  <2>1. /\ Working(r) /\ pc[r] \in Uncommitted /\ pc'[r] = "idle"
        /\ picks' = picks /\ cell' = Free
    BY <1>5, <1>t DEF AbortDelete, End, Working, Holding, Uncommitted, TypeOK
  <2>2. Created' = {}
    BY <1>t, <2>1 DEF Locked, Created
  <2> QED
    BY <1>4, <2>1, <2>2 DEF Locked, Working, Holding, Uncommitted
\* The COMMIT, of the only request that works with the key.
<1>6. ASSUME pc[r] = "commit", picks' = [picks EXCEPT ![mine[r]] = body[r]], cell' = cell,
             pc'[r] \in {"store", "idle"}
      PROVE  Locked'
  <2>1. Working(r) /\ cell' = Processing /\ Created = {}
    BY <1>6, <1>t DEF Locked, Working, Holding, Uncommitted
  <2>2. \A p \in Created' : p = mine[r]
    BY <1>6, <1>t, <2>1 DEF Created, TypeOK
  <2>3. \A s \in Requests : Working(s)' => s = r
    BY <1>k, <1>t, <2>1 DEF Locked, Working
  <2>4. \A s \in Requests : pc'[s] \notin Uncommitted
    <3>1. \A s \in Requests : s # r => pc[s] \notin Uncommitted
      BY <1>t, <2>1 DEF Locked, Working, Holding, Uncommitted
    <3> QED
      BY <1>6, <1>k, <3>1 DEF Uncommitted
  <2> QED
    BY <2>1, <2>2, <2>3, <2>4, Cells DEF Locked
<1>7. CASE Commit(r)
  BY <1>6, <1>7, <1>t DEF Commit, Committed, Goto, TypeOK
<1>8. CASE CommitFails(r)
  <2>1. pc[r] = "commit" /\ pc'[r] = "idle" /\ cell' = cell
    BY <1>8, <1>t DEF CommitFails, End, TypeOK
  <2>2. CASE Committed(r)
    BY <1>6, <2>1, <2>2 DEF Committed
  <2>3. CASE picks' = picks
    BY <1>1, <2>1, <2>3 DEF Working, Holding, Uncommitted
  <2> QED
    BY <1>8, <2>2, <2>3 DEF CommitFails
<1>9. CASE Store(r)
  <2>1. CASE cell' = cell
    BY <1>1, <1>9, <1>t, <2>1 DEF Store, Goto, Working, Holding, Uncommitted, TypeOK
  <2>2. CASE cell' = Stored(r)
    <3>1. Working(r) /\ pc'[r] = "answer" /\ picks' = picks
      BY <1>9, <1>t DEF Store, Goto, Working, Holding, TypeOK
    <3>2. /\ \A s \in Requests : ~Working(s)'
          /\ \A s \in Requests : pc'[s] \notin Uncommitted
      BY <1>4, <3>1 DEF Working, Holding, Uncommitted
    <3>3. cell' # Free
      BY <2>2 DEF Stored, Free
    <3>4. Created' = Created
      BY <3>1 DEF Created
    <3> QED
      BY <1>t, <3>2, <3>3, <3>4 DEF Locked
  <2> QED
    BY <1>9, <2>1, <2>2 DEF Store
<1>10. CASE Begin(r) \/ Crash(r) \/ AnswerCreated(r) \/ AbortFails(r)
  BY <1>1, <1>10, <1>t DEF Begin, Crash, AnswerCreated, AbortFails, End, Working, Holding,
                           Uncommitted, TypeOK
<1>11. CASE Create(r) \/ CreateFails(r)
  BY <1>1, <1>11, <1>t DEF Create, CreateFails, Goto, Working, Holding, Uncommitted, TypeOK
<1>12. CASE Get(r) \/ AbortGet(r)
  BY <1>1, <1>12, <1>t DEF Get, AbortGet, Goto, End, Working, Holding, Uncommitted, TypeOK
<1> QED
  BY <1>2, <1>3, <1>5, <1>7, <1>8, <1>9, <1>10, <1>11, <1>12 DEF Step

\* An expiry in good time finds nobody at work and nothing created.
LEMMA ExpireIInv == IInv /\ Expire => IInv'
<1> SUFFICES ASSUME IInv, Expire
             PROVE  IInv'
  OBVIOUS
<1>1. UNCHANGED <<picks, pc, body, mine, told>> /\ cell' = Free
  BY DEF Expire
<1>2. TypeOK'
  BY <1>1, Cells DEF IInv, Expire, TypeOK
<1>3. (\A s \in Requests : Own(s)') /\ ToldCommitted' /\ CellTells'
  BY <1>1, Cells DEF IInv, Own, ToldCommitted, CellTells
<1>4. ~forgotten' => Created = {} /\ \A s \in Requests : ~Working(s)
  BY DEF Expire
<1>5. ~forgotten' => Locked'
  BY <1>1, <1>4 DEF Locked, Working, Holding, Uncommitted, Created
<1> QED
  BY <1>2, <1>3, <1>5 DEF IInv

LEMMA NextIInv == IInv /\ [Next]_vars => IInv'
<1> SUFFICES ASSUME IInv, [Next]_vars
             PROVE  IInv'
  OBVIOUS
<1>1. ASSUME NEW r \in Requests, Begin(r) \/ Step(r) \/ Crash(r)
      PROVE  IInv'
  <2>1. forgotten' = forgotten
    BY <1>1 DEF Begin, Step, Crash, SetNx, Get, BeginFails, Create, CreateFails, AbortGet,
                AbortDelete, AbortFails, Commit, CommitFails, Store, AnswerCreated
  <2>2. \A s \in Requests : Own(s)'
    BY <1>1, OwnStep, OthersOwn
  <2> QED
    BY <1>1, <2>1, <2>2, MoveTyped, CellStep, LockedStep DEF IInv
<1>2. CASE UNCHANGED vars
  BY <1>2 DEF vars, IInv, TypeOK, Own, CellTells, ToldCommitted, Locked, Working, Created
<1> QED
  BY <1>1, <1>2, ExpireIInv DEF Next

\* The lock of the key is exclusive until it is forgotten.
THEOREM KeyLocked == Spec => []IInv
BY InitIInv, NextIInv, PTL DEF Spec

-----------------------------------------------------------------------------
\* Theorems

\* Every variable has the type the module gives it.
THEOREM TypeCorrect == Spec => []TypeOK
<1>1. IInv => TypeOK
  BY DEF IInv
<1> QED
  BY <1>1, KeyLocked, PTL

\* However often the key is sent, and whatever fails, it creates one pick, unless it expires
\* under a request that works with it or after its pick is committed.
THEOREM OnePickPerKeyAlways == Spec => []OnePickPerKey
<1>1. IInv => OnePickPerKey
  BY DEF IInv, Locked, OnePickPerKey
<1> QED
  BY <1>1, KeyLocked, PTL

\* A client is told committed picks with the body it sent, keys expired or not.
THEOREM ToldCommittedAlways == Spec => []ToldCommitted
<1>1. IInv => ToldCommitted
  BY DEF IInv
<1> QED
  BY <1>1, KeyLocked, PTL
=============================================================================

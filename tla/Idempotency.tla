---------------------------- MODULE Idempotency ----------------------------
(***************************************************************************)
(* POST /picks with an Idempotency-Key: app/core/idempotency.py as         *)
(* routers/picks.py calls it.  Requests with different keys share nothing  *)
(* here, so the module follows one key: its Redis value, the picks created *)
(* by requests that carry it, and what the clients are told.               *)
(*                                                                         *)
(* A call to Redis or a COMMIT that fails may have been carried out all    *)
(* the same.  A crash is the end of the process or the cancellation of its *)
(* task: no handler of the code runs.  What create_pick does to wallet and *)
(* ledger is Settlement's.                                                 *)
(***************************************************************************)
EXTENDS Naturals, FiniteSets

CONSTANTS
  Requests,     \* requests with the key in flight at a time; one that has ended is used again
  Bodies,       \* fingerprints of the bodies that clients send with the key
  PickIds,      \* pick ids that uuid4 hands out, as many as picks can be created
  NoPick,       \* "no pick"
  NoBody        \* "no such pick"

ASSUME IdempotencyAssumption ==
  /\ NoPick \notin PickIds
  /\ NoBody \notin Bodies

VARIABLES
  cell,         \* the Redis value of the key
  picks,        \* committed picks of the key: pick -> body
  pc,           \* request -> where its handler stands
  body,         \* request -> fingerprint of its body
  mine,         \* request -> the pick it creates
  told,         \* what clients were answered with 201: the body sent, the pick told
  forgotten     \* the key expired under a request that worked with it, or after a pick of it

vars == <<cell, picks, pc, body, mine, told, forgotten>>

Free == [state |-> "none", body |-> NoBody, pick |-> NoPick]
Processing == [state |-> "processing", body |-> NoBody, pick |-> NoPick]
Cell == [state : {"none", "processing", "result"}, body : Bodies \cup {NoBody},
         pick : PickIds \cup {NoPick}]
Asking == {"setNx", "get", "setNxAgain", "getAgain"}
Holding == {"handler", "commit", "store", "abortGet", "abortDelete"}
Answer == [body : Bodies, pick : PickIds]

Created == {p \in PickIds : picks[p] # NoBody}

\* A request between its SET NX and the end of its use of the key.
Working(r) == pc[r] \in Holding

Init ==
  /\ cell = Free
  /\ picks = [p \in PickIds |-> NoBody]
  /\ pc = [r \in Requests |-> "idle"]
  /\ body = [r \in Requests |-> NoBody]
  /\ mine = [r \in Requests |-> NoPick]
  /\ told = {}
  /\ forgotten = FALSE

Goto(r, at) == pc' = [pc EXCEPT ![r] = at] /\ UNCHANGED <<body, mine>>

\* The request is over.
End(r) ==
  /\ pc' = [pc EXCEPT ![r] = "idle"]
  /\ body' = [body EXCEPT ![r] = NoBody]
  /\ mine' = [mine EXCEPT ![r] = NoPick]

-----------------------------------------------------------------------------
\* begin_pick_create

\* A client sends the key, for the first time or again, with this body or another one.
Begin(r) ==
  /\ pc[r] = "idle"
  /\ \E b \in Bodies : body' = [body EXCEPT ![r] = b]
  /\ pc' = [pc EXCEPT ![r] = "setNx"]
  /\ UNCHANGED <<cell, picks, mine, told, forgotten>>

\* What SET NX asks.
Acquired == cell = Free

SetNx(r) ==
  /\ pc[r] \in {"setNx", "setNxAgain"}
  /\ IF Acquired
     THEN cell' = Processing /\ Goto(r, "handler")
     ELSE UNCHANGED cell /\ Goto(r, IF pc[r] = "setNx" THEN "get" ELSE "getAgain")
  /\ UNCHANGED <<picks, told, forgotten>>

\* Mutant: a stored answer is replayed to any body.
SameBodyAny(r) == cell.state = "result"

\* The stored fingerprint is that of the request.
SameBody(r) == cell.body = body[r]

\* GET: replay the stored answer, or 409, for a body that differs and for a key under
\* work; a key that has expired since the SET NX is tried once more.
Get(r) ==
  /\ pc[r] \in {"get", "getAgain"}
  /\ \/ /\ cell = Free
        /\ pc[r] = "get"
        /\ Goto(r, "setNxAgain")
        /\ UNCHANGED told
     \/ /\ cell = Free => pc[r] = "getAgain"
        /\ told' = IF cell.state = "result" /\ SameBody(r)
                   THEN told \cup {[body |-> body[r], pick |-> cell.pick]} ELSE told
        /\ End(r)
  /\ UNCHANGED <<cell, picks, forgotten>>

\* Redis is unreachable: 503.
BeginFails(r) ==
  /\ pc[r] \in Asking
  /\ \/ UNCHANGED cell
     \/ pc[r] \in {"setNx", "setNxAgain"} /\ Acquired /\ cell' = Processing
  /\ End(r)
  /\ UNCHANGED <<picks, told, forgotten>>

-----------------------------------------------------------------------------
\* create_pick, and the abort when it fails

Create(r) ==
  /\ pc[r] = "handler"
  /\ \E p \in PickIds \ (Created \cup {mine[s] : s \in Requests}) :
       mine' = [mine EXCEPT ![r] = p]
  /\ pc' = [pc EXCEPT ![r] = "commit"]
  /\ UNCHANGED <<cell, picks, body, told, forgotten>>

\* A refusal of the validator or of the money core, or an error.
CreateFails(r) ==
  /\ pc[r] = "handler"
  /\ Goto(r, "abortGet")
  /\ UNCHANGED <<cell, picks, told, forgotten>>

AbortGet(r) ==
  /\ pc[r] = "abortGet"
  /\ IF cell = Processing THEN Goto(r, "abortDelete") ELSE End(r)
  /\ UNCHANGED <<cell, picks, told, forgotten>>

\* DELETE takes away whatever the key holds by now.
AbortDelete(r) ==
  /\ pc[r] = "abortDelete"
  /\ cell' = Free
  /\ End(r)
  /\ UNCHANGED <<picks, told, forgotten>>

\* Redis errors are swallowed, and the request fails with its first error.
AbortFails(r) ==
  /\ pc[r] \in {"abortGet", "abortDelete"}
  /\ End(r)
  /\ UNCHANGED <<cell, picks, told, forgotten>>

-----------------------------------------------------------------------------
\* COMMIT, the hook after it, and the answer

Committed(r) == picks' = [picks EXCEPT ![mine[r]] = body[r]]

Commit(r) ==
  /\ pc[r] = "commit"
  /\ Committed(r)
  /\ Goto(r, "store")
  /\ UNCHANGED <<cell, told, forgotten>>

\* Mutant: a COMMIT that fails aborts the key.
CommitFailsReleasing(r) ==
  /\ pc[r] = "commit"
  /\ Committed(r) \/ UNCHANGED picks
  /\ cell' = Free
  /\ End(r)
  /\ UNCHANGED <<told, forgotten>>

\* The handler has returned: nobody aborts the key, and the hook is not run.
CommitFails(r) ==
  /\ pc[r] = "commit"
  /\ Committed(r) \/ UNCHANGED picks
  /\ End(r)
  /\ UNCHANGED <<cell, told, forgotten>>

\* Mutant: the fingerprint is left out of what is stored.
StoredBare(r) == [state |-> "result", pick |-> mine[r]]

Stored(r) == [state |-> "result", body |-> body[r], pick |-> mine[r]]

\* complete_pick_create sets the key whatever it holds, and swallows Redis errors.
Store(r) ==
  /\ pc[r] = "store"
  /\ \/ cell' = Stored(r)
     \/ UNCHANGED cell
  /\ Goto(r, "answer")
  /\ UNCHANGED <<picks, told, forgotten>>

AnswerCreated(r) ==
  /\ pc[r] = "answer"
  /\ told' = told \cup {[body |-> body[r], pick |-> mine[r]]}
  /\ End(r)
  /\ UNCHANGED <<cell, picks, forgotten>>

-----------------------------------------------------------------------------
\* Crashes and expiry

Crash(r) ==
  /\ pc[r] # "idle"
  /\ End(r)
  /\ UNCHANGED <<cell, picks, told, forgotten>>

\* Mutant: the lock is set without a time to live.
ExpiresResult == cell.state = "result"

\* Both values have a time to live: the lock 120 s, a result 30 minutes.
Expires == cell # Free

Expire ==
  /\ Expires
  /\ cell' = Free
  /\ forgotten' = (forgotten \/ Created # {} \/ \E r \in Requests : Working(r))
  /\ UNCHANGED <<picks, pc, body, mine, told>>

Step(r) ==
  \/ SetNx(r) \/ Get(r) \/ BeginFails(r)
  \/ Create(r) \/ CreateFails(r) \/ AbortGet(r) \/ AbortDelete(r) \/ AbortFails(r)
  \/ Commit(r) \/ CommitFails(r) \/ Store(r) \/ AnswerCreated(r)

Next ==
  \/ Expire
  \/ \E r \in Requests : Begin(r) \/ Step(r) \/ Crash(r)

Spec == Init /\ [][Next]_vars

\* No request at work on the key: what is left in it is left to expire.
Abandoned == \A r \in Requests : ~Working(r)

\* The server runs what it has begun; a key that nobody works on expires.
FairSpec ==
  /\ Spec
  /\ \A r \in Requests : WF_vars(Step(r))
  /\ WF_vars(Abandoned /\ Expire)

-----------------------------------------------------------------------------
\* Properties

TypeOK ==
  /\ cell \in Cell
  /\ picks \in [PickIds -> Bodies \cup {NoBody}]
  /\ pc \in [Requests -> Asking \cup Holding \cup {"idle", "answer"}]
  /\ body \in [Requests -> Bodies \cup {NoBody}]
  /\ mine \in [Requests -> PickIds \cup {NoPick}]
  /\ told \in SUBSET Answer
  /\ forgotten \in BOOLEAN

\* A key creates one pick, however many requests carry it at once or one after another, and
\* whatever crashes, calls to Redis and commits fail, unless the key expired under a request
\* that worked with it or after its pick was committed.
OnePickPerKey == ~forgotten => \A p, q \in Created : p = q

\* What a client is told is a committed pick with the body it sent: nothing is told that a
\* rollback undid, and no body gets the answer to another one, keys expired or not.
ToldCommitted == \A t \in told : picks[t.pick] = t.body

\* A key whose request crashed, or could not be aborted, can be used again.
KeyComesBack == cell = Processing ~> cell # Processing
=============================================================================

------------------------------- MODULE Parlays -------------------------------
(***************************************************************************)
(* Parlays and the automatic resolution of a parlay by the settlement of   *)
(* its legs: app/services/parlay_service.py as routers/parlays.py and      *)
(* routers/picks.py call it.                                               *)
(*                                                                         *)
(* Requests are transactions at READ COMMITTED, as in Settlement: what     *)
(* they write is seen at their Commit.  How money moves when a pick        *)
(* settles is Settlement's; here a settlement is the row lock of the pick, *)
(* its new status and, for a resolve, the resolution of its parlays in the *)
(* same transaction.  A refusal of the money core is Abort.                *)
(*                                                                         *)
(* Inserting a parlay_picks row takes FOR KEY SHARE on the pick it refers  *)
(* to, which waits for a settlement's FOR UPDATE and makes one wait.       *)
(* actual_return goes with the status (potential_return, 0 or NULL) and is *)
(* left out.                                                               *)
(***************************************************************************)
EXTENDS Naturals, FiniteSets

CONSTANTS
  Requests,     \* requests in flight at a time; one that has ended is used again
  Picks,        \* picks, all pending at first
  Matches,      \* matches the picks are on
  MatchOf,      \* pick -> its match
  ParlayIds,    \* parlay ids that uuid4 may hand out
  NoRequest,    \* "the row is not locked"
  NoParlay,     \* no parlay under work
  NoPick,       \* no pick asked for
  Results,      \* results that clients send for a pick
  Ops           \* the operations that clients call

ASSUME ParlayAssumption ==
  /\ MatchOf \in [Picks -> Matches]
  /\ NoPick \notin Picks
  /\ NoRequest \notin Requests
  /\ NoParlay \notin ParlayIds
  /\ Results \subseteq {"won", "lost", "push", "void"}
  /\ Ops \subseteq {"group", "resolve", "delete", "reject"}

VARIABLES
  pick,         \* picks.status
  parlay,       \* parlays.status
  legs,         \* parlay_picks: parlay -> its picks
  pickLock,     \* FOR UPDATE of a pick
  keyShare,     \* FOR KEY SHARE of a pick: the requests that hold it
  parlayLock,   \* row lock of a parlay
  pc, job,      \* request -> where its handler stands, what it was asked
  todo,         \* request -> legs to insert, or parlays to look at
  seen,         \* request -> the parlay under work
  known,        \* request -> status of the picks its session holds
  verdict,      \* request -> parlay -> status flushed for it, if any
  outage        \* requests may fail

tables == <<pick, parlay, legs>>
locks == <<pickLock, keyShare, parlayLock>>
txns == <<pc, job, todo, seen, known, verdict>>
vars == <<tables, locks, txns, outage>>

Outcomes == {"won", "lost", "push", "void"}
Status == {"pending"} \cup Outcomes
ParlayStatus == {"pending", "won", "lost"}
InFlight == {"insertLegs", "lockPick", "readLinks", "readParlay", "readLegs",
             "passLegs", "update", "commit"}
Job == [op : {"none", "group", "resolve", "delete", "reject"}, pick : Picks \cup {NoPick},
        target : Outcomes, legs : SUBSET Picks, parlay : ParlayIds \cup {NoParlay}]
NoJob == [op |-> "none", pick |-> NoPick, target |-> "void", legs |-> {},
          parlay |-> NoParlay]
NothingKnown == [p \in Picks |-> "unread"]
NoVerdict == [q \in ParlayIds |-> "none"]

Settles(r) == job[r].op \in {"resolve", "delete", "reject"}
Settled(p) == pick[p] # "pending"

Init ==
  /\ pick = [p \in Picks |-> "pending"]
  /\ parlay = [q \in ParlayIds |-> "absent"]
  /\ legs = [q \in ParlayIds |-> {}]
  /\ pickLock = [p \in Picks |-> NoRequest]
  /\ keyShare = [p \in Picks |-> {}]
  /\ parlayLock = [q \in ParlayIds |-> NoRequest]
  /\ pc = [r \in Requests |-> "idle"]
  /\ job = [r \in Requests |-> NoJob]
  /\ todo = [r \in Requests |-> {}]
  /\ seen = [r \in Requests |-> NoParlay]
  /\ known = [r \in Requests |-> NothingKnown]
  /\ verdict = [r \in Requests |-> NoVerdict]
  /\ outage = TRUE

Begin(r, j, at) ==
  /\ pc[r] = "idle"
  /\ pc' = [pc EXCEPT ![r] = at]
  /\ job' = [job EXCEPT ![r] = j]
  /\ UNCHANGED <<tables, seen, known, verdict>>

\* The row of a parlay goes to a request that waits for it, if there is one.
Waiting(r, q) == {s \in Requests \ {r} : pc[s] = "update" /\ seen[s] = q}
NextHolder(r, q) ==
  IF Waiting(r, q) = {} THEN NoRequest ELSE CHOOSE s \in Waiting(r, q) : TRUE

\* The transaction ends and its locks go; the connection takes another request.
End(r) ==
  /\ pc' = [pc EXCEPT ![r] = "idle"]
  /\ job' = [job EXCEPT ![r] = NoJob]
  /\ todo' = [todo EXCEPT ![r] = {}]
  /\ seen' = [seen EXCEPT ![r] = NoParlay]
  /\ known' = [known EXCEPT ![r] = NothingKnown]
  /\ verdict' = [verdict EXCEPT ![r] = NoVerdict]
  /\ pickLock' = [p \in Picks |-> IF pickLock[p] = r THEN NoRequest ELSE pickLock[p]]
  /\ keyShare' = [p \in Picks |-> keyShare[p] \ {r}]
  /\ parlayLock' = [q \in ParlayIds |-> IF parlayLock[q] = r THEN NextHolder(r, q) ELSE parlayLock[q]]

\* Rolled back, or nothing to commit.
Leave(r) == End(r) /\ UNCHANGED tables

Goto(r, at) ==
  /\ pc' = [pc EXCEPT ![r] = at]
  /\ UNCHANGED <<tables, job>>

-----------------------------------------------------------------------------
\* create_parlay

\* The SELECT of the picks takes no lock; the checks are on what it read.  The row of a
\* fresh parlay is its transaction's own until it commits.
BeginGroup(r) ==
  /\ "group" \in Ops
  /\ \E q \in ParlayIds, L \in SUBSET Picks :
       /\ parlay[q] = "absent"
       /\ parlayLock[q] = NoRequest
       /\ Cardinality(L) \in 2..8
       /\ \A p, o \in L : p # o => MatchOf[p] # MatchOf[o]
       /\ \A p \in L : pick[p] = "pending"
       /\ Begin(r, [NoJob EXCEPT !.op = "group", !.parlay = q, !.legs = L], "insertLegs")
       /\ todo' = [todo EXCEPT ![r] = L]
       /\ parlayLock' = [parlayLock EXCEPT ![q] = r]
       /\ UNCHANGED <<pickLock, keyShare>>

InsertLeg(r) ==
  /\ pc[r] = "insertLegs"
  /\ \E p \in todo[r] :
       /\ pickLock[p] = NoRequest
       /\ keyShare' = [keyShare EXCEPT ![p] = @ \cup {r}]
       /\ todo' = [todo EXCEPT ![r] = @ \ {p}]
       /\ Goto(r, IF todo[r] = {p} THEN "commit" ELSE "insertLegs")
  /\ UNCHANGED <<pickLock, parlayLock, seen, known, verdict>>

-----------------------------------------------------------------------------
\* PATCH result, DELETE and PATCH confirm of a pick, up to its new status

ResolveOf(r, p, t) ==
  /\ Begin(r, [NoJob EXCEPT !.op = "resolve", !.pick = p, !.target = t], "lockPick")
  /\ UNCHANGED <<todo, locks>>

BeginResolve(r) ==
  /\ "resolve" \in Ops
  /\ \E p \in Picks, t \in Results : ResolveOf(r, p, t)

\* delete_pick: the pick is pending and in no parlay, both read without a lock.
BeginDelete(r) ==
  /\ "delete" \in Ops
  /\ \E p \in Picks :
       /\ pick[p] = "pending"
       /\ \A q \in ParlayIds : p \notin legs[q]
       /\ Begin(r, [NoJob EXCEPT !.op = "delete", !.pick = p], "lockPick")
  /\ UNCHANGED <<todo, locks>>

\* confirm_pick(confirmed=false) asks nothing about parlays.
BeginReject(r) ==
  /\ "reject" \in Ops
  /\ \E p \in Picks : Begin(r, [NoJob EXCEPT !.op = "reject", !.pick = p], "lockPick")
  /\ UNCHANGED <<todo, locks>>

\* Mutant: the pick is read without FOR UPDATE.
RowUnguarded(p) == p \in Picks

RowFree(p) == pickLock[p] = NoRequest /\ keyShare[p] = {}

\* Mutant: a resolve that finds the pick settled as asked returns at once.
LockPickNoRetry(r) ==
  LET p == job[r].pick
  IN /\ pc[r] = "lockPick"
     /\ RowFree(p)
     /\ IF Settled(p)
        THEN Leave(r)
        ELSE /\ pickLock' = [pickLock EXCEPT ![p] = r]
             /\ Goto(r, IF job[r].op = "resolve" THEN "readLinks" ELSE "commit")
             /\ UNCHANGED <<keyShare, parlayLock, todo, seen, known, verdict>>

\* execute_settlement: a pick settled as asked is left as it is, one settled otherwise is
\* a conflict.  Only a resolve goes on to the parlays, also when there was nothing to do.
LockPick(r) ==
  LET p == job[r].pick
  IN /\ pc[r] = "lockPick"
     /\ RowFree(p)
     /\ IF Settled(p) /\ pick[p] # job[r].target
        THEN Leave(r)
        ELSE /\ pickLock' = [pickLock EXCEPT ![p] = r]
             /\ Goto(r, IF job[r].op = "resolve" THEN "readLinks" ELSE "commit")
             /\ UNCHANGED <<keyShare, parlayLock, todo, seen, known, verdict>>

-----------------------------------------------------------------------------
\* auto_resolve_parlays_for_pick, in the transaction of the resolve

ReadLinks(r) ==
  LET linked == {q \in ParlayIds : job[r].pick \in legs[q]}
  IN /\ pc[r] = "readLinks"
     /\ todo' = [todo EXCEPT ![r] = linked]
     /\ Goto(r, IF linked = {} THEN "commit" ELSE "readParlay")
     /\ UNCHANGED <<locks, seen, known, verdict>>

\* Done with parlay q: the next one, or COMMIT.
NextParlay(r, q) ==
  /\ todo' = [todo EXCEPT ![r] = @ \ {q}]
  /\ seen' = [seen EXCEPT ![r] = NoParlay]
  /\ Goto(r, IF todo[r] = {q} THEN "commit" ELSE "readParlay")

\* The parlays come in no particular order.  get_parlay reads the row of the parlay ...
ReadParlay(r) ==
  /\ pc[r] = "readParlay"
  /\ \E q \in todo[r] :
       /\ seen' = [seen EXCEPT ![r] = q]
       /\ Goto(r, IF parlay[q] = "pending" THEN "readLegs" ELSE "passLegs")
  /\ UNCHANGED <<locks, todo, known, verdict>>

\* ... and then its legs.  The session holds the pick it settles and, through the parlay
\* looked at before, the legs of that one: those are not read again.
LegStatus(r, p) ==
  CASE p = job[r].pick -> job[r].target
    [] p # job[r].pick /\ known[r][p] # "unread" -> known[r][p]
    [] OTHER -> pick[p]

Holding(r, q) ==
  known' = [known EXCEPT ![r] =
              [p \in Picks |-> IF p \in legs[q] THEN LegStatus(r, p) ELSE "unread"]]

\* Mutants: void legs make the parlay void; one lost leg is enough,
\* whatever is pending.
VerdictOfVoid(statuses) ==
  IF "pending" \in statuses THEN "pending"
  ELSE IF "void" \in statuses THEN "void"
  ELSE IF statuses \subseteq {"won"} THEN "won"
  ELSE IF "lost" \in statuses THEN "lost" ELSE "pending"
VerdictAtOnce(statuses) ==
  IF "lost" \in statuses THEN "lost"
  ELSE IF statuses \subseteq {"won"} THEN "won" ELSE "pending"

\* All won, some lost, or no verdict: a leg pending, or pushed and void legs among the won.
Verdict(statuses) ==
  IF "pending" \in statuses THEN "pending"
  ELSE IF statuses \subseteq {"won"} THEN "won"
  ELSE IF "lost" \in statuses THEN "lost" ELSE "pending"

\* A parlay that is resolved is passed over, its legs in the session all the same.
PassLegs(r) ==
  /\ pc[r] = "passLegs"
  /\ Holding(r, seen[r])
  /\ NextParlay(r, seen[r])
  /\ UNCHANGED <<locks, verdict>>

ReadLegs(r) ==
  LET q == seen[r]
      v == Verdict({LegStatus(r, p) : p \in legs[q]})
  IN /\ pc[r] = "readLegs"
     /\ Holding(r, q)
     /\ IF v = "pending"
        THEN NextParlay(r, q) /\ UNCHANGED verdict
        ELSE /\ verdict' = [verdict EXCEPT ![r][q] = v]
             /\ Goto(r, "update")
             /\ UNCHANGED <<todo, seen>>
     /\ UNCHANGED locks

\* The UPDATE waits for the row lock and asks for no status.
UpdateParlay(r) ==
  LET q == seen[r]
  IN /\ pc[r] = "update"
     /\ parlayLock[q] \in {NoRequest, r}
     /\ parlayLock' = [parlayLock EXCEPT ![q] = r]
     /\ NextParlay(r, q)
     /\ UNCHANGED <<pickLock, keyShare, known, verdict>>

-----------------------------------------------------------------------------
\* COMMIT, failures, and PostgreSQL's deadlock detector

Commit(r) ==
  /\ pc[r] = "commit"
  /\ pick' = IF Settles(r) THEN [pick EXCEPT ![job[r].pick] = job[r].target] ELSE pick
  /\ parlay' = [q \in ParlayIds |->
                  IF job[r].op = "group" /\ q = job[r].parlay THEN "pending"
                  ELSE IF verdict[r][q] # "none" THEN verdict[r][q] ELSE parlay[q]]
  /\ legs' = IF job[r].op = "group" THEN [legs EXCEPT ![job[r].parlay] = job[r].legs] ELSE legs
  /\ End(r)

Abort(r) == outage /\ pc[r] \in InFlight /\ Leave(r)

\* What makes requests fail is over.
Recover == outage' = FALSE /\ UNCHANGED <<tables, locks, txns>>

\* Two resolves that update the same two parlays in opposite orders wait for each other;
\* one of them is made to fail.
WaitsFor(r, s) == pc[r] = "update" /\ parlayLock[seen[r]] = s
DeadlockVictim(r) ==
  /\ \E s \in Requests \ {r} : WaitsFor(r, s) /\ WaitsFor(s, r)
  /\ Leave(r)

Step(r) ==
  \/ InsertLeg(r) \/ LockPick(r) \/ ReadLinks(r) \/ ReadParlay(r)
  \/ PassLegs(r) \/ ReadLegs(r) \/ UpdateParlay(r) \/ Commit(r) \/ DeadlockVictim(r)

\* No request in flight.
Idle == (\A r \in Requests : pc[r] = "idle") /\ UNCHANGED vars

BeginAny(r) == BeginGroup(r) \/ BeginResolve(r) \/ BeginDelete(r) \/ BeginReject(r)

Next ==
  \/ Idle
  \/ Recover
  \/ \E r \in Requests : (BeginAny(r) \/ Step(r) \/ Abort(r)) /\ UNCHANGED outage

Spec == Init /\ [][Next]_vars

\* A client that is not sure of an answer sends the result of its pick again.
Retry(p) == \E r \in Requests : ResolveOf(r, p, pick[p])

\* The server runs every handler it has begun; PostgreSQL serves the waiters of a lock in
\* turn, so one that waits gets it however many come after.
ServedSpec == Spec /\ \A r \in Requests : SF_vars(Step(r) /\ UNCHANGED outage)

\* Retries go on for ever, and what makes them fail does not.
FairSpec ==
  /\ ServedSpec
  /\ \A p \in Picks : SF_vars(Settled(p) /\ Retry(p) /\ UNCHANGED outage)
  /\ WF_vars(Recover)

-----------------------------------------------------------------------------
\* Properties

TypeOK ==
  /\ pick \in [Picks -> Status]
  /\ parlay \in [ParlayIds -> ParlayStatus \cup {"absent"}]
  /\ legs \in [ParlayIds -> SUBSET Picks]
  /\ pickLock \in [Picks -> Requests \cup {NoRequest}]
  /\ keyShare \in [Picks -> SUBSET Requests]
  /\ parlayLock \in [ParlayIds -> Requests \cup {NoRequest}]
  /\ pc \in [Requests -> InFlight \cup {"idle"}]
  /\ job \in [Requests -> Job]
  /\ todo \in [Requests -> SUBSET (Picks \cup ParlayIds)]
  /\ seen \in [Requests -> ParlayIds \cup {NoParlay}]
  /\ known \in [Requests -> [Picks -> Status \cup {"unread"}]]
  /\ verdict \in [Requests -> [ParlayIds -> {"won", "lost", "none"}]]
  /\ outage \in BOOLEAN

Resolved(q) == parlay[q] \in {"won", "lost"}
LegsVerdict(q) == Verdict({pick[p] : p \in legs[q]})

\* Whatever legs settle, are deleted or rejected at the same time, a parlay is won only when
\* all its legs are, and lost only when none is pending and one is lost.
ResolvedAsLegs ==
  \A q \in ParlayIds :
    /\ parlay[q] = "won" => \A p \in legs[q] : pick[p] = "won"
    /\ parlay[q] = "lost" => /\ \A p \in legs[q] : Settled(p)
                            /\ \E p \in legs[q] : pick[p] = "lost"

\* Two requests that both resolve a parlay agree: its result never changes, and neither do
\* its legs once it exists.
ResolvedForGood ==
  [][\A q \in ParlayIds :
       /\ Resolved(q) => parlay'[q] = parlay[q]
       /\ parlay[q] # "absent" => parlay'[q] # "absent" /\ legs'[q] = legs[q]]_vars

\* A pick may be settled while a parlay is being made of it, never between the insertion of
\* its parlay_picks row and the commit of the parlay: the key share holds it.
LegsHeldToCommit ==
  [][\A r \in Requests, p \in Picks :
       r \in keyShare[p] => pick'[p] = pick[p]]_vars

\* A parlay missed by the resolves that settled its last legs is resolved by a retry of the
\* result of any leg, which settles nothing and still looks at the parlays.
RetryResolves ==
  \A q \in ParlayIds :
    (parlay[q] = "pending" /\ LegsVerdict(q) # "pending") ~> Resolved(q)

\* When all the picks of a parlay are resolved, the parlay is resolved: the step that leaves
\* no leg pending, with legs that decide the parlay.
LastLegResolves ==
  [][\A q \in ParlayIds :
       (/\ parlay[q] = "pending"
        /\ "pending" \in {pick[p] : p \in legs[q]}
        /\ LegsVerdict(q)' # "pending") => Resolved(q)']_vars
=============================================================================

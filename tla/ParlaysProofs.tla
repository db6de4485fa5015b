---------------------------- MODULE ParlaysProofs ----------------------------
(***************************************************************************)
(* Theorems about Parlays, for every set of requests, picks, matches and   *)
(* parlays and every choice of operations: whatever settles while parlays  *)
(* are made and resolved, a resolved parlay has the result its legs give,  *)
(* and keeps it.                                                           *)
(***************************************************************************)
EXTENDS Parlays, TLAPS

-----------------------------------------------------------------------------
\* The inductive invariant

\* Statements at which a settling request holds the row lock of its pick.
PastLock == {"readLinks", "readParlay", "readLegs", "passLegs", "update", "commit"}
Looking == {"readLegs", "passLegs", "update"}

\* The status of a pick as the settlement of r leaves it.
Now(r, p) == IF p = job[r].pick THEN job[r].target ELSE pick[p]

\* The statuses of the legs of q, as r leaves them, give the result v.
Decides(r, q, v) ==
  /\ v = "won" => \A p \in legs[q] : Now(r, p) = "won"
  /\ v = "lost" => /\ \A p \in legs[q] : Now(r, p) \in Outcomes
                   /\ \E p \in legs[q] : Now(r, p) = "lost"

Existing == {q \in ParlayIds : parlay[q] # "absent"}

\* What a request has established stays true while it needs it: its pick is as it found
\* it, its new parlay is its own, what its session holds of settled picks is right, and so
\* is every result it has flushed.
Own(r) ==
  /\ job[r].op = "none" => pc[r] = "idle"
  /\ job[r].op = "group" =>
       /\ pc[r] \in {"insertLegs", "commit"}
       /\ job[r].parlay \in ParlayIds
       /\ parlay[job[r].parlay] = "absent"
       /\ parlayLock[job[r].parlay] = r
  /\ Settles(r) =>
       /\ pc[r] \in PastLock \cup {"lockPick"}
       /\ job[r].pick \in Picks
       /\ pc[r] \in PastLock => /\ pickLock[job[r].pick] = r
                                /\ pick[job[r].pick] \in {"pending", job[r].target}
  /\ pc[r] = "readParlay" \/ pc[r] \in Looking => todo[r] \subseteq Existing
  /\ pc[r] \in Looking => seen[r] \in Existing
  /\ \A p \in Picks : known[r][p] \in Outcomes => pc[r] \in PastLock /\ Now(r, p) = known[r][p]
  /\ \A q \in ParlayIds :
       verdict[r][q] # "none" =>
         /\ Settles(r) /\ pc[r] \in PastLock
         /\ parlay[q] # "absent"
         /\ Decides(r, q, verdict[r][q])

NoLegs == \A q \in ParlayIds : parlay[q] = "absent" => legs[q] = {}

\* FOR UPDATE and FOR KEY SHARE of a pick exclude each other.
Exclusive == \A p \in Picks : pickLock[p] = NoRequest \/ keyShare[p] = {}

IInv == TypeOK /\ NoLegs /\ Exclusive /\ ResolvedAsLegs /\ \A r \in Requests : Own(r)

-----------------------------------------------------------------------------
\* Types

\* Everything a request may do, its beginnings and its failure included.
Move(r) == BeginAny(r) \/ Step(r) \/ Abort(r)

\* The values of an idle request are well typed.
LEMMA IdleTyped ==
  /\ NoJob \in Job
  /\ NoVerdict \in [ParlayIds -> {"won", "lost", "none"}]
  /\ NothingKnown \in [Picks -> Status \cup {"unread"}]
BY DEF NoJob, Job, Outcomes, NoVerdict, NothingKnown

\* At the start every pick is pending and no request is in flight.
LEMMA InitIInv == Init => IInv
<1> SUFFICES ASSUME Init PROVE IInv
  OBVIOUS
<1>1. TypeOK
  BY IdleTyped DEF Init, TypeOK, Status, ParlayStatus
<1>2. NoLegs /\ Exclusive /\ ResolvedAsLegs
  BY DEF Init, NoLegs, Exclusive, ResolvedAsLegs
<1>3. ASSUME NEW r \in Requests
      PROVE  Own(r)
  BY DEF Init, Own, NoJob, Settles, NoVerdict, NothingKnown, Looking, PastLock, Outcomes
<1> QED
  BY <1>1, <1>2, <1>3 DEF IInv

\* Ending a transaction keeps locks and transactions typed.
LEMMA EndTyped ==
  ASSUME TypeOK, NEW r \in Requests, End(r), UNCHANGED outage,
         pick' \in [Picks -> Status],
         parlay' \in [ParlayIds -> ParlayStatus \cup {"absent"}],
         legs' \in [ParlayIds -> SUBSET Picks]
  PROVE  TypeOK'
<1>1. /\ pickLock' \in [Picks -> Requests \cup {NoRequest}]
      /\ keyShare' \in [Picks -> SUBSET Requests]
      /\ parlayLock' \in [ParlayIds -> Requests \cup {NoRequest}]
  <2>1. \A q \in ParlayIds : NextHolder(r, q) \in Requests \cup {NoRequest}
    BY DEF NextHolder, Waiting
  <2> QED
    BY <2>1 DEF TypeOK, End
<1>2. /\ pc' \in [Requests -> InFlight \cup {"idle"}]
      /\ job' \in [Requests -> Job]
      /\ todo' \in [Requests -> SUBSET (Picks \cup ParlayIds)]
      /\ seen' \in [Requests -> ParlayIds \cup {NoParlay}]
      /\ known' \in [Requests -> [Picks -> Status \cup {"unread"}]]
      /\ verdict' \in [Requests -> [ParlayIds -> {"won", "lost", "none"}]]
  BY IdleTyped DEF TypeOK, End
<1> QED
  BY <1>1, <1>2 DEF TypeOK

\* A rollback or a no-op too.
LEMMA LeaveTyped ==
  ASSUME TypeOK, NEW r \in Requests, Leave(r), UNCHANGED outage
  PROVE  TypeOK'
BY EndTyped DEF Leave, tables, TypeOK

\* Every move keeps the types.
LEMMA MoveTyped ==
  ASSUME IInv, NEW r \in Requests, Move(r), UNCHANGED outage
  PROVE  TypeOK'
<1> USE DEF IInv
<1>1. CASE BeginGroup(r)
  <2>1. PICK q \in ParlayIds, L \in SUBSET Picks :
          /\ Begin(r, [NoJob EXCEPT !.op = "group", !.parlay = q, !.legs = L], "insertLegs")
          /\ todo' = [todo EXCEPT ![r] = L]
          /\ parlayLock' = [parlayLock EXCEPT ![q] = r]
          /\ UNCHANGED <<pickLock, keyShare>>
    BY <1>1 DEF BeginGroup
  <2>2. [NoJob EXCEPT !.op = "group", !.parlay = q, !.legs = L] \in Job
    BY DEF NoJob, Job, Outcomes
  <2>3. "insertLegs" \in InFlight
    BY DEF InFlight
  <2> QED
    BY <2>1, <2>2, <2>3 DEF Begin, TypeOK, tables
<1>2. ASSUME NEW p \in Picks, NEW t \in Outcomes, ResolveOf(r, p, t)
      PROVE  TypeOK'
  <2>1. [NoJob EXCEPT !.op = "resolve", !.pick = p, !.target = t] \in Job
    BY DEF NoJob, Job
  <2> QED
    BY <1>2, <2>1 DEF ResolveOf, Begin, TypeOK, tables, locks, InFlight
<1>3. CASE BeginResolve(r)
  BY <1>2, <1>3, ParlayAssumption DEF BeginResolve, Outcomes
<1>4. CASE BeginDelete(r)
  <2>1. PICK p \in Picks :
          /\ Begin(r, [NoJob EXCEPT !.op = "delete", !.pick = p], "lockPick")
          /\ UNCHANGED <<todo, locks>>
    BY <1>4 DEF BeginDelete
  <2>2. [NoJob EXCEPT !.op = "delete", !.pick = p] \in Job
    BY DEF NoJob, Job, Outcomes
  <2> QED
    BY <2>1, <2>2 DEF Begin, TypeOK, tables, locks, InFlight
<1>5. CASE BeginReject(r)
  <2>1. PICK p \in Picks :
          /\ Begin(r, [NoJob EXCEPT !.op = "reject", !.pick = p], "lockPick")
          /\ UNCHANGED <<todo, locks>>
    BY <1>5 DEF BeginReject
  <2>2. [NoJob EXCEPT !.op = "reject", !.pick = p] \in Job
    BY DEF NoJob, Job, Outcomes
  <2> QED
    BY <2>1, <2>2 DEF Begin, TypeOK, tables, locks, InFlight
<1>6. CASE InsertLeg(r)
  <2>1. PICK p \in todo[r] :
          /\ keyShare' = [keyShare EXCEPT ![p] = @ \cup {r}]
          /\ todo' = [todo EXCEPT ![r] = @ \ {p}]
          /\ Goto(r, IF todo[r] = {p} THEN "commit" ELSE "insertLegs")
    BY <1>6 DEF InsertLeg
  <2>2. UNCHANGED <<pickLock, parlayLock, seen, known, verdict>>
    BY <1>6 DEF InsertLeg
  <2>3. keyShare' \in [Picks -> SUBSET Requests]
    BY <2>1 DEF TypeOK
  <2>4. todo' \in [Requests -> SUBSET (Picks \cup ParlayIds)]
    BY <2>1 DEF TypeOK
  <2>5. pc' \in [Requests -> InFlight \cup {"idle"}]
    BY <2>1 DEF TypeOK, Goto, InFlight
  <2> QED
    BY <2>1, <2>2, <2>3, <2>4, <2>5 DEF Goto, TypeOK, tables
<1>7. CASE LockPick(r)
  <2>1. CASE Leave(r)
    BY <2>1, LeaveTyped
  <2>2. CASE ~Leave(r)
    <3>1. job[r].pick \in Picks
      BY <1>7 DEF LockPick, Own, PastLock, Looking, Settles, TypeOK, Job
    <3> QED
      BY <1>7, <2>2, <3>1 DEF LockPick, Goto, TypeOK, tables, InFlight
  <2> QED
    BY <2>1, <2>2
<1>8. CASE ReadLinks(r)
  BY <1>8 DEF ReadLinks, Goto, TypeOK, tables, locks, InFlight
<1>9. CASE ReadParlay(r)
  <2>1. todo[r] \subseteq ParlayIds
    BY <1>9 DEF ReadParlay, Own, Existing
  <2> QED
    BY <1>9, <2>1 DEF ReadParlay, Goto, TypeOK, tables, locks, InFlight
<1>10. ASSUME NEW q \in ParlayIds, Holding(r, q)
       PROVE  known' \in [Requests -> [Picks -> Status \cup {"unread"}]]
  <2>1. \A p \in Picks : LegStatus(r, p) \in Status \cup {"unread"}
    BY DEF LegStatus, TypeOK, Job, Status
  <2> QED
    BY <1>10, <2>1 DEF Holding, TypeOK
<1>11. CASE PassLegs(r)
  <2>1. seen[r] \in ParlayIds
    BY <1>11 DEF PassLegs, Own, Looking, Existing
  <2> QED
    BY <1>10, <1>11, <2>1 DEF PassLegs, NextParlay, Goto, TypeOK, tables, locks, InFlight
<1>12. CASE ReadLegs(r)
  <2>1. seen[r] \in ParlayIds
    BY <1>12 DEF ReadLegs, Own, Looking, Existing
  <2> DEFINE v == Verdict({LegStatus(r, p) : p \in legs[seen[r]]})
  <2>2. v \in {"pending", "won", "lost"}
    BY DEF Verdict
  <2> HIDE DEF v
  <2>3. known' \in [Requests -> [Picks -> Status \cup {"unread"}]]
    BY <1>10, <1>12, <2>1 DEF ReadLegs
  <2>4. CASE v = "pending"
    <3>1. NextParlay(r, seen[r]) /\ UNCHANGED verdict /\ UNCHANGED locks
      BY <1>12, <2>4 DEF v, ReadLegs
    <3> QED
      BY <2>1, <2>3, <3>1 DEF NextParlay, Goto, TypeOK, tables, locks, InFlight
  <2>5. CASE v # "pending"
    <3>1. /\ verdict' = [verdict EXCEPT ![r][seen[r]] = v]
          /\ Goto(r, "update")
          /\ UNCHANGED <<todo, seen>>
          /\ UNCHANGED locks
      BY <1>12, <2>5 DEF v, ReadLegs
    <3>2. verdict' \in [Requests -> [ParlayIds -> {"won", "lost", "none"}]]
      BY <2>1, <2>2, <2>5, <3>1 DEF TypeOK
    <3> QED
      BY <2>3, <3>1, <3>2 DEF Goto, TypeOK, tables, locks, InFlight
  <2> QED
    BY <2>4, <2>5
<1>13. CASE UpdateParlay(r)
  BY <1>13 DEF UpdateParlay, NextParlay, Goto, TypeOK, tables, InFlight
<1>14. CASE Commit(r)
  <2>1. pick' \in [Picks -> Status]
    BY <1>14 DEF Commit, TypeOK, Job, Status
  <2>2. parlay' \in [ParlayIds -> ParlayStatus \cup {"absent"}]
    BY <1>14 DEF Commit, TypeOK, ParlayStatus
  <2>3. legs' \in [ParlayIds -> SUBSET Picks]
    BY <1>14 DEF Commit, TypeOK, Job
  <2> QED
    BY <1>14, <2>1, <2>2, <2>3, EndTyped DEF Commit
<1>15. CASE DeadlockVictim(r)
  BY <1>15, LeaveTyped DEF DeadlockVictim
<1>16. CASE Abort(r)
  BY <1>16, LeaveTyped DEF Abort
<1> QED
  BY <1>1, <1>3, <1>4, <1>5, <1>6, <1>7, <1>8, <1>9, <1>11, <1>12, <1>13, <1>14, <1>15, <1>16
     DEF Move, BeginAny, Step

-----------------------------------------------------------------------------
\* What a move leaves alone

\* A request in flight asks for something, of one kind or the other.
LEMMA Kinds ==
  ASSUME IInv, NEW r \in Requests
  PROVE  /\ job[r].op = "none" \/ job[r].op = "group" \/ Settles(r)
         /\ pc[r] = "insertLegs" => job[r].op = "group"
         /\ pc[r] \in {"lockPick", "readLinks", "readParlay", "readLegs", "passLegs", "update"} => Settles(r)
<1>1. job[r].op = "none" \/ job[r].op = "group" \/ Settles(r)
  BY DEF IInv, TypeOK, Job, Settles
<1>2. Own(r)
  BY DEF IInv
<1> QED
  BY <1>1, <1>2 DEF Own, PastLock

\* Another request keeps what it has of its own.
LEMMA OthersKeep ==
  ASSUME IInv, NEW r \in Requests, Move(r), NEW s \in Requests, s # r
  PROVE  /\ pc'[s] = pc[s] /\ job'[s] = job[s] /\ todo'[s] = todo[s]
         /\ seen'[s] = seen[s] /\ known'[s] = known[s] /\ verdict'[s] = verdict[s]
<1> DEFINE Kept ==
      /\ pc'[s] = pc[s] /\ job'[s] = job[s] /\ todo'[s] = todo[s]
      /\ seen'[s] = seen[s] /\ known'[s] = known[s] /\ verdict'[s] = verdict[s]
<1>t. TypeOK
  BY DEF IInv
<1>1. ASSUME End(r)
      PROVE  Kept
  BY <1>1, <1>t DEF End, TypeOK
<1>2. CASE BeginAny(r)
  <2>1. ASSUME NEW j, NEW at, Begin(r, j, at), todo'[s] = todo[s]
        PROVE  Kept
    BY <2>1, <1>t DEF Begin, TypeOK
  <2>2. CASE BeginGroup(r)
    <3>1. PICK L : todo' = [todo EXCEPT ![r] = L]
      BY <2>2 DEF BeginGroup
    <3>2. todo'[s] = todo[s]
      BY <3>1, <1>t DEF TypeOK
    <3> QED
      BY <2>1, <2>2, <3>2 DEF BeginGroup
  <2>3. CASE BeginResolve(r)
    BY <2>1, <2>3 DEF BeginResolve, ResolveOf
  <2>4. CASE BeginDelete(r)
    BY <2>1, <2>4 DEF BeginDelete
  <2>5. CASE BeginReject(r)
    BY <2>1, <2>5 DEF BeginReject
  <2> QED
    BY <1>2, <2>2, <2>3, <2>4, <2>5 DEF BeginAny
<1>3. CASE InsertLeg(r) \/ ReadLinks(r) \/ UpdateParlay(r)
  BY <1>3, <1>t DEF InsertLeg, ReadLinks, UpdateParlay, NextParlay, Goto, TypeOK
<1>4. CASE LockPick(r)
  BY <1>1, <1>4, <1>t DEF LockPick, Leave, Goto, TypeOK
<1>5. CASE ReadParlay(r) \/ PassLegs(r)
  BY <1>5, <1>t DEF ReadParlay, PassLegs, Holding, NextParlay, Goto, TypeOK
<1>6. CASE ReadLegs(r)
  <2>1. Holding(r, seen[r])
    BY <1>6 DEF ReadLegs
  <2>2. \/ NextParlay(r, seen[r]) /\ UNCHANGED verdict
        \/ /\ \E v : verdict' = [verdict EXCEPT ![r][seen[r]] = v]
           /\ Goto(r, "update")
           /\ UNCHANGED <<todo, seen>>
    BY <1>6 DEF ReadLegs
  <2> QED
    BY <2>1, <2>2, <1>t DEF Holding, NextParlay, Goto, TypeOK
<1>7. CASE Commit(r) \/ DeadlockVictim(r) \/ Abort(r)
  BY <1>1, <1>7 DEF Commit, DeadlockVictim, Abort, Leave
<1> QED
  BY <1>2, <1>3, <1>4, <1>5, <1>6, <1>7 DEF Move, Step

\* Only a commit writes to the tables.
LEMMA TablesKeep ==
  ASSUME NEW r \in Requests, Move(r), ~Commit(r)
  PROVE  UNCHANGED tables
<1>1. CASE BeginAny(r)
  BY <1>1 DEF BeginAny, BeginGroup, BeginResolve, ResolveOf, BeginDelete, BeginReject, Begin
<1>2. CASE InsertLeg(r) \/ ReadLinks(r) \/ UpdateParlay(r) \/ ReadParlay(r) \/ PassLegs(r)
  BY <1>2 DEF InsertLeg, ReadLinks, UpdateParlay, ReadParlay, PassLegs, NextParlay, Goto
<1>3. CASE LockPick(r) \/ DeadlockVictim(r) \/ Abort(r)
  BY <1>3 DEF LockPick, DeadlockVictim, Abort, Leave, Goto
<1>4. CASE ReadLegs(r)
  BY <1>4 DEF ReadLegs, NextParlay, Goto
<1> QED
  BY <1>1, <1>2, <1>3, <1>4 DEF Move, Step

\* A commit settles the pick of its request and nothing else, makes the parlay of a group
\* exist, and gives the others the results flushed for them.
LEMMA CommitEffect ==
  ASSUME IInv, NEW r \in Requests, Commit(r)
  PROVE  /\ Settles(r) => \A p \in Picks : pick'[p] = Now(r, p)
         /\ ~Settles(r) => pick' = pick
         /\ \A q \in ParlayIds :
              \/ parlay'[q] = parlay[q] /\ legs'[q] = legs[q]
              \/ /\ job[r].op = "group" /\ q = job[r].parlay
                 /\ parlay[q] = "absent" /\ parlay'[q] = "pending" /\ parlayLock[q] = r
              \/ /\ verdict[r][q] # "none" /\ parlay'[q] = verdict[r][q]
                 /\ parlay[q] # "absent" /\ legs'[q] = legs[q]
<1>t. TypeOK /\ Own(r) /\ pc[r] = "commit"
  BY DEF IInv, Commit
<1>1. ASSUME Settles(r)
      PROVE  \A p \in Picks : pick'[p] = Now(r, p)
  <2>1. job[r].pick \in Picks
    BY <1>1, <1>t DEF Own
  <2> QED
    BY <1>1, <1>t, <2>1 DEF Commit, Now, TypeOK
<1>2. ~Settles(r) => pick' = pick
  BY DEF Commit
<1>3. ASSUME NEW q \in ParlayIds
      PROVE  \/ parlay'[q] = parlay[q] /\ legs'[q] = legs[q]
             \/ /\ job[r].op = "group" /\ q = job[r].parlay
                /\ parlay[q] = "absent" /\ parlay'[q] = "pending" /\ parlayLock[q] = r
             \/ /\ verdict[r][q] # "none" /\ parlay'[q] = verdict[r][q]
                /\ parlay[q] # "absent" /\ legs'[q] = legs[q]
  <2>1. CASE job[r].op = "group"
    <3>1. ~Settles(r)
      BY <2>1 DEF Settles
    <3>2. verdict[r][q] = "none"
      BY <1>t, <3>1 DEF Own
    <3> QED
      BY <1>t, <2>1, <3>2 DEF Commit, Own, TypeOK
  <2>2. CASE job[r].op # "group"
    BY <1>t, <2>2 DEF Commit, Own, TypeOK
  <2> QED
    BY <2>1, <2>2
<1> QED
  BY <1>1, <1>2, <1>3

\* A settled pick stays as it is, and so does one that another request has locked; parlays
\* keep their legs, and a parlay that another request is making stays absent.
LEMMA Frame ==
  ASSUME IInv, NEW r \in Requests, Move(r)
  PROVE  /\ \A p \in Picks : Settled(p) => pick'[p] = pick[p]
         /\ \A p \in Picks : pickLock[p] # r => pick'[p] = pick[p]
         /\ \A q \in ParlayIds : parlay[q] # "absent" => parlay'[q] # "absent" /\ legs'[q] = legs[q]
         /\ \A q \in ParlayIds : parlayLock[q] # r /\ parlay[q] = "absent" => parlay'[q] = "absent"
<1>1. CASE ~Commit(r)
  BY <1>1, TablesKeep DEF tables
<1>2. CASE Commit(r)
  <2>t. Own(r) /\ pc[r] = "commit"
    BY <1>2 DEF IInv, Commit
  <2>1. ASSUME NEW p \in Picks, Settled(p) \/ pickLock[p] # r
        PROVE  pick'[p] = pick[p]
    <3>1. CASE Settles(r)
      <4>1. /\ pickLock[job[r].pick] = r
            /\ pick[job[r].pick] \in {"pending", job[r].target}
        BY <2>t, <3>1 DEF Own, PastLock
      <4>2. pick'[p] = Now(r, p)
        BY <1>2, <3>1, CommitEffect
      <4> QED
        BY <2>1, <4>1, <4>2 DEF Now, Settled
    <3>2. CASE ~Settles(r)
      BY <1>2, <3>2, CommitEffect
    <3> QED
      BY <3>1, <3>2
  <2>2. ASSUME NEW q \in ParlayIds, parlay[q] # "absent"
        PROVE  parlay'[q] # "absent" /\ legs'[q] = legs[q]
    <3>1. verdict[r][q] \in {"won", "lost", "none"}
      BY DEF IInv, TypeOK
    <3> QED
      BY <1>2, <2>2, <3>1, CommitEffect
  <2>3. ASSUME NEW q \in ParlayIds, parlayLock[q] # r, parlay[q] = "absent"
        PROVE  parlay'[q] = "absent"
    BY <1>2, <2>3, CommitEffect
  <2> QED
    BY <2>1, <2>2, <2>3
<1> QED
  BY <1>1, <1>2

\* A lock that another request holds stays with it.
LEMMA LocksKeep ==
  ASSUME IInv, NEW r \in Requests, Move(r)
  PROVE  /\ \A p \in Picks : pickLock[p] \notin {r, NoRequest} => pickLock'[p] = pickLock[p]
         /\ \A q \in ParlayIds : parlayLock[q] \notin {r, NoRequest} => parlayLock'[q] = parlayLock[q]
<1>t. TypeOK
  BY DEF IInv
<1>1. ASSUME End(r)
      PROVE  /\ \A p \in Picks : pickLock[p] \notin {r, NoRequest} => pickLock'[p] = pickLock[p]
             /\ \A q \in ParlayIds : parlayLock[q] \notin {r, NoRequest} => parlayLock'[q] = parlayLock[q]
  BY <1>1 DEF End
<1>2. CASE BeginAny(r)
  BY <1>2, <1>t DEF BeginAny, BeginGroup, BeginResolve, ResolveOf, BeginDelete, BeginReject,
                    locks, TypeOK
<1>3. CASE InsertLeg(r) \/ ReadLinks(r) \/ ReadParlay(r) \/ PassLegs(r) \/ ReadLegs(r)
  BY <1>3 DEF InsertLeg, ReadLinks, ReadParlay, PassLegs, ReadLegs, locks
<1>4. CASE UpdateParlay(r)
  BY <1>4, <1>t DEF UpdateParlay, TypeOK
<1>5. CASE LockPick(r)
  <2>1. CASE Leave(r)
    BY <1>1, <2>1 DEF Leave
  <2>2. CASE ~Leave(r)
    BY <1>5, <1>t, <2>2 DEF LockPick, RowFree, TypeOK
  <2> QED
    BY <2>1, <2>2
<1>6. CASE Commit(r) \/ DeadlockVictim(r) \/ Abort(r)
  BY <1>1, <1>6 DEF Commit, DeadlockVictim, Abort, Leave
<1> QED
  BY <1>2, <1>3, <1>4, <1>5, <1>6 DEF Move, Step

-----------------------------------------------------------------------------
\* What a request has established survives the moves of the others ...

LEMMA OthersOwn ==
  ASSUME IInv, NEW r \in Requests, Move(r), NEW s \in Requests, s # r
  PROVE  Own(s)'
<1>k. /\ pc'[s] = pc[s] /\ job'[s] = job[s] /\ todo'[s] = todo[s]
      /\ seen'[s] = seen[s] /\ known'[s] = known[s] /\ verdict'[s] = verdict[s]
  BY OthersKeep
<1>t. Own(s) /\ TypeOK
  BY DEF IInv
<1>n. s # NoRequest
  BY ParlayAssumption
<1>a. Settles(s)' <=> Settles(s)
  BY <1>k DEF Settles
<1>b. Existing \subseteq Existing'
  BY Frame DEF Existing
<1>1. job[s].op = "none" => pc[s] = "idle"
  BY <1>t DEF Own
<1>2. job[s].op = "group" =>
        /\ pc[s] \in {"insertLegs", "commit"}
        /\ job[s].parlay \in ParlayIds
        /\ parlay'[job[s].parlay] = "absent"
        /\ parlayLock'[job[s].parlay] = s
  BY <1>t, <1>n, Frame, LocksKeep DEF Own
<1>3. Settles(s) =>
        /\ pc[s] \in PastLock \cup {"lockPick"}
        /\ job[s].pick \in Picks
        /\ pc[s] \in PastLock => /\ pickLock'[job[s].pick] = s
                                 /\ pick'[job[s].pick] \in {"pending", job[s].target}
  <2> SUFFICES ASSUME Settles(s)
               PROVE  /\ pc[s] \in PastLock \cup {"lockPick"}
                      /\ job[s].pick \in Picks
                      /\ pc[s] \in PastLock => /\ pickLock'[job[s].pick] = s
                                               /\ pick'[job[s].pick] \in {"pending", job[s].target}
    OBVIOUS
  <2>1. /\ pc[s] \in PastLock \cup {"lockPick"}
        /\ job[s].pick \in Picks
        /\ pc[s] \in PastLock => /\ pickLock[job[s].pick] = s
                                 /\ pick[job[s].pick] \in {"pending", job[s].target}
    BY <1>t DEF Own
  <2>2. pickLock[job[s].pick] = s => pick'[job[s].pick] = pick[job[s].pick]
    BY <2>1, Frame
  <2>3. pickLock[job[s].pick] = s => pickLock'[job[s].pick] = s
    BY <1>n, <2>1, LocksKeep
  <2> QED
    BY <2>1, <2>2, <2>3
<1>4. /\ pc[s] = "readParlay" \/ pc[s] \in Looking => todo[s] \subseteq Existing
      /\ pc[s] \in Looking => seen[s] \in Existing
  BY <1>t DEF Own
<1>5. ASSUME NEW p \in Picks, Now(s, p) \in Outcomes
      PROVE  Now(s, p)' = Now(s, p)
  <2>1. CASE p = job[s].pick
    BY <1>k, <2>1 DEF Now
  <2>2. CASE p # job[s].pick
    <3>1. Settled(p)
      BY <1>5, <2>2 DEF Now, Settled, Outcomes
    <3> QED
      BY <1>k, <2>2, <3>1, Frame DEF Now
  <2> QED
    BY <2>1, <2>2
<1>6. ASSUME NEW p \in Picks, known[s][p] \in Outcomes
      PROVE  pc[s] \in PastLock /\ Now(s, p)' = known[s][p]
  BY <1>5, <1>6, <1>t DEF Own
<1>7. ASSUME NEW q \in ParlayIds, verdict[s][q] # "none"
      PROVE  /\ Settles(s) /\ pc[s] \in PastLock
             /\ parlay'[q] # "absent"
             /\ Decides(s, q, verdict[s][q])'
  <2>1. /\ Settles(s) /\ pc[s] \in PastLock
        /\ parlay[q] # "absent"
        /\ Decides(s, q, verdict[s][q])
    BY <1>7, <1>t DEF Own
  <2>2. parlay'[q] # "absent" /\ legs'[q] = legs[q] /\ legs[q] \subseteq Picks
    BY <2>1, <1>t, Frame DEF TypeOK
  <2>3. \A p \in legs[q] : Now(s, p) \in Outcomes => Now(s, p)' = Now(s, p)
    BY <1>5, <2>2
  <2>4. Decides(s, q, verdict[s][q])'
    BY <1>k, <2>1, <2>2, <2>3 DEF Decides, Outcomes
  <2> QED
    BY <2>1, <2>2, <2>4
<1> QED
  BY <1>k, <1>a, <1>b, <1>1, <1>2, <1>3, <1>4, <1>6, <1>7 DEF Own

-----------------------------------------------------------------------------
\* ... and a request establishes it by its own

\* A transaction that has ended has nothing to hold on to.
LEMMA EndOwn ==
  ASSUME TypeOK, NEW r \in Requests, End(r)
  PROVE  Own(r)'
<1>1. /\ pc'[r] = "idle" /\ job'[r] = NoJob /\ known'[r] = NothingKnown /\ verdict'[r] = NoVerdict
  BY DEF End, TypeOK
<1>2. \A p \in Picks : known'[r][p] \notin Outcomes
  BY <1>1 DEF NothingKnown, Outcomes
<1>3. \A q \in ParlayIds : verdict'[r][q] = "none"
  BY <1>1 DEF NoVerdict
<1> QED
  BY <1>1, <1>2, <1>3 DEF Own, NoJob, Settles, Looking

\* Nothing is known and nothing flushed before the row lock of the pick.
LEMMA Blank ==
  ASSUME IInv, NEW r \in Requests, pc[r] \notin PastLock
  PROVE  /\ \A p \in Picks : known[r][p] \notin Outcomes
         /\ \A q \in ParlayIds : verdict[r][q] = "none"
BY DEF IInv, Own

\* What is read of a leg, if settled, is what the leg will be at the commit.
LEMMA LegRead ==
  ASSUME IInv, NEW r \in Requests, NEW p \in Picks, LegStatus(r, p) \in Outcomes
  PROVE  Now(r, p) = LegStatus(r, p)
BY DEF IInv, Own, LegStatus, Now

\* The verdict on statuses of legs.
LEMMA VerdictMeans ==
  ASSUME NEW S
  PROVE  /\ Verdict(S) \in {"pending", "won", "lost"}
         /\ Verdict(S) = "won" => S \subseteq {"won"}
         /\ Verdict(S) = "lost" => "pending" \notin S /\ "lost" \in S
BY DEF Verdict

LEMMA OwnStep ==
  ASSUME IInv, NEW r \in Requests, Move(r)
  PROVE  Own(r)'
<1>t. TypeOK /\ Own(r) /\ NoLegs
  BY DEF IInv
<1>1. ASSUME NEW j \in Job, Begin(r, j, "lockPick"), j.op \in {"resolve", "delete", "reject"}, j.pick \in Picks
      PROVE  Own(r)'
  <2>1. pc[r] \notin PastLock
    BY <1>1 DEF Begin, PastLock
  <2>2. pc'[r] = "lockPick" /\ job'[r] = j /\ known' = known /\ verdict' = verdict
    BY <1>1, <1>t DEF Begin, TypeOK
  <2> QED
    BY <1>1, <2>1, <2>2, Blank DEF Own, Settles, PastLock, Looking
<1>2. CASE BeginGroup(r)
  <2>1. PICK q \in ParlayIds, L \in SUBSET Picks :
          /\ parlay[q] = "absent"
          /\ Begin(r, [NoJob EXCEPT !.op = "group", !.parlay = q, !.legs = L], "insertLegs")
          /\ parlayLock' = [parlayLock EXCEPT ![q] = r]
    BY <1>2 DEF BeginGroup
  <2>2. pc[r] \notin PastLock
    BY <2>1 DEF Begin, PastLock
  <2>3. pc'[r] = "insertLegs" /\ job'[r].op = "group" /\ job'[r].parlay = q
    BY <2>1, <1>t DEF Begin, NoJob, TypeOK
  <2>4. parlay'[q] = "absent" /\ parlayLock'[q] = r /\ known' = known /\ verdict' = verdict
    BY <2>1, <1>t DEF Begin, TypeOK, tables
  <2> QED
    BY <2>2, <2>3, <2>4, Blank DEF Own, Settles, Looking
<1>3. CASE BeginResolve(r)
  <2>1. PICK p \in Picks, t \in Results : ResolveOf(r, p, t)
    BY <1>3 DEF BeginResolve
  <2> DEFINE j == [NoJob EXCEPT !.op = "resolve", !.pick = p, !.target = t]
  <2>2. j \in Job /\ j.op = "resolve" /\ j.pick = p
    BY ParlayAssumption DEF NoJob, Job, Outcomes
  <2> QED
    BY <1>1, <2>1, <2>2 DEF ResolveOf
<1>4. CASE BeginDelete(r)
  <2>1. PICK p \in Picks : Begin(r, [NoJob EXCEPT !.op = "delete", !.pick = p], "lockPick")
    BY <1>4 DEF BeginDelete
  <2> DEFINE j == [NoJob EXCEPT !.op = "delete", !.pick = p]
  <2>2. j \in Job /\ j.op = "delete" /\ j.pick = p
    BY DEF NoJob, Job, Outcomes
  <2> QED
    BY <1>1, <2>1, <2>2
<1>5. CASE BeginReject(r)
  <2>1. PICK p \in Picks : Begin(r, [NoJob EXCEPT !.op = "reject", !.pick = p], "lockPick")
    BY <1>5 DEF BeginReject
  <2> DEFINE j == [NoJob EXCEPT !.op = "reject", !.pick = p]
  <2>2. j \in Job /\ j.op = "reject" /\ j.pick = p
    BY DEF NoJob, Job, Outcomes
  <2> QED
    BY <1>1, <2>1, <2>2
<1>6. CASE InsertLeg(r)
  <2>1. pc[r] = "insertLegs" /\ job[r].op = "group" /\ pc[r] \notin PastLock
    BY <1>6, Kinds DEF InsertLeg, PastLock
  <2>2. pc'[r] \in {"insertLegs", "commit"} /\ UNCHANGED tables /\ job' = job
    BY <1>6, <1>t DEF InsertLeg, Goto, TypeOK
  <2>3. UNCHANGED <<parlayLock, known, verdict>>
    BY <1>6 DEF InsertLeg
  <2> QED
    BY <1>t, <2>1, <2>2, <2>3, Blank DEF Own, Settles, Looking, tables
<1>7. CASE LockPick(r)
  <2>1. CASE Leave(r)
    BY <1>t, <2>1, EndOwn DEF Leave
  <2>2. CASE ~Leave(r)
    <3>1. /\ pc[r] = "lockPick"
          /\ ~(Settled(job[r].pick) /\ pick[job[r].pick] # job[r].target)
          /\ pickLock' = [pickLock EXCEPT ![job[r].pick] = r]
          /\ Goto(r, IF job[r].op = "resolve" THEN "readLinks" ELSE "commit")
          /\ UNCHANGED <<keyShare, parlayLock, todo, seen, known, verdict>>
      BY <1>7, <2>2 DEF LockPick
    <3>2. Settles(r) /\ pc[r] \notin PastLock /\ job[r].pick \in Picks
      BY <1>t, <3>1, Kinds DEF Own, PastLock
    <3>3. pc'[r] \in {"readLinks", "commit"} /\ UNCHANGED tables /\ job' = job
      BY <1>t, <3>1 DEF Goto, TypeOK
    <3>4. pickLock'[job[r].pick] = r /\ pick[job[r].pick] \in {"pending", job[r].target}
      BY <1>t, <3>1, <3>2 DEF Settled, TypeOK
    <3> QED
      BY <3>1, <3>2, <3>3, <3>4, Blank DEF Own, Settles, PastLock, Looking, tables
  <2> QED
    BY <2>1, <2>2
\* While the session works on the parlays, the tables and its lock stay.
<1>8. ASSUME Settles(r), pc[r] \in PastLock, pc'[r] \in PastLock, job'[r] = job[r],
             UNCHANGED <<tables, pickLock>>,
             pc'[r] = "readParlay" \/ pc'[r] \in Looking => todo'[r] \subseteq Existing,
             pc'[r] \in Looking => seen'[r] \in Existing,
             \A p \in Picks : known'[r][p] \in Outcomes => Now(r, p) = known'[r][p],
             \A q \in ParlayIds : verdict'[r][q] # "none" =>
                                    parlay[q] # "absent" /\ Decides(r, q, verdict'[r][q])
      PROVE  Own(r)'
  <2>1. job[r].op \notin {"none", "group"}
    BY <1>8 DEF Settles
  <2>2. job[r].pick \in Picks /\ pickLock[job[r].pick] = r /\ pick[job[r].pick] \in {"pending", job[r].target}
    BY <1>8, <1>t DEF Own
  <2>3. \A p : Now(r, p)' = Now(r, p)
    BY <1>8 DEF Now, tables
  <2>4. \A q : verdict'[r][q] # "none" /\ Decides(r, q, verdict'[r][q]) => Decides(r, q, verdict[r][q])'
    BY <1>8, <2>3 DEF Decides, tables
  <2>5. Settles(r)'
    BY <1>8 DEF Settles
  <2>6. Existing' = Existing
    BY <1>8 DEF Existing, tables
  <2> QED
    BY <1>8, <2>1, <2>2, <2>3, <2>4, <2>5, <2>6 DEF Own, tables
<1>9. /\ \A p \in Picks : known[r][p] \in Outcomes => Now(r, p) = known[r][p]
      /\ \A q \in ParlayIds : verdict[r][q] # "none" =>
                                parlay[q] # "absent" /\ Decides(r, q, verdict[r][q])
  BY <1>t DEF Own
<1>10. CASE ReadLinks(r)
  <2>1. Settles(r) /\ pc[r] \in PastLock
    BY <1>10, Kinds DEF ReadLinks, PastLock
  <2>2. /\ pc'[r] \in {"commit", "readParlay"} /\ job' = job
        /\ UNCHANGED <<tables, pickLock, known, verdict>>
    BY <1>10, <1>t DEF ReadLinks, Goto, locks, TypeOK
  <2>3. todo'[r] \subseteq Existing
    BY <1>10, <1>t DEF ReadLinks, NoLegs, Existing, TypeOK
  <2> QED
    BY <1>8, <1>9, <2>1, <2>2, <2>3 DEF PastLock, Looking
<1>11. CASE ReadParlay(r)
  <2>1. Settles(r) /\ pc[r] \in PastLock
    BY <1>11, Kinds DEF ReadParlay, PastLock
  <2>2. todo[r] \subseteq Existing /\ todo' = todo /\ seen'[r] \in todo[r]
    BY <1>11, <1>t DEF ReadParlay, Own, TypeOK
  <2>3. /\ pc'[r] \in {"readLegs", "passLegs"} /\ job' = job
        /\ UNCHANGED <<tables, pickLock, known, verdict>>
    BY <1>11, <1>t DEF ReadParlay, Goto, locks, TypeOK
  <2> QED
    BY <1>8, <1>9, <2>1, <2>2, <2>3 DEF PastLock, Looking
<1>12. ASSUME NEW q \in ParlayIds, Holding(r, q)
       PROVE  \A p \in Picks : known'[r][p] \in Outcomes => Now(r, p) = known'[r][p]
  <2> SUFFICES ASSUME NEW p \in Picks, known'[r][p] \in Outcomes
               PROVE  Now(r, p) = known'[r][p]
    OBVIOUS
  <2>1. known'[r][p] = IF p \in legs[q] THEN LegStatus(r, p) ELSE "unread"
    BY <1>12, <1>t DEF Holding, TypeOK
  <2>2. "unread" \notin Outcomes
    BY DEF Outcomes
  <2> QED
    BY <2>1, <2>2, LegRead
<1>13. ASSUME NEW q \in ParlayIds, NextParlay(r, q), pc[r] \in Looking
       PROVE  /\ pc'[r] \in {"commit", "readParlay"} /\ job' = job
              /\ UNCHANGED tables
              /\ todo'[r] \subseteq Existing
  BY <1>13, <1>t DEF NextParlay, Goto, Own, TypeOK
<1>14. CASE PassLegs(r)
  <2>1. Settles(r) /\ pc[r] \in PastLock /\ pc[r] \in Looking
    BY <1>14, Kinds DEF PassLegs, PastLock, Looking
  <2>2. seen[r] \in ParlayIds
    BY <1>t, <2>1 DEF Own, Existing
  <2>3. Holding(r, seen[r]) /\ NextParlay(r, seen[r]) /\ UNCHANGED <<pickLock, verdict>>
    BY <1>14 DEF PassLegs, locks
  <2>4. \A p \in Picks : known'[r][p] \in Outcomes => Now(r, p) = known'[r][p]
    BY <1>12, <2>2, <2>3
  <2>5. /\ pc'[r] \in {"commit", "readParlay"} /\ job' = job
        /\ UNCHANGED tables
        /\ todo'[r] \subseteq Existing
    BY <1>13, <2>1, <2>2, <2>3
  <2> QED
    BY <1>8, <1>9, <2>1, <2>3, <2>4, <2>5 DEF PastLock, Looking
<1>15. CASE ReadLegs(r)
  <2>1. Settles(r) /\ pc[r] \in PastLock /\ pc[r] \in Looking
    BY <1>15, Kinds DEF ReadLegs, PastLock, Looking
  <2>2. seen[r] \in Existing /\ seen[r] \in ParlayIds /\ todo[r] \subseteq Existing
    BY <1>t, <2>1 DEF Own, Existing
  <2>3. Holding(r, seen[r]) /\ UNCHANGED pickLock
    BY <1>15 DEF ReadLegs, locks
  <2>4. \A p \in Picks : known'[r][p] \in Outcomes => Now(r, p) = known'[r][p]
    BY <1>12, <2>2, <2>3
  <2> DEFINE S == {LegStatus(r, p) : p \in legs[seen[r]]}
             v == Verdict(S)
  <2>5. CASE v = "pending"
    <3>1. NextParlay(r, seen[r]) /\ UNCHANGED verdict
      BY <1>15, <2>5 DEF ReadLegs
    <3>2. /\ pc'[r] \in {"commit", "readParlay"} /\ job' = job
          /\ UNCHANGED tables
          /\ todo'[r] \subseteq Existing
      BY <1>13, <2>1, <2>2, <3>1
    <3> QED
      BY <1>8, <1>9, <2>1, <2>3, <2>4, <3>1, <3>2 DEF PastLock, Looking
  <2>6. CASE v # "pending"
    <3>1. /\ verdict' = [verdict EXCEPT ![r][seen[r]] = v]
          /\ Goto(r, "update")
          /\ UNCHANGED <<todo, seen>>
      BY <1>15, <2>6 DEF ReadLegs
    <3>2. pc'[r] = "update" /\ UNCHANGED tables /\ job' = job
      BY <3>1, <1>t DEF Goto, TypeOK
    <3>3. Decides(r, seen[r], v)
      <4>1. legs[seen[r]] \subseteq Picks
        BY <2>2, <1>t DEF TypeOK
      <4>2. ASSUME v = "won"
            PROVE  \A p \in legs[seen[r]] : Now(r, p) = "won"
        <5>1. \A p \in legs[seen[r]] : LegStatus(r, p) = "won"
          BY <4>2, VerdictMeans
        <5> QED
          BY <4>1, <5>1, LegRead DEF Outcomes
      <4>3. ASSUME v = "lost"
            PROVE  /\ \A p \in legs[seen[r]] : Now(r, p) \in Outcomes
                   /\ \E p \in legs[seen[r]] : Now(r, p) = "lost"
        <5>1. "pending" \notin S /\ "lost" \in S
          BY <4>3, VerdictMeans
        <5>2. ASSUME NEW p \in legs[seen[r]]
              PROVE  LegStatus(r, p) \in Outcomes
          <6>1. LegStatus(r, p) \in Status
            BY <4>1, <1>t DEF LegStatus, TypeOK, Job, Status
          <6> QED
            BY <5>1, <6>1 DEF Status
        <5>3. \A p \in legs[seen[r]] : Now(r, p) = LegStatus(r, p)
          BY <4>1, <5>2, LegRead
        <5> QED
          BY <5>1, <5>2, <5>3
      <4> HIDE DEF v
      <4> QED
        BY <4>2, <4>3 DEF Decides
    <3>4. \A q \in ParlayIds : verdict'[r][q] # "none" =>
                                 parlay[q] # "absent" /\ Decides(r, q, verdict'[r][q])
      <4> HIDE DEF v
      <4>1. \A q \in ParlayIds : verdict'[r][q] = IF q = seen[r] THEN v ELSE verdict[r][q]
        BY <2>2, <3>1, <1>t DEF TypeOK
      <4>2. parlay[seen[r]] # "absent"
        BY <2>2 DEF Existing
      <4> QED
        BY <1>9, <3>3, <4>1, <4>2
    <3> QED
      BY <1>8, <2>1, <2>2, <2>3, <2>4, <3>1, <3>2, <3>4 DEF PastLock
  <2> QED
    BY <2>5, <2>6
<1>16. CASE UpdateParlay(r)
  <2>1. Settles(r) /\ pc[r] \in PastLock /\ pc[r] \in Looking
    BY <1>16, Kinds DEF UpdateParlay, PastLock, Looking
  <2>2. seen[r] \in ParlayIds
    BY <1>t, <2>1 DEF Own, Existing
  <2>3. NextParlay(r, seen[r]) /\ UNCHANGED <<pickLock, known, verdict>>
    BY <1>16 DEF UpdateParlay
  <2>4. /\ pc'[r] \in {"commit", "readParlay"} /\ job' = job
        /\ UNCHANGED tables
        /\ todo'[r] \subseteq Existing
    BY <1>13, <2>1, <2>2, <2>3
  <2> QED
    BY <1>8, <1>9, <2>1, <2>3, <2>4 DEF PastLock, Looking
<1>17. CASE Commit(r) \/ DeadlockVictim(r) \/ Abort(r)
  BY <1>t, <1>17, EndOwn DEF Commit, DeadlockVictim, Abort, Leave
<1> QED
  BY <1>2, <1>3, <1>4, <1>5, <1>6, <1>7, <1>10, <1>11, <1>14, <1>15, <1>16, <1>17
     DEF Move, BeginAny, Step

-----------------------------------------------------------------------------
\* The inductive step

\* FOR UPDATE waits for key shares and a key share for FOR UPDATE.
LEMMA ExclusiveStep ==
  ASSUME IInv, NEW r \in Requests, Move(r)
  PROVE  Exclusive'
<1>t. TypeOK /\ Exclusive
  BY DEF IInv
<1>1. ASSUME End(r)
      PROVE  Exclusive'
  BY <1>1, <1>t DEF End, Exclusive
<1>2. CASE BeginAny(r) \/ ReadLinks(r) \/ ReadParlay(r) \/ PassLegs(r) \/ ReadLegs(r) \/ UpdateParlay(r)
  <2>1. UNCHANGED <<pickLock, keyShare>>
    BY <1>2 DEF BeginAny, BeginGroup, BeginResolve, ResolveOf, BeginDelete, BeginReject,
                ReadLinks, ReadParlay, PassLegs, ReadLegs, UpdateParlay, locks
  <2> QED
    BY <2>1, <1>t DEF Exclusive
<1>3. CASE InsertLeg(r)
  <2>1. PICK p \in todo[r] :
          /\ pickLock[p] = NoRequest
          /\ keyShare' = [keyShare EXCEPT ![p] = @ \cup {r}]
    BY <1>3 DEF InsertLeg
  <2>2. pickLock' = pickLock
    BY <1>3 DEF InsertLeg
  <2> QED
    BY <2>1, <2>2, <1>t DEF Exclusive, TypeOK
<1>4. CASE LockPick(r)
  <2>1. CASE Leave(r)
    BY <1>1, <2>1 DEF Leave
  <2>2. CASE ~Leave(r)
    <3>1. /\ keyShare[job[r].pick] = {}
          /\ pickLock' = [pickLock EXCEPT ![job[r].pick] = r]
          /\ keyShare' = keyShare
      BY <1>4, <2>2 DEF LockPick, RowFree
    <3> QED
      BY <3>1, <1>t DEF Exclusive, TypeOK
  <2> QED
    BY <2>1, <2>2
<1>5. CASE Commit(r) \/ DeadlockVictim(r) \/ Abort(r)
  BY <1>1, <1>5 DEF Commit, DeadlockVictim, Abort, Leave
<1> QED
  BY <1>2, <1>3, <1>4, <1>5 DEF Move, BeginAny, Step

\* What a commit makes of each parlay.
LEMMA ParlayStep ==
  ASSUME IInv, NEW r \in Requests, Commit(r), NEW q \in ParlayIds
  PROVE  /\ parlay'[q] = "absent" => parlay[q] = "absent" /\ legs'[q] = legs[q]
         /\ parlay'[q] = "won" => \A p \in legs'[q] : pick'[p] = "won"
         /\ parlay'[q] = "lost" => /\ \A p \in legs'[q] : pick'[p] # "pending"
                                  /\ \E p \in legs'[q] : pick'[p] = "lost"
         /\ Resolved(q) => parlay'[q] = parlay[q]
<1>t. TypeOK /\ Own(r) /\ ResolvedAsLegs /\ legs[q] \subseteq Picks
  BY DEF IInv, TypeOK
<1>s. \A p \in Picks : Settled(p) => pick'[p] = pick[p]
  BY Frame DEF Move, Step
<1>1. CASE parlay'[q] = parlay[q] /\ legs'[q] = legs[q]
  <2>1. parlay[q] = "won" => \A p \in legs[q] : pick[p] = "won" /\ Settled(p)
    BY <1>t DEF ResolvedAsLegs, Settled
  <2>2. parlay[q] = "lost" => /\ \A p \in legs[q] : Settled(p)
                             /\ \E p \in legs[q] : pick[p] = "lost"
    BY <1>t DEF ResolvedAsLegs
  <2> QED
    BY <1>t, <1>s, <1>1, <2>1, <2>2 DEF Settled
<1>2. CASE parlay[q] = "absent" /\ parlay'[q] = "pending"
  BY <1>2 DEF Resolved
<1>3. CASE verdict[r][q] # "none" /\ parlay'[q] = verdict[r][q] /\ legs'[q] = legs[q]
  <2>1. /\ Settles(r) /\ pc[r] \in PastLock
        /\ Decides(r, q, verdict[r][q])
    BY <1>t, <1>3 DEF Own
  <2>2. \A p \in Picks : pick'[p] = Now(r, p)
    BY <2>1, CommitEffect
  <2>3. verdict[r][q] \in {"won", "lost"}
    BY <1>t, <1>3 DEF TypeOK
  <2>4. parlay'[q] = "won" => \A p \in legs'[q] : pick'[p] = "won"
    BY <1>t, <1>3, <2>1, <2>2 DEF Decides
  <2>5. parlay'[q] = "lost" => /\ \A p \in legs'[q] : pick'[p] # "pending"
                              /\ \E p \in legs'[q] : pick'[p] = "lost"
    <3> SUFFICES ASSUME parlay'[q] = "lost"
                 PROVE  /\ \A p \in legs[q] : pick'[p] # "pending"
                        /\ \E p \in legs[q] : pick'[p] = "lost"
      BY <1>3
    <3>1. /\ \A p \in legs[q] : Now(r, p) \in Outcomes
          /\ \E p \in legs[q] : Now(r, p) = "lost"
      BY <1>3, <2>1 DEF Decides
    <3> QED
      BY <1>t, <2>2, <3>1 DEF Outcomes
  <2>6. ASSUME Resolved(q)
        PROVE  parlay'[q] = parlay[q]
    <3>1. CASE parlay[q] = "won"
      <4>1. \A p \in legs[q] : pick[p] = "won"
        BY <1>t, <3>1 DEF ResolvedAsLegs
      <4>2. \A p \in legs[q] : pick'[p] = "won"
        BY <1>t, <1>s, <4>1 DEF Settled
      <4> QED
        BY <1>3, <2>3, <2>5, <3>1, <4>2
    <3>2. CASE parlay[q] = "lost"
      <4>1. PICK p \in legs[q] : pick[p] = "lost"
        BY <1>t, <3>2 DEF ResolvedAsLegs
      <4>2. pick'[p] = "lost"
        BY <1>t, <1>s, <4>1 DEF Settled
      <4> QED
        BY <1>3, <2>3, <2>4, <3>2, <4>2
    <3> QED
      BY <2>6, <3>1, <3>2 DEF Resolved
  <2> QED
    BY <1>3, <2>3, <2>4, <2>5, <2>6
<1> QED
  BY <1>1, <1>2, <1>3, CommitEffect

\* Every move keeps the invariant.
LEMMA MoveIInv ==
  ASSUME IInv, NEW r \in Requests, Move(r), UNCHANGED outage
  PROVE  IInv'
<1>1. TypeOK'
  BY MoveTyped
<1>2. NoLegs' /\ ResolvedAsLegs'
  <2>1. CASE Commit(r)
    BY <2>1, ParlayStep DEF IInv, NoLegs, ResolvedAsLegs, Settled
  <2>2. CASE ~Commit(r)
    BY <2>2, TablesKeep DEF IInv, NoLegs, ResolvedAsLegs, Settled, tables
  <2> QED
    BY <2>1, <2>2
<1>3. Exclusive'
  BY ExclusiveStep
<1>4. ASSUME NEW s \in Requests
      PROVE  Own(s)'
  BY OwnStep, OthersOwn
<1> QED
  BY <1>1, <1>2, <1>3, <1>4 DEF IInv

\* A step is a move of one request, or changes nothing but outage.
LEMMA NextIsMove ==
  ASSUME [Next]_vars
  PROVE  \/ \E r \in Requests : Move(r) /\ UNCHANGED outage
         \/ UNCHANGED <<tables, locks, txns>> /\ outage' \in {outage, FALSE}
BY DEF Next, Move, Idle, Recover, vars

LEMMA NextIInv == IInv /\ [Next]_vars => IInv'
<1> SUFFICES ASSUME IInv, [Next]_vars
             PROVE  IInv'
  OBVIOUS
<1>1. CASE \E r \in Requests : Move(r) /\ UNCHANGED outage
  BY <1>1, MoveIInv
<1>2. CASE UNCHANGED <<tables, locks, txns>> /\ outage' \in {outage, FALSE}
  <2>1. TypeOK' /\ NoLegs' /\ Exclusive' /\ ResolvedAsLegs'
    BY <1>2 DEF IInv, TypeOK, NoLegs, Exclusive, ResolvedAsLegs, Settled, tables, locks, txns
  <2>2. ASSUME NEW r \in Requests
        PROVE  Own(r)'
    BY <1>2 DEF IInv, Own, Settles, Decides, Now, Existing, tables, locks, txns
  <2> QED
    BY <2>1, <2>2 DEF IInv
<1> QED
  BY <1>1, <1>2, NextIsMove

THEOREM Invariance == Spec => []IInv
BY InitIInv, NextIInv, PTL DEF Spec

-----------------------------------------------------------------------------
\* Theorems

\* Every variable has the type the module gives it.
THEOREM TypeCorrect == Spec => []TypeOK
<1>1. IInv => TypeOK
  BY DEF IInv
<1> QED
  BY <1>1, Invariance, PTL

\* A parlay is won only when all its legs are, and lost only when none is pending and one
\* is lost, whatever settles at the same time.
THEOREM ResolvedAsLegsAlways == Spec => []ResolvedAsLegs
<1>1. IInv => ResolvedAsLegs
  BY DEF IInv
<1> QED
  BY <1>1, Invariance, PTL

\* The result of a parlay never changes, nor do its legs.
THEOREM ResolvedForGoodAlways == Spec => ResolvedForGood
<1> DEFINE Good == \A q \in ParlayIds :
                     /\ Resolved(q) => parlay'[q] = parlay[q]
                     /\ parlay[q] # "absent" => parlay'[q] # "absent" /\ legs'[q] = legs[q]
<1>1. IInv /\ [Next]_vars => [Good]_vars
  <2> SUFFICES ASSUME IInv, [Next]_vars
               PROVE  Good
    OBVIOUS
  <2>1. ASSUME NEW r \in Requests, Move(r)
        PROVE  Good
    <3>1. CASE Commit(r)
      BY <2>1, <3>1, Frame, ParlayStep
    <3>2. CASE ~Commit(r)
      BY <2>1, <3>2, TablesKeep DEF tables
    <3> QED
      BY <3>1, <3>2
  <2>2. CASE UNCHANGED <<tables, locks, txns>>
    BY <2>2 DEF tables
  <2> QED
    BY <2>1, <2>2, NextIsMove
<1>2. [][Good]_vars => ResolvedForGood
  BY DEF ResolvedForGood
<1> QED
  BY <1>1, <1>2, Invariance, PTL DEF Spec

\* A pick that a parlay being made has inserted among its legs is settled by nobody until
\* the parlay has committed.
THEOREM LegsHeldToCommitAlways == Spec => LegsHeldToCommit
<1> DEFINE Held == \A r \in Requests, p \in Picks : r \in keyShare[p] => pick'[p] = pick[p]
<1>1. IInv /\ [Next]_vars => [Held]_vars
  <2> SUFFICES ASSUME IInv, [Next]_vars
               PROVE  Held
    OBVIOUS
  <2>1. ASSUME NEW s \in Requests, Move(s), NEW r \in Requests, NEW p \in Picks, r \in keyShare[p]
        PROVE  pick'[p] = pick[p]
    <3>1. pickLock[p] = NoRequest
      BY <2>1 DEF IInv, Exclusive
    <3> QED
      BY <2>1, <3>1, Frame, ParlayAssumption
  <2>2. CASE UNCHANGED <<tables, locks, txns>>
    BY <2>2 DEF tables
  <2> QED
    BY <2>1, <2>2, NextIsMove
<1>2. [][Held]_vars => LegsHeldToCommit
  BY DEF LegsHeldToCommit
<1> QED
  BY <1>1, <1>2, Invariance, PTL DEF Spec
=============================================================================

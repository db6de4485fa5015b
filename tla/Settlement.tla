------------------------------ MODULE Settlement ------------------------------
(***************************************************************************)
(* The money core of betsync-api: picks, the wallet row, the append-only   *)
(* ledger and the outbox, as the concurrent database transactions of       *)
(* app/services/{pick_service,settlement_engine,ledger_service,            *)
(* reconciliation_service}.py see them.                                    *)
(*                                                                         *)
(* One request is one transaction at READ COMMITTED                        *)
(* (app/core/dependencies.py, get_db).  An unlocked SELECT reads what is   *)
(* committed at that statement; SELECT ... FOR UPDATE and UPDATE wait for  *)
(* the row lock and keep it to the end of the transaction; nothing a       *)
(* transaction writes is seen before its COMMIT.  So the writes of a       *)
(* request are buffered here and published, with the locks released, by    *)
(* its Commit action; a failure at any point before that is Abort.         *)
(*                                                                         *)
(* Amounts are whole units, so that any drift exceeds TOLERANCE (0.01).    *)
(* Decimal odds are whole multipliers.                                     *)
(***************************************************************************)
EXTENDS Integers, Sequences, FiniteSets, Functions

CONSTANTS
  Requests,     \* requests, one transaction each
  Picks,        \* pick ids that uuid4 may hand out
  Users,        \* users that own a user_balances row
  DefaultUser,  \* DEFAULT_USER_ID, the operational user
  NoUser,       \* user_id IS NULL
  NoRequest,    \* "the row is not locked"
  Stakes,       \* stakes a client may ask for
  Odds,         \* decimal odds a client may ask for
  Funding,      \* available_balance of each user, seeded by SQL
  Ops           \* the operations that clients call

ASSUME UsersAssumption ==
  /\ DefaultUser \in Users
  /\ NoUser \notin Users
  /\ NoRequest \notin Requests
  /\ Picks # {}
ASSUME MoneyAssumption ==
  /\ Stakes \subseteq Nat \ {0}
  /\ Odds \subseteq Nat \ {0, 1}
  /\ Funding \in [Users -> Nat]
ASSUME OpsAssumption == Ops \subseteq {"create", "settle", "delete", "edit", "fix"}

VARIABLES
  \* committed tables
  picks,        \* picks: Pick id -> row
  wallet,       \* user_balances: user -> row
  ledger,       \* ledger_entries: user -> its rows, in the order they were committed
  outbox,       \* outbox_events: set of event keys <<pick, status>>
  \* row locks
  pickLock, balanceLock,
  \* transactions
  pc,           \* request -> where its handler stands
  job,          \* request -> what it was asked
  start,        \* request -> now() of its transaction, the start time
  seenTotal,    \* request -> wallet total read by reconcile_user
  buf,          \* request -> its uncommitted writes
  clock         \* next transaction start time

tables == <<picks, wallet, ledger, outbox>>
locks == <<pickLock, balanceLock>>
txns == <<pc, job, start, seenTotal, buf>>
vars == <<tables, locks, txns, clock>>

-----------------------------------------------------------------------------
\* Rows

Outcomes == {"won", "lost", "push", "void"}
Status == {"absent", "pending"} \cup Outcomes
SettlementTypes == {"PICK_PAYOUT", "PICK_LOSS", "PICK_REFUND"}
Final == {"done", "rejected", "corrupted"}
InFlight == {"create", "lockPick", "flush", "gateWallet", "gateLedger",
             "lockBalance", "commitMoney", "commitPick", "commitRepair"}

\* stake 0 is NULL; profit is 0 until the pick is resolved.
PickRow == [status : Status, user : Users \cup {NoUser},
            stake : Nat, odds : Nat, profit : Int]
WalletRow == [available : Int, locked : Int]
Entry == [type : SettlementTypes \cup {"PICK_STAKE_LOCK"}, ref : Picks, amount : Int,
          balance_after : Int, locked_after : Int, created_at : Nat]
Events == Picks \X (Outcomes \cup {"created"})
Job == [op : {"none", "create", "settle", "edit", "fix"}, pick : Picks,
        user : Users \cup {NoUser}, stake : Nat, odds : Nat,
        target : Outcomes, cols : SUBSET {"stake", "odds"}]
Writes == [pick : PickRow, wallet : WalletRow, entry : Entry, events : SUBSET Events]

NoPick == [status |-> "absent", user |-> NoUser, stake |-> 0, odds |-> 0, profit |-> 0]
EmptyWallet == [available |-> 0, locked |-> 0]
AnyPick == CHOOSE p \in Picks : TRUE
NoJob == [op |-> "none", pick |-> AnyPick, user |-> NoUser, stake |-> 0, odds |-> 0,
          target |-> "void", cols |-> {}]
NoEntry == [type |-> "PICK_STAKE_LOCK", ref |-> AnyPick, amount |-> 0,
            balance_after |-> 0, locked_after |-> 0, created_at |-> 0]
NoWrites == [pick |-> NoPick, wallet |-> EmptyWallet, entry |-> NoEntry, events |-> {}]

-----------------------------------------------------------------------------
\* What the services compute

Terminal(pk) == pk.status \in Outcomes

\* A pick that moves money when it settles: user_id and a positive stake.
Financial(pk) == pk.user # NoUser /\ pk.stake > 0

Total(w) == w.available + w.locked

\* Mutant: a voided pick gets a ledger type that ledger_entries does not know.
LedgerTypeOfItsOwn(status) ==
  CASE status = "won" -> "PICK_PAYOUT"
    [] status = "lost" -> "PICK_LOSS"
    [] OTHER -> "PICK_VOID"

LedgerType(status) ==
  CASE status = "won" -> "PICK_PAYOUT"
    [] status = "lost" -> "PICK_LOSS"
    [] OTHER -> "PICK_REFUND"

Profit(status, stake, odds) ==
  CASE status = "won" -> stake * odds - stake
    [] status = "lost" -> -stake
    [] OTHER -> 0

\* DomainValidator: won, lost and push need a positive stake.
ResolvableAs(pk, status) == status = "void" \/ pk.stake > 0

\* Mutant: the profit is set and the status is not.
SettledPickStillPending(pk, status) ==
  [pk EXCEPT !.profit = Profit(status, pk.stake, pk.odds)]

SettledPick(pk, status) ==
  [pk EXCEPT !.status = status, !.profit = Profit(status, pk.stake, pk.odds)]

\* Mutant: a winner gets the profit and not the stake back.
CreditProfitOnly(pk, status) ==
  CASE status = "won" -> Profit("won", pk.stake, pk.odds)
    [] status = "lost" -> 0
    [] OTHER -> pk.stake

\* What is credited to available_balance when pk settles as status.
Credit(pk, status) ==
  CASE status = "won" -> pk.stake + Profit("won", pk.stake, pk.odds)
    [] status = "lost" -> 0
    [] OTHER -> pk.stake

\* The amount column: the stake of a lost pick is recorded though nothing is credited.
Amount(pk, status) == IF status = "lost" THEN pk.stake ELSE Credit(pk, status)

StakeLocked(w, stake) ==
  [available |-> w.available - stake, locked |-> w.locked + stake]

EscrowReleased(w, pk, status) ==
  [available |-> w.available + Credit(pk, status), locked |-> w.locked - pk.stake]

\* Mutant: the row forgets what is locked.
LedgerRowOfAvailable(type, p, amount, w, time) ==
  [type |-> type, ref |-> p, amount |-> amount, balance_after |-> w.available,
   locked_after |-> 0, created_at |-> time]

LedgerRow(type, p, amount, w, time) ==
  [type |-> type, ref |-> p, amount |-> amount, balance_after |-> w.available,
   locked_after |-> w.locked, created_at |-> time]

\* Settlement rows of a pick, by index in the ledger of its user.
SettlementRows(u, p) ==
  {i \in DOMAIN ledger[u] : ledger[u][i].ref = p /\ ledger[u][i].type \in SettlementTypes}

\* Mutant: the stake is released without a look at what is locked.
EscrowCoversAvailable(w, pk, status) ==
  /\ w.available >= 0
  /\ EscrowReleased(w, pk, status).available >= 0

\* The checks of record_settlement before and after it moves money.
EscrowCovers(w, pk, status) ==
  /\ w.available >= 0
  /\ w.locked >= pk.stake
  /\ EscrowReleased(w, pk, status).available >= 0

\* reconcile_user takes as ledger tail the row with the latest created_at ...
LedgerTail(u) ==
  CHOOSE i \in DOMAIN ledger[u] :
    \A j \in DOMAIN ledger[u] : ledger[u][j].created_at <= ledger[u][i].created_at

\* ... and 0 when there is no row.
LedgerTotal(u) ==
  IF ledger[u] = <<>> THEN 0
  ELSE ledger[u][LedgerTail(u)].balance_after + ledger[u][LedgerTail(u)].locked_after

PendingOf(u) == {p \in Picks : picks[p].user = u /\ picks[p].status = "pending"}

\* expected_locked: SUM(stake) over the pending picks of u.
EscrowExpected(u) == SumFunctionOnSet([p \in Picks |-> picks[p].stake], PendingOf(u))

\* Mutants: the rows are read without FOR UPDATE.
PickUnguarded(p) == p \in Picks
BalanceUnguarded(u) == u \in Users

PickFree(p) == pickLock[p] = NoRequest
BalanceFree(u) == balanceLock[u] = NoRequest

-----------------------------------------------------------------------------
\* Transactions

Init ==
  /\ picks = [p \in Picks |-> NoPick]
  /\ wallet = [u \in Users |-> [available |-> Funding[u], locked |-> 0]]
  /\ ledger = [u \in Users |-> <<>>]
  /\ outbox = {}
  /\ pickLock = [p \in Picks |-> NoRequest]
  /\ balanceLock = [u \in Users |-> NoRequest]
  /\ pc = [r \in Requests |-> "idle"]
  /\ job = [r \in Requests |-> NoJob]
  /\ start = [r \in Requests |-> 0]
  /\ seenTotal = [r \in Requests |-> 0]
  /\ buf = [r \in Requests |-> NoWrites]
  /\ clock = 1

\* BEGIN: the first statement of a transaction fixes its now().
Begin(r, todo, at) ==
  /\ pc[r] = "idle"
  /\ pc' = [pc EXCEPT ![r] = at]
  /\ job' = [job EXCEPT ![r] = todo]
  /\ start' = [start EXCEPT ![r] = clock]
  /\ clock' = clock + 1
  /\ UNCHANGED <<tables, seenTotal, buf>>

\* Mutant: a transaction that fails leaves its row locks behind.
EndLeakingLocks(r, how) ==
  /\ pc' = [pc EXCEPT ![r] = how]
  /\ job' = [job EXCEPT ![r] = NoJob]
  /\ start' = [start EXCEPT ![r] = 0]
  /\ seenTotal' = [seenTotal EXCEPT ![r] = 0]
  /\ buf' = [buf EXCEPT ![r] = NoWrites]
  /\ pickLock' = [p \in Picks |->
                    IF pickLock[p] = r /\ how = "done" THEN NoRequest ELSE pickLock[p]]
  /\ balanceLock' = [u \in Users |->
                       IF balanceLock[u] = r /\ how = "done" THEN NoRequest ELSE balanceLock[u]]
  /\ UNCHANGED clock

\* The transaction ends as `how`; its locks go and its buffered writes are forgotten.
End(r, how) ==
  /\ pc' = [pc EXCEPT ![r] = how]
  /\ job' = [job EXCEPT ![r] = NoJob]
  /\ start' = [start EXCEPT ![r] = 0]
  /\ seenTotal' = [seenTotal EXCEPT ![r] = 0]
  /\ buf' = [buf EXCEPT ![r] = NoWrites]
  /\ pickLock' = [p \in Picks |-> IF pickLock[p] = r THEN NoRequest ELSE pickLock[p]]
  /\ balanceLock' = [u \in Users |-> IF balanceLock[u] = r THEN NoRequest ELSE balanceLock[u]]
  /\ UNCHANGED clock

\* Mutant: the outbox has a session of its own, which a rollback does not reach.
LeavePublishing(r, how) ==
  /\ End(r, how)
  /\ outbox' = outbox \cup buf[r].events
  /\ UNCHANGED <<picks, wallet, ledger>>

\* The transaction changes nothing: an exception that get_db rolls back, or a no-op.
Leave(r, how) == End(r, how) /\ UNCHANGED tables

\* Whose wallet it works on.
UserOf(r) == IF job[r].op = "settle" THEN picks[job[r].pick].user ELSE job[r].user

\* The handler goes on to the statement `at`.
Goto(r, at) ==
  /\ pc' = [pc EXCEPT ![r] = at]
  /\ UNCHANGED <<tables, job, start, clock>>

\* The handler has flushed `writes` and goes on to COMMIT.
Flush(r, writes, at) ==
  /\ buf' = [buf EXCEPT ![r] = writes]
  /\ Goto(r, at)
  /\ UNCHANGED seenTotal

-----------------------------------------------------------------------------
\* create_pick

\* The row of a fresh uuid4 belongs to the transaction that will insert it: until it
\* commits nobody else can refer to it, which its pickLock stands for.
BeginCreate(r) ==
  /\ "create" \in Ops
  /\ \E p \in Picks, u \in Users, s \in Stakes \cup {0}, o \in Odds :
       /\ picks[p].status = "absent"
       /\ PickFree(p)
       /\ Begin(r, [NoJob EXCEPT !.op = "create", !.pick = p, !.odds = o, !.stake = s,
                                 !.user = IF s > 0 THEN u ELSE NoUser], "create")
       /\ pickLock' = [pickLock EXCEPT ![p] = r]
       /\ UNCHANGED balanceLock

NewPick(r) ==
  [status |-> "pending", user |-> job[r].user, stake |-> job[r].stake,
   odds |-> job[r].odds, profit |-> 0]

\* A pick without a stake is inserted with no user, no ledger row and no event.
CreateUnstaked(r) ==
  /\ pc[r] = "create"
  /\ job[r].stake = 0
  /\ Flush(r, [NoWrites EXCEPT !.pick = NewPick(r)], "commitPick")
  /\ UNCHANGED locks

\* record_movement(PICK_STAKE_LOCK) under the balance lock.
CreateStaked(r) ==
  LET p == job[r].pick
      u == job[r].user
      s == job[r].stake
      w == StakeLocked(wallet[u], s)
  IN /\ pc[r] = "create"
     /\ s > 0
     /\ BalanceFree(u)
     /\ IF wallet[u].available < s
        THEN Leave(r, "rejected")
        ELSE /\ Flush(r, [pick |-> NewPick(r), wallet |-> w,
                          entry |-> LedgerRow("PICK_STAKE_LOCK", p, s, w, start[r]),
                          events |-> {<<p, "created">>}], "commitMoney")
             /\ balanceLock' = [balanceLock EXCEPT ![u] = r]
             /\ UNCHANGED pickLock

-----------------------------------------------------------------------------
\* execute_settlement: resolve_pick, delete_pick, confirm_pick(confirmed=false)

\* A client has the pick's id from an answer: any other id is a 404.
BeginSettle(r) ==
  /\ "settle" \in Ops
  /\ \E p \in Picks, t \in Outcomes :
       /\ picks[p].status # "absent"
       /\ Begin(r, [NoJob EXCEPT !.op = "settle", !.pick = p, !.target = t], "lockPick")
  /\ UNCHANGED locks

\* delete_pick reads the pick without a lock and goes on only when it is pending.
BeginDelete(r) ==
  /\ "delete" \in Ops
  /\ \E p \in Picks :
       /\ picks[p].status = "pending"
       /\ Begin(r, [NoJob EXCEPT !.op = "settle", !.pick = p, !.target = "void"], "lockPick")
  /\ UNCHANGED locks

\* Neither a settled pick nor another user's: the 409s of execute_settlement.
Settleable(pk) == pk.status = "pending" /\ pk.user \in {NoUser, DefaultUser}

LockPick(r) ==
  LET p == job[r].pick
      t == job[r].target
      pk == picks[p]
  IN /\ pc[r] = "lockPick"
     /\ PickFree(p)
     /\ CASE pk.status = t -> Leave(r, "done")   \* a no-op: nothing to commit
          [] pk.status # t /\ ~Settleable(pk) -> Leave(r, "rejected")
          [] OTHER ->
               \/ /\ Financial(pk)
                  /\ Goto(r, "gateWallet")
                  /\ pickLock' = [pickLock EXCEPT ![p] = r]
                  /\ UNCHANGED <<seenTotal, buf, balanceLock>>
               \/ /\ ~Financial(pk)
                  /\ ResolvableAs(pk, t)
                  /\ Flush(r, [NoWrites EXCEPT !.pick = SettledPick(pk, t),
                                               !.events = {<<p, t>>}], "commitPick")
                  /\ pickLock' = [pickLock EXCEPT ![p] = r]
                  /\ UNCHANGED balanceLock
               \/ /\ ~Financial(pk)
                  /\ ~ResolvableAs(pk, t)
                  /\ Leave(r, "rejected")

-----------------------------------------------------------------------------
\* The drift gate of settlement and the first classification of fix_user_balance:
\* reconcile_user reads the wallet row and then the ledger tail, each in a statement of
\* its own and with no balance lock.  What it reads of the escrow between the two is
\* only logged or returned.

GateWallet(r) ==
  /\ pc[r] = "gateWallet"
  /\ seenTotal' = [seenTotal EXCEPT ![r] = Total(wallet[UserOf(r)])]
  /\ Goto(r, "gateLedger")
  /\ UNCHANGED <<buf, locks>>

GateLedger(r) ==
  /\ pc[r] = "gateLedger"
  /\ IF LedgerTotal(UserOf(r)) # seenTotal[r]
     THEN Leave(r, "corrupted")
     ELSE Goto(r, "lockBalance") /\ UNCHANGED <<seenTotal, buf, locks>>

\* The ledger has one settlement row of p, of the type that settling it as t gives.
RecordedAs(u, p, t) ==
  /\ Cardinality(SettlementRows(u, p)) = 1
  /\ \A i \in SettlementRows(u, p) : ledger[u][i].type = LedgerType(t)

\* record_settlement under both locks.  A settlement row that is already there decides:
\* its own type only brings the pick up to date, another one is refused.
RecordSettlement(r) ==
  LET p == job[r].pick
      pk == picks[p]
      u == pk.user
      t == job[r].target
      w == EscrowReleased(wallet[u], pk, t)
      lockWallet == /\ balanceLock' = [balanceLock EXCEPT ![u] = r]
                    /\ UNCHANGED pickLock
  IN /\ pc[r] = "lockBalance"
     /\ job[r].op = "settle"
     /\ BalanceFree(u)
     /\ CASE RecordedAs(u, p, t) ->
               /\ Flush(r, [NoWrites EXCEPT !.pick = SettledPick(pk, t),
                                            !.events = {<<p, t>>}], "commitPick")
               /\ lockWallet
          [] ~RecordedAs(u, p, t) /\ (SettlementRows(u, p) # {} \/ ~EscrowCovers(wallet[u], pk, t)) ->
               Leave(r, "rejected")
          [] OTHER ->
               /\ Flush(r, [pick |-> SettledPick(pk, t), wallet |-> w,
                            entry |-> LedgerRow(LedgerType(t), p, Amount(pk, t), w, start[r]),
                            events |-> {<<p, t>>}], "commitMoney")
               /\ lockWallet

-----------------------------------------------------------------------------
\* update_pick

\* The columns of the pick that the client asks to change, against the row as it was
\* read: those are the columns of the UPDATE.
Changed(pk, s, o) ==
  {c \in {"stake", "odds"} : (c = "stake" /\ s # pk.stake) \/ (c = "odds" /\ o # pk.odds)}

\* get_pick and the pending check, without a lock.
BeginEdit(r) ==
  /\ "edit" \in Ops
  /\ \E p \in Picks, s \in Stakes \cup {0}, o \in Odds :
       /\ picks[p].status = "pending"
       /\ Changed(picks[p], s, o) # {}
       /\ Begin(r, [NoJob EXCEPT !.op = "edit", !.pick = p, !.stake = s, !.odds = o,
                                 !.cols = Changed(picks[p], s, o)], "flush")
  /\ UNCHANGED locks

Edited(pk, j) ==
  [pk EXCEPT !.stake = IF "stake" \in j.cols THEN j.stake ELSE pk.stake,
             !.odds = IF "odds" \in j.cols THEN j.odds ELSE pk.odds]

\* The UPDATE waits for the row lock and then writes to the row whatever its status is.
FlushEdit(r) ==
  LET p == job[r].pick
  IN /\ pc[r] = "flush"
     /\ PickFree(p)
     /\ Flush(r, [NoWrites EXCEPT !.pick = Edited(picks[p], job[r])], "commitPick")
     /\ pickLock' = [pickLock EXCEPT ![p] = r]
     /\ UNCHANGED balanceLock

-----------------------------------------------------------------------------
\* fix_user_balance

BeginFix(r) ==
  /\ "fix" \in Ops
  /\ \E u \in Users : Begin(r, [NoJob EXCEPT !.op = "fix", !.user = u], "gateWallet")
  /\ UNCHANGED locks

\* Mutant: the escrow is added on top of the ledger total.
RepairedWalletOnTop(u) ==
  [available |-> LedgerTotal(u), locked |-> EscrowExpected(u)]

\* The split of the ledger total that fix_user_balance wants: the escrow of the pending
\* picks is locked and the rest is available.
RepairedWallet(u) ==
  [available |-> LedgerTotal(u) - EscrowExpected(u), locked |-> EscrowExpected(u)]

Repair(r) ==
  LET u == job[r].user
      w == RepairedWallet(u)
  IN /\ pc[r] = "lockBalance"
     /\ job[r].op = "fix"
     /\ BalanceFree(u)
     /\ \/ /\ \/ LedgerTotal(u) # Total(wallet[u])
             \/ w.locked \notin Nat
             \/ w.available \notin Nat
          /\ Leave(r, "rejected")
        \/ /\ LedgerTotal(u) = Total(wallet[u])
          /\ w.locked \in Nat
          /\ w.available \in Nat
          /\ IF w = wallet[u]
             THEN Leave(r, "done")
             ELSE /\ Flush(r, [NoWrites EXCEPT !.wallet = w], "commitRepair")
                  /\ balanceLock' = [balanceLock EXCEPT ![u] = r]
                  /\ UNCHANGED pickLock

-----------------------------------------------------------------------------
\* COMMIT of get_db: the buffered writes become visible together.

\* Mutant: the wallet is always that of the operational user.
CommitMoneyToDefault(r) ==
  LET p == job[r].pick
      u == DefaultUser
  IN /\ pc[r] = "commitMoney"
     /\ picks' = [picks EXCEPT ![p] = buf[r].pick]
     /\ wallet' = [wallet EXCEPT ![u] = buf[r].wallet]
     /\ ledger' = [ledger EXCEPT ![u] = Append(@, buf[r].entry)]
     /\ outbox' = outbox \cup buf[r].events
     /\ End(r, "done")

CommitMoney(r) ==
  LET p == job[r].pick
      u == buf[r].pick.user
  IN /\ pc[r] = "commitMoney"
     /\ picks' = [picks EXCEPT ![p] = buf[r].pick]
     /\ wallet' = [wallet EXCEPT ![u] = buf[r].wallet]
     /\ ledger' = [ledger EXCEPT ![u] = Append(@, buf[r].entry)]
     /\ outbox' = outbox \cup buf[r].events
     /\ End(r, "done")

CommitPick(r) ==
  /\ pc[r] = "commitPick"
  /\ picks' = [picks EXCEPT ![job[r].pick] = buf[r].pick]
  /\ outbox' = outbox \cup buf[r].events
  /\ End(r, "done")
  /\ UNCHANGED <<wallet, ledger>>

CommitRepair(r) ==
  /\ pc[r] = "commitRepair"
  /\ wallet' = [wallet EXCEPT ![job[r].user] = buf[r].wallet]
  /\ End(r, "done")
  /\ UNCHANGED <<picks, ledger, outbox>>

\* A crash of the worker, a lost connection, an error after the flush: rollback.
Abort(r) == pc[r] \in InFlight /\ Leave(r, "rejected")

-----------------------------------------------------------------------------
\* The specification

\* What a request does once it has begun.
Step(r) ==
  \/ CreateUnstaked(r) \/ CreateStaked(r)
  \/ LockPick(r) \/ GateWallet(r) \/ GateLedger(r) \/ RecordSettlement(r)
  \/ FlushEdit(r) \/ Repair(r)
  \/ CommitMoney(r) \/ CommitPick(r) \/ CommitRepair(r)

BeginAny(r) == BeginCreate(r) \/ BeginSettle(r) \/ BeginDelete(r) \/ BeginEdit(r) \/ BeginFix(r)

\* No request in flight: the server is idle.
Idle == (\A r \in Requests : pc[r] \notin InFlight) /\ UNCHANGED vars

Next == Idle \/ \E r \in Requests : BeginAny(r) \/ Step(r) \/ Abort(r)

Spec == Init /\ [][Next]_vars

\* The server keeps running every handler that it has begun; a row lock goes to one of
\* its waiters when it is released, and every request ends, so weak fairness is enough.
FairSpec == Spec /\ \A r \in Requests : WF_vars(Step(r))

-----------------------------------------------------------------------------
\* Properties

TypeOK ==
  /\ picks \in [Picks -> PickRow]
  /\ wallet \in [Users -> WalletRow]
  /\ ledger \in [Users -> Seq(Entry)]
  /\ outbox \subseteq Events
  /\ pickLock \in [Picks -> Requests \cup {NoRequest}]
  /\ balanceLock \in [Users -> Requests \cup {NoRequest}]
  /\ pc \in [Requests -> InFlight \cup Final \cup {"idle"}]
  /\ job \in [Requests -> Job]
  /\ start \in [Requests -> Nat]
  /\ seenTotal \in [Requests -> Int]
  /\ buf \in [Requests -> Writes]
  /\ clock \in Nat \ {0}

\* No interleaving of bets, settlements, edits and repairs drives a wallet below zero:
\* neither the free money nor the escrow of record_movement, record_settlement and
\* fix_user_balance.
BalancesNonNegative ==
  \A u \in Users : wallet[u].available >= 0 /\ wallet[u].locked >= 0

\* However many resolve, delete and confirm requests race for a pick, the ledger holds at
\* most one settlement row of it, and that row says what the status of the pick says.
OneSettlementPerPick ==
  \A u \in Users, p \in Picks :
    /\ Cardinality(SettlementRows(u, p)) <= 1
    /\ \A i \in SettlementRows(u, p) :
         /\ picks[p].user = u
         /\ Terminal(picks[p])
         /\ ledger[u][i].type = LedgerType(picks[p].status)

\* Consumers of pick.settled learn exactly the outcomes that were committed: an event for
\* every settled pick, none for another outcome or for a transaction rolled back.
OutboxTellsOutcome ==
  \A p \in Picks, t \in Outcomes : <<p, t>> \in outbox <=> picks[p].status = t

\* No money is created or lost: the wallet holds what was funded plus the profit of the
\* user's settled picks, whatever was edited, repaired, rolled back or retried meanwhile.
PicksOf(u) == {p \in Picks : picks[p].user = u}
ProfitOf(u) == SumFunctionOnSet([p \in Picks |-> picks[p].profit], PicksOf(u))
MoneyConserved == \A u \in Users : Total(wallet[u]) = Funding[u] + ProfitOf(u)

\* The escrow is the sum of the pending stakes: what every bet locks is there until that
\* bet settles (the operations that do not edit stakes).
EscrowMatchesPending == \A u \in Users : wallet[u].locked = EscrowExpected(u)

\* The wallet row and the last committed ledger row of its user agree on the total.
LastEntry(u) == ledger[u][Len(ledger[u])]
LedgerAgrees(u) ==
  ledger[u] # <<>> => LastEntry(u).balance_after + LastEntry(u).locked_after = Total(wallet[u])
LedgerTotalIsWallet == \A u \in Users : LedgerAgrees(u)

\* The wallet row is, field by field, what its last committed ledger row says (the
\* operations that write a ledger row with every change).
LedgerMirrorsWallet ==
  \A u \in Users :
    ledger[u] # <<>> =>
      /\ LastEntry(u).balance_after = wallet[u].available
      /\ LastEntry(u).locked_after = wallet[u].locked

\* Once a pick is settled, its outcome, its owner and its profit never change, and the
\* ledger is only ever appended to.
SettledForGood ==
  [][ /\ \A p \in Picks : Terminal(picks[p]) =>
            /\ picks'[p].status = picks[p].status
            /\ picks'[p].user = picks[p].user
            /\ picks'[p].profit = picks[p].profit
      /\ \A u \in Users : \A i \in DOMAIN ledger[u] :
            i \in DOMAIN ledger'[u] /\ ledger'[u][i] = ledger[u][i] ]_vars

\* A wallet moves only with a ledger row, or by a repair, which moves money between its
\* two parts and never in or out.
NoSilentMovement ==
  [][\A u \in Users : wallet'[u] # wallet[u] =>
        \/ Len(ledger'[u]) = Len(ledger[u]) + 1
        \/ Total(wallet'[u]) = Total(wallet[u])]_vars

\* Pick locks are taken before balance locks everywhere, so no request waits for ever:
\* every handler that has begun answers.
EveryRequestEnds ==
  \A r \in Requests : pc[r] \in InFlight ~> pc[r] \in Final

\* For a client, the requests, locks and buffers are invisible: the wallets' free money
\* and the picks behave like the book of bets, each transaction one step or none (the
\* operations that do not edit stakes).
Free == [u \in Users |-> wallet[u].available]
Book == INSTANCE BetBook WITH Bets <- Picks, cash <- Free, bet <- picks
ImplementsBetBook == Book!Spec

\* The drift gate takes the row with the latest created_at for the ledger tail: with every
\* transaction ended it should agree with the wallet.
TailByTimeAgrees ==
  (\A r \in Requests : pc[r] \notin InFlight) =>
    \A u \in Users : ledger[u] # <<>> => LedgerTotal(u) = Total(wallet[u])

-----------------------------------------------------------------------------
\* The discipline of the row locks: the inductive invariant behind the properties

\* Where a request holds the row lock of its pick, and that of its wallet.
HoldsPick(r) ==
  \/ job[r].op = "create"
  \/ job[r].op = "settle" /\ pc[r] # "lockPick"
  \/ job[r].op = "edit" /\ pc[r] = "commitPick"
HoldsBalance(r) == pc[r] \in {"commitMoney", "commitRepair"}

LocksHeld ==
  \A r \in Requests :
    /\ HoldsPick(r) => pickLock[job[r].pick] = r
    /\ HoldsBalance(r) => balanceLock[UserOf(r)] = r

\* Each handler stands only at statements of its own.
Statements(op) ==
  CASE op = "none" -> Final \cup {"idle"}
    [] op = "create" -> {"create", "commitMoney", "commitPick"}
    [] op = "settle" -> {"lockPick", "gateWallet", "gateLedger", "lockBalance",
                         "commitMoney", "commitPick"}
    [] op = "edit" -> {"flush", "commitPick"}
    [] op = "fix" -> {"gateWallet", "gateLedger", "lockBalance", "commitRepair"}

\* What a handler has established about its pick stays true while it needs it.
Grounded(r) ==
  LET j == job[r]
      pk == picks[j.pick]
  IN /\ pc[r] \in Statements(j.op)
     /\ j.op = "create" => /\ pk.status = "absent"
                           /\ j.stake > 0 <=> j.user \in Users
                           /\ pc[r] = "commitMoney" => j.stake > 0
                           /\ pc[r] = "commitPick" => j.stake = 0
     /\ j.op = "fix" => j.user \in Users
     /\ j.op \in {"settle", "edit"} => pk.status # "absent"
     /\ j.op = "settle" /\ pc[r] # "lockPick" =>
          /\ pk.status = "pending"
          /\ IF pc[r] = "commitPick" THEN ResolvableAs(pk, j.target) ELSE Financial(pk)

\* A row that does not exist says nothing, and has no ledger row and no event.
RowsOK ==
  \A p \in Picks : picks[p].status = "absent" => picks[p].user = NoUser

LockInv == TypeOK /\ RowsOK /\ LocksHeld /\ \A r \in Requests : Grounded(r)

\* What a request is about to commit is what its operation gives on the tables as they
\* are at the commit, not as they were when it computed it: no update is lost.
FreshWrites(r) ==
  LET p == job[r].pick
      pk == picks[p]
      t == job[r].target
      u == UserOf(r)
      w == wallet[u]
      b == buf[r]
  IN /\ pc[r] = "commitMoney" /\ job[r].op = "create" =>
          /\ w.available >= job[r].stake
          /\ b = [pick |-> NewPick(r), wallet |-> StakeLocked(w, job[r].stake),
                  entry |-> LedgerRow("PICK_STAKE_LOCK", p, job[r].stake,
                                      StakeLocked(w, job[r].stake), start[r]),
                  events |-> {<<p, "created">>}]
     /\ pc[r] = "commitMoney" /\ job[r].op = "settle" =>
          /\ EscrowCovers(w, pk, t)
          /\ b = [pick |-> SettledPick(pk, t), wallet |-> EscrowReleased(w, pk, t),
                  entry |-> LedgerRow(LedgerType(t), p, Amount(pk, t),
                                      EscrowReleased(w, pk, t), start[r]),
                  events |-> {<<p, t>>}]
     /\ pc[r] = "commitPick" =>
          /\ b.pick = CASE job[r].op = "create" -> NewPick(r)
                         [] job[r].op = "settle" -> SettledPick(pk, t)
                         [] job[r].op = "edit" -> Edited(pk, job[r])
          /\ b.events = IF job[r].op = "settle" THEN {<<p, t>>} ELSE {}
     /\ pc[r] = "commitRepair" =>
          /\ Total(b.wallet) = Total(w)
          /\ b.wallet \in [available : Nat, locked : Nat]

NoLostUpdate == \A r \in Requests : FreshWrites(r)
=============================================================================

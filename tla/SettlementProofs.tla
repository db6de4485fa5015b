--------------------------- MODULE SettlementProofs ---------------------------
(***************************************************************************)
(* Theorems about Settlement, for every set of requests, picks and users,  *)
(* every funding and every choice of operations:                           *)
(*   - the discipline of the row locks, the inductive invariant IInv behind*)
(*     everything else: types, locks and buffered writes;                  *)
(*   - what it buys: the tables change only at the three commits, whose    *)
(*     effect on the committed tables is spelled out once, and the safety  *)
(*     of wallets, ledger, picks and outbox follows from these three;      *)
(*   - the books: money is conserved and the escrow is the sum of the      *)
(*     pending stakes, from lemmas on sums over finite sets;               *)
(*   - the refinement of the book of bets, BetBook.                        *)
(***************************************************************************)
EXTENDS Settlement, FiniteSetTheorems, WellFoundedInduction, TLAPS

\* The defaults of an idle request are well typed.
LEMMA DefaultsTyped ==
  /\ NoPick \in PickRow
  /\ EmptyWallet \in WalletRow
  /\ AnyPick \in Picks
  /\ NoJob \in Job
  /\ NoEntry \in Entry
  /\ NoWrites \in Writes
<1>1. AnyPick \in Picks
  BY UsersAssumption DEF AnyPick
<1>2. NoPick \in PickRow
  BY DEF NoPick, PickRow, Status
<1>3. EmptyWallet \in WalletRow
  BY DEF EmptyWallet, WalletRow
<1>4. NoJob \in Job
  BY <1>1 DEF NoJob, Job, Outcomes
<1>5. NoEntry \in Entry
  BY <1>1 DEF NoEntry, Entry
<1>6. NoWrites \in Writes
  BY <1>2, <1>3, <1>5 DEF NoWrites, Writes
<1> QED
  BY <1>1, <1>2, <1>3, <1>4, <1>5, <1>6

\* Settling keeps rows well typed.
LEMMA SettlingTyped ==
  ASSUME NEW pk \in PickRow, NEW t \in Outcomes, NEW w \in WalletRow
  PROVE  /\ SettledPick(pk, t) \in PickRow
         /\ EscrowReleased(w, pk, t) \in WalletRow
         /\ Amount(pk, t) \in Int
         /\ LedgerType(t) \in SettlementTypes
<1>1. /\ pk.stake \in Nat
      /\ pk.odds \in Nat
      /\ w.available \in Int
      /\ w.locked \in Int
  BY DEF PickRow, WalletRow
<1>2. pk.stake * pk.odds \in Int
  BY <1>1
<1>3. \A s \in Outcomes : Profit(s, pk.stake, pk.odds) \in Int
  BY <1>1, <1>2 DEF Profit
<1>4. Credit(pk, t) \in Int
  BY <1>1, <1>3 DEF Credit, Outcomes
<1>5. SettledPick(pk, t) \in PickRow
  BY <1>3 DEF SettledPick, PickRow, Status
<1>6. EscrowReleased(w, pk, t) \in WalletRow
  BY <1>1, <1>4 DEF EscrowReleased, WalletRow
<1>7. Amount(pk, t) \in Int
  BY <1>1, <1>4 DEF Amount
<1>8. LedgerType(t) \in SettlementTypes
  BY DEF LedgerType, SettlementTypes
<1> QED
  BY <1>5, <1>6, <1>7, <1>8

\* At the start every row is typed, no lock is held and every request is idle.
LEMMA InitLockInv == Init => LockInv
<1> SUFFICES ASSUME Init PROVE LockInv
  OBVIOUS
<1>1. TypeOK
  <2>1. wallet \in [Users -> WalletRow]
    BY MoneyAssumption DEF Init, WalletRow
  <2>2. pc \in [Requests -> InFlight \cup Final \cup {"idle"}]
    BY DEF Init
  <2> QED
    BY <2>1, <2>2, DefaultsTyped DEF Init, TypeOK
<1>2. RowsOK
  BY DEF Init, RowsOK, NoPick
<1>3. LocksHeld
  BY DEF Init, LocksHeld, HoldsPick, HoldsBalance, NoJob
<1>4. \A r \in Requests : Grounded(r)
  BY DEF Init, Grounded, Statements, NoJob
<1> QED
  BY <1>1, <1>2, <1>3, <1>4 DEF LockInv

-----------------------------------------------------------------------------
\* Types are preserved

TablesTyped ==
  /\ picks \in [Picks -> PickRow]
  /\ wallet \in [Users -> WalletRow]
  /\ ledger \in [Users -> Seq(Entry)]
  /\ outbox \subseteq Events
LocksTyped ==
  /\ pickLock \in [Picks -> Requests \cup {NoRequest}]
  /\ balanceLock \in [Users -> Requests \cup {NoRequest}]
TxnsTyped ==
  /\ pc \in [Requests -> InFlight \cup Final \cup {"idle"}]
  /\ job \in [Requests -> Job]
  /\ start \in [Requests -> Nat]
  /\ seenTotal \in [Requests -> Int]
  /\ buf \in [Requests -> Writes]
  /\ clock \in Nat \ {0}

\* The type invariant in three parts: tables, row locks and transactions.
LEMMA TypeParts == TypeOK <=> TablesTyped /\ LocksTyped /\ TxnsTyped
BY DEF TypeOK, TablesTyped, LocksTyped, TxnsTyped

\* The ways in which an action moves a transaction.
LEMMA BeginTyped ==
  ASSUME TypeOK, NEW r \in Requests, NEW todo \in Job, NEW at \in InFlight,
         Begin(r, todo, at)
  PROVE  TablesTyped' /\ TxnsTyped'
BY DEF TypeOK, Begin, TablesTyped, TxnsTyped, tables

\* Ending a transaction keeps locks and transactions typed.
LEMMA EndTyped ==
  ASSUME TypeOK, NEW r \in Requests, NEW how \in Final, End(r, how)
  PROVE  LocksTyped' /\ TxnsTyped'
BY DefaultsTyped DEF TypeOK, End, LocksTyped, TxnsTyped

\* So does a rollback or a no-op, which leaves the tables as they are.
LEMMA LeaveTyped ==
  ASSUME TypeOK, NEW r \in Requests, NEW how \in Final, Leave(r, how)
  PROVE  TypeOK'
<1>1. LocksTyped' /\ TxnsTyped'
  BY EndTyped DEF Leave
<1>2. TablesTyped'
  BY DEF Leave, TypeOK, TablesTyped, tables
<1> QED
  BY <1>1, <1>2, TypeParts DEF TypeOK, TablesTyped, LocksTyped, TxnsTyped

\* Flushing typed writes keeps the transaction typed and touches no table.
LEMMA FlushTyped ==
  ASSUME TypeOK, NEW r \in Requests, NEW writes \in Writes, NEW at \in InFlight,
         Flush(r, writes, at)
  PROVE  TablesTyped' /\ TxnsTyped'
BY DEF TypeOK, Flush, Goto, TablesTyped, TxnsTyped, tables

\* The writes that the handlers buffer.
LEMMA NewPickTyped ==
  ASSUME TypeOK, NEW r \in Requests
  PROVE  NewPick(r) \in PickRow
BY DEF TypeOK, NewPick, PickRow, Job, Status

\* The wallet after record_movement has locked a stake.
LEMMA StakeLockedTyped ==
  ASSUME NEW w \in WalletRow, NEW s \in Nat
  PROVE  StakeLocked(w, s) \in WalletRow
BY DEF StakeLocked, WalletRow

\* The row that record_movement or record_settlement appends.
LEMMA LedgerRowTyped ==
  ASSUME NEW type \in SettlementTypes \cup {"PICK_STAKE_LOCK"}, NEW p \in Picks,
         NEW amount \in Int, NEW w \in WalletRow, NEW time \in Nat
  PROVE  LedgerRow(type, p, amount, w, time) \in Entry
BY DEF LedgerRow, Entry, WalletRow

\* The row that update_pick writes.
LEMMA EditedTyped ==
  ASSUME NEW pk \in PickRow, NEW j \in Job
  PROVE  Edited(pk, j) \in PickRow
BY DEF Edited, PickRow, Job

-----------------------------------------------------------------------------
\* The inductive invariant: types, the lock discipline, and buffered writes that are
\* still what the operation gives.

IInv == LockInv /\ NoLostUpdate

\* The facts about one request that the steps below use over and over.
LEMMA RequestFacts ==
  ASSUME IInv, NEW r \in Requests
  PROVE  /\ job[r] \in Job
         /\ job[r].op # "none" => picks[job[r].pick] \in PickRow
         /\ Grounded(r)
         /\ FreshWrites(r)
         /\ buf[r] \in Writes
         /\ start[r] \in Nat
BY DEF IInv, LockInv, NoLostUpdate, TypeOK, Job

\* A request that works on a wallet works on the wallet of a user.
LEMMA UserOfTyped ==
  ASSUME IInv, NEW r \in Requests,
         pc[r] \in {"gateWallet", "gateLedger", "lockBalance", "commitMoney", "commitRepair"}
  PROVE  UserOf(r) \in Users /\ wallet[UserOf(r)] \in WalletRow
<1>1. job[r].op \in {"none", "create", "settle", "edit", "fix"} /\ Grounded(r)
  BY RequestFacts DEF Job
<1>2. ASSUME job[r].op = "create" PROVE UserOf(r) \in Users
  BY <1>1, <1>2 DEF Grounded, Statements, UserOf
<1>3. ASSUME job[r].op = "settle" PROVE UserOf(r) \in Users
  <2>1. Financial(picks[job[r].pick]) /\ picks[job[r].pick] \in PickRow
    BY <1>1, <1>3, RequestFacts DEF Grounded
  <2> QED
    BY <1>3, <2>1 DEF UserOf, Financial, PickRow
<1>4. ASSUME job[r].op = "fix" PROVE UserOf(r) \in Users
  BY <1>1, <1>4 DEF Grounded, UserOf
<1>5. job[r].op \in {"create", "settle", "fix"}
  BY <1>1 DEF Grounded, Statements, Final
<1>6. UserOf(r) \in Users
  BY <1>2, <1>3, <1>4, <1>5
<1> QED
  BY <1>6 DEF IInv, LockInv, TypeOK

\* Every action keeps every table, lock and transaction typed.
LEMMA TypeStep ==
  ASSUME IInv, [Next]_vars
  PROVE  TypeOK'
<1> USE DEF InFlight
<1>t. TypeOK
  BY DEF IInv, LockInv
<1>1. ASSUME NEW r \in Requests, BeginCreate(r)
      PROVE  TypeOK'
  <2>1. PICK p \in Picks, u \in Users, s \in Stakes \cup {0}, o \in Odds :
          /\ Begin(r, [NoJob EXCEPT !.op = "create", !.pick = p, !.odds = o, !.stake = s,
                                    !.user = IF s > 0 THEN u ELSE NoUser], "create")
          /\ pickLock' = [pickLock EXCEPT ![p] = r]
          /\ UNCHANGED balanceLock
    BY <1>1 DEF BeginCreate
  <2>2. [NoJob EXCEPT !.op = "create", !.pick = p, !.odds = o, !.stake = s,
                      !.user = IF s > 0 THEN u ELSE NoUser] \in Job
    <3>1. /\ s \in Nat
          /\ o \in Nat
          /\ (IF s > 0 THEN u ELSE NoUser) \in Users \cup {NoUser}
      BY MoneyAssumption
    <3> QED
      BY <3>1, DefaultsTyped DEF Job
  <2>3. TablesTyped' /\ TxnsTyped'
    BY <1>t, <2>1, <2>2, BeginTyped
  <2>4. LocksTyped'
    BY <1>t, <2>1 DEF TypeOK, LocksTyped
  <2> QED
    BY <2>3, <2>4 DEF TypeOK, TablesTyped, TxnsTyped, LocksTyped
<1>2. ASSUME NEW r \in Requests, NEW todo \in Job, NEW at \in InFlight,
             Begin(r, todo, at), UNCHANGED locks
      PROVE  TypeOK'
  <2>1. TablesTyped' /\ TxnsTyped'
    BY <1>t, <1>2, BeginTyped
  <2>2. LocksTyped'
    BY <1>t, <1>2 DEF TypeOK, LocksTyped, locks
  <2> QED
    BY <2>1, <2>2 DEF TypeOK, TablesTyped, TxnsTyped, LocksTyped
<1>3. ASSUME NEW r \in Requests, BeginSettle(r)
      PROVE  TypeOK'
  <2>1. PICK p \in Picks, t \in Outcomes :
          Begin(r, [NoJob EXCEPT !.op = "settle", !.pick = p, !.target = t], "lockPick")
    BY <1>3 DEF BeginSettle
  <2>2. [NoJob EXCEPT !.op = "settle", !.pick = p, !.target = t] \in Job
    BY DEF NoJob, Job
  <2> QED
    BY <1>2, <1>3, <2>1, <2>2 DEF BeginSettle
<1>4. ASSUME NEW r \in Requests, BeginDelete(r)
      PROVE  TypeOK'
  <2>1. PICK p \in Picks :
          Begin(r, [NoJob EXCEPT !.op = "settle", !.pick = p, !.target = "void"], "lockPick")
    BY <1>4 DEF BeginDelete
  <2>2. [NoJob EXCEPT !.op = "settle", !.pick = p, !.target = "void"] \in Job
    BY DEF NoJob, Job, Outcomes
  <2> QED
    BY <1>2, <1>4, <2>1, <2>2 DEF BeginDelete
<1>5. ASSUME NEW r \in Requests, BeginEdit(r)
      PROVE  TypeOK'
  <2>1. PICK p \in Picks, s \in Stakes \cup {0}, o \in Odds :
          Begin(r, [NoJob EXCEPT !.op = "edit", !.pick = p, !.stake = s, !.odds = o,
                                 !.cols = Changed(picks[p], s, o)], "flush")
    BY <1>5 DEF BeginEdit
  <2>2. [NoJob EXCEPT !.op = "edit", !.pick = p, !.stake = s, !.odds = o,
                      !.cols = Changed(picks[p], s, o)] \in Job
    <3>1. s \in Nat /\ o \in Nat /\ Changed(picks[p], s, o) \in SUBSET {"stake", "odds"}
      BY MoneyAssumption DEF Changed
    <3> QED
      BY <3>1, DefaultsTyped DEF Job
  <2> QED
    BY <1>2, <1>5, <2>1, <2>2 DEF BeginEdit
<1>6. ASSUME NEW r \in Requests, BeginFix(r)
      PROVE  TypeOK'
  <2>1. PICK u \in Users : Begin(r, [NoJob EXCEPT !.op = "fix", !.user = u], "gateWallet")
    BY <1>6 DEF BeginFix
  <2>2. [NoJob EXCEPT !.op = "fix", !.user = u] \in Job
    BY DefaultsTyped DEF Job, NoJob
  <2> QED
    BY <1>2, <1>6, <2>1, <2>2 DEF BeginFix
<1>7. ASSUME NEW r \in Requests, CreateUnstaked(r)
      PROVE  TypeOK'
  <2>1. [NoWrites EXCEPT !.pick = NewPick(r)] \in Writes
    BY <1>t, NewPickTyped, DefaultsTyped DEF Writes
  <2>2. TablesTyped' /\ TxnsTyped'
    BY <1>t, <1>7, <2>1, FlushTyped DEF CreateUnstaked
  <2>3. LocksTyped'
    BY <1>t, <1>7 DEF CreateUnstaked, TypeOK, LocksTyped, locks
  <2> QED
    BY <2>2, <2>3 DEF TypeOK, TablesTyped, TxnsTyped, LocksTyped
<1>8. ASSUME NEW r \in Requests, CreateStaked(r)
      PROVE  TypeOK'
  <2> DEFINE p == job[r].pick
             u == job[r].user
             s == job[r].stake
             w == StakeLocked(wallet[u], s)
             b == [pick |-> NewPick(r), wallet |-> w,
                   entry |-> LedgerRow("PICK_STAKE_LOCK", p, s, w, start[r]),
                   events |-> {<<p, "created">>}]
  <2>1. CASE wallet[u].available < s
    BY <1>t, <1>8, <2>1, LeaveTyped DEF CreateStaked, Final
  <2>2. CASE ~(wallet[u].available < s)
    <3>1. /\ p \in Picks
          /\ u \in Users
          /\ s \in Nat
      BY <1>8, RequestFacts DEF CreateStaked, Grounded, Statements, Job, Final
    <3>2. w \in WalletRow
      BY <1>t, <3>1, StakeLockedTyped DEF TypeOK
    <3>3. LedgerRow("PICK_STAKE_LOCK", p, s, w, start[r]) \in Entry
      <4>1. s \in Int /\ start[r] \in Nat
        BY <3>1, RequestFacts
      <4> HIDE DEF w
      <4> QED
        BY <3>1, <3>2, <4>1, LedgerRowTyped
    <3>4. <<p, "created">> \in Events
      BY <3>1 DEF Events
    <3>5. NewPick(r) \in PickRow
      BY <1>t, NewPickTyped
    <3> HIDE DEF w
    <3>6. b \in Writes
      BY <3>2, <3>3, <3>4, <3>5 DEF Writes
    <3>7. Flush(r, b, "commitMoney") /\ balanceLock' = [balanceLock EXCEPT ![u] = r] /\ UNCHANGED pickLock
      BY <1>8, <2>2 DEF CreateStaked, w
    <3> HIDE DEF b
    <3>8. TablesTyped' /\ TxnsTyped'
      BY <1>t, <3>6, <3>7, FlushTyped
    <3>9. LocksTyped'
      BY <1>t, <3>1, <3>7 DEF TypeOK, LocksTyped
    <3> QED
      BY <3>8, <3>9 DEF TypeOK, TablesTyped, TxnsTyped, LocksTyped
  <2> QED
    BY <2>1, <2>2
<1>9. ASSUME NEW r \in Requests, LockPick(r)
      PROVE  TypeOK'
  <2> DEFINE p == job[r].pick
             t == job[r].target
             pk == picks[p]
             b == [NoWrites EXCEPT !.pick = SettledPick(pk, t), !.events = {<<p, t>>}]
  <2>0. /\ p \in Picks
        /\ t \in Outcomes
        /\ pk \in PickRow
    BY <1>t, RequestFacts DEF Job, TypeOK
  <2>1. \/ Leave(r, "done")
        \/ Leave(r, "rejected")
        \/ /\ Goto(r, "gateWallet")
           /\ pickLock' = [pickLock EXCEPT ![p] = r]
           /\ UNCHANGED <<seenTotal, buf, balanceLock>>
        \/ /\ Flush(r, b, "commitPick")
           /\ pickLock' = [pickLock EXCEPT ![p] = r]
           /\ UNCHANGED balanceLock
    BY <1>9 DEF LockPick
  <2>2. CASE Leave(r, "done") \/ Leave(r, "rejected")
    BY <1>t, <2>2, LeaveTyped DEF Final
  <2>3. CASE /\ Goto(r, "gateWallet")
             /\ pickLock' = [pickLock EXCEPT ![p] = r]
             /\ UNCHANGED <<seenTotal, buf, balanceLock>>
    BY <1>t, <2>0, <2>3 DEF Goto, TypeOK, tables
  <2>4. CASE /\ Flush(r, b, "commitPick")
             /\ pickLock' = [pickLock EXCEPT ![p] = r]
             /\ UNCHANGED balanceLock
    <3>1. SettledPick(pk, t) \in PickRow
      BY <2>0, DefaultsTyped, SettlingTyped
    <3>2. b \in Writes
      <4>1. {<<p, t>>} \in SUBSET Events
        BY <2>0 DEF Events
      <4> QED
        BY <3>1, <4>1, DefaultsTyped DEF Writes
    <3> HIDE DEF b
    <3>3. TablesTyped' /\ TxnsTyped'
      BY <1>t, <2>4, <3>2, FlushTyped
    <3>4. LocksTyped'
      BY <1>t, <2>0, <2>4 DEF TypeOK, LocksTyped
    <3> QED
      BY <3>3, <3>4 DEF TypeOK, TablesTyped, TxnsTyped, LocksTyped
  <2> QED
    BY <2>1, <2>2, <2>3, <2>4
<1>10. ASSUME NEW r \in Requests, GateWallet(r)
       PROVE  TypeOK'
  <2>1. Total(wallet[UserOf(r)]) \in Int
    BY <1>10, UserOfTyped DEF GateWallet, Total, WalletRow
  <2> QED
    BY <1>t, <1>10, <2>1 DEF GateWallet, Goto, TypeOK, tables, locks
<1>11. ASSUME NEW r \in Requests, GateLedger(r)
       PROVE  TypeOK'
  <2>1. CASE Leave(r, "corrupted")
    BY <1>t, <2>1, LeaveTyped DEF Final
  <2>2. CASE Goto(r, "lockBalance") /\ UNCHANGED <<seenTotal, buf, locks>>
    BY <1>t, <2>2 DEF Goto, TypeOK, tables, locks
  <2> QED
    BY <1>11, <2>1, <2>2 DEF GateLedger
<1>12. ASSUME NEW r \in Requests, RecordSettlement(r)
       PROVE  TypeOK'
  <2> DEFINE p == job[r].pick
             pk == picks[p]
             u == pk.user
             t == job[r].target
             w == EscrowReleased(wallet[u], pk, t)
             b == [pick |-> SettledPick(pk, t), wallet |-> w,
                   entry |-> LedgerRow(LedgerType(t), p, Amount(pk, t), w, start[r]),
                   events |-> {<<p, t>>}]
             c == [NoWrites EXCEPT !.pick = SettledPick(pk, t), !.events = {<<p, t>>}]
  <2>0. /\ p \in Picks
        /\ t \in Outcomes
        /\ pk \in PickRow
    BY <1>t, RequestFacts DEF Job, TypeOK
  <2>1. u \in Users /\ wallet[u] \in WalletRow
    BY <1>12, UserOfTyped DEF RecordSettlement, UserOf
  <2>2. CASE Leave(r, "rejected")
    BY <1>t, <2>2, LeaveTyped DEF Final
  <2>3. CASE /\ Flush(r, b, "commitMoney")
             /\ balanceLock' = [balanceLock EXCEPT ![u] = r]
             /\ UNCHANGED pickLock
    <3>1. /\ SettledPick(pk, t) \in PickRow
          /\ w \in WalletRow
          /\ Amount(pk, t) \in Int
          /\ LedgerType(t) \in SettlementTypes
      BY <2>0, <2>1, SettlingTyped
    <3>2. LedgerRow(LedgerType(t), p, Amount(pk, t), w, start[r]) \in Entry
      BY <2>0, <3>1, RequestFacts, LedgerRowTyped
    <3>3. <<p, t>> \in Events
      BY <2>0 DEF Events
    <3> HIDE DEF w
    <3>4. b \in Writes
      BY <3>1, <3>2, <3>3 DEF Writes
    <3> HIDE DEF b
    <3>5. TablesTyped' /\ TxnsTyped'
      BY <1>t, <2>3, <3>4, FlushTyped
    <3>6. LocksTyped'
      BY <1>t, <2>1, <2>3 DEF TypeOK, LocksTyped
    <3> QED
      BY <3>5, <3>6 DEF TypeOK, TablesTyped, TxnsTyped, LocksTyped
  <2>4. CASE /\ Flush(r, c, "commitPick")
             /\ balanceLock' = [balanceLock EXCEPT ![u] = r]
             /\ UNCHANGED pickLock
    <3>1. SettledPick(pk, t) \in PickRow
      BY <2>0, <2>1, SettlingTyped
    <3>2. c \in Writes
      <4>1. {<<p, t>>} \in SUBSET Events
        BY <2>0 DEF Events
      <4> QED
        BY <3>1, <4>1, DefaultsTyped DEF Writes
    <3> HIDE DEF c
    <3>3. TablesTyped' /\ TxnsTyped'
      BY <1>t, <2>4, <3>2, FlushTyped
    <3>4. LocksTyped'
      BY <1>t, <2>1, <2>4 DEF TypeOK, LocksTyped
    <3> QED
      BY <3>3, <3>4 DEF TypeOK, TablesTyped, TxnsTyped, LocksTyped
  <2>5. \/ Leave(r, "rejected")
        \/ /\ Flush(r, c, "commitPick")
           /\ balanceLock' = [balanceLock EXCEPT ![u] = r]
           /\ UNCHANGED pickLock
        \/ /\ Flush(r, b, "commitMoney")
           /\ balanceLock' = [balanceLock EXCEPT ![u] = r]
           /\ UNCHANGED pickLock
    BY <1>12 DEF RecordSettlement
  <2> QED
    BY <2>2, <2>3, <2>4, <2>5
<1>13. ASSUME NEW r \in Requests, FlushEdit(r)
       PROVE  TypeOK'
  <2> DEFINE p == job[r].pick
             b == [NoWrites EXCEPT !.pick = Edited(picks[p], job[r])]
  <2>1. p \in Picks /\ picks[p] \in PickRow /\ job[r] \in Job
    BY <1>t, RequestFacts DEF Job, TypeOK
  <2>2. b \in Writes
    BY <2>1, EditedTyped, DefaultsTyped DEF Writes
  <2> HIDE DEF b
  <2>3. TablesTyped' /\ TxnsTyped'
    BY <1>t, <1>13, <2>2, FlushTyped DEF FlushEdit, b
  <2>4. LocksTyped'
    BY <1>t, <1>13, <2>1 DEF TypeOK, LocksTyped, FlushEdit
  <2> QED
    BY <2>3, <2>4 DEF TypeOK, TablesTyped, TxnsTyped, LocksTyped
<1>14. ASSUME NEW r \in Requests, Repair(r)
       PROVE  TypeOK'
  <2> DEFINE u == job[r].user
             w == RepairedWallet(u)
             b == [NoWrites EXCEPT !.wallet = w]
  <2>1. u \in Users
    BY <1>14, RequestFacts DEF Repair, Grounded
  <2>2. CASE Leave(r, "rejected") \/ Leave(r, "done")
    BY <1>t, <2>2, LeaveTyped DEF Final
  <2>3. CASE /\ w.locked \in Nat
             /\ w.available \in Nat
             /\ Flush(r, b, "commitRepair")
             /\ balanceLock' = [balanceLock EXCEPT ![u] = r]
             /\ UNCHANGED pickLock
    <3>1. w \in WalletRow
      BY <2>3 DEF RepairedWallet, WalletRow
    <3> HIDE DEF w
    <3>2. b \in Writes
      BY <3>1, DefaultsTyped DEF Writes
    <3> HIDE DEF b
    <3>3. TablesTyped' /\ TxnsTyped'
      BY <1>t, <2>3, <3>2, FlushTyped
    <3>4. LocksTyped'
      BY <1>t, <2>1, <2>3 DEF TypeOK, LocksTyped
    <3> QED
      BY <3>3, <3>4 DEF TypeOK, TablesTyped, TxnsTyped, LocksTyped
  <2> QED
    BY <1>14, <2>2, <2>3 DEF Repair
<1>15. ASSUME NEW r \in Requests, CommitMoney(r)
       PROVE  TypeOK'
  <2>1. /\ buf[r].pick \in PickRow
        /\ buf[r].wallet \in WalletRow
        /\ buf[r].entry \in Entry
        /\ buf[r].events \subseteq Events
    BY RequestFacts DEF Writes
  <2>2. TablesTyped'
    <3>1. \A u \in Users : Append(ledger[u], buf[r].entry) \in Seq(Entry)
      BY <1>t, <2>1 DEF TypeOK
    <3>2. ledger' \in [Users -> Seq(Entry)]
      BY <1>t, <1>15, <3>1 DEF CommitMoney, TypeOK
    <3> QED
      BY <1>t, <1>15, <2>1, <3>2 DEF CommitMoney, TypeOK, TablesTyped
  <2>3. LocksTyped' /\ TxnsTyped'
    BY <1>t, <1>15, EndTyped DEF CommitMoney, Final
  <2> QED
    BY <2>2, <2>3 DEF TypeOK, TablesTyped, TxnsTyped, LocksTyped
<1>16. ASSUME NEW r \in Requests, CommitPick(r)
       PROVE  TypeOK'
  <2>1. buf[r].pick \in PickRow /\ buf[r].events \subseteq Events
    BY RequestFacts DEF Writes
  <2>2. TablesTyped'
    BY <1>t, <1>16, <2>1 DEF CommitPick, TypeOK, TablesTyped
  <2>3. LocksTyped' /\ TxnsTyped'
    BY <1>t, <1>16, EndTyped DEF CommitPick, Final
  <2> QED
    BY <2>2, <2>3 DEF TypeOK, TablesTyped, TxnsTyped, LocksTyped
<1>17. ASSUME NEW r \in Requests, CommitRepair(r)
       PROVE  TypeOK'
  <2>1. buf[r].wallet \in WalletRow
    BY RequestFacts DEF Writes
  <2>2. TablesTyped'
    BY <1>t, <1>17, <2>1 DEF CommitRepair, TypeOK, TablesTyped
  <2>3. LocksTyped' /\ TxnsTyped'
    BY <1>t, <1>17, EndTyped DEF CommitRepair, Final
  <2> QED
    BY <2>2, <2>3 DEF TypeOK, TablesTyped, TxnsTyped, LocksTyped
<1>18. ASSUME NEW r \in Requests, Abort(r)
       PROVE  TypeOK'
  BY <1>t, <1>18, LeaveTyped DEF Abort, Final
<1>19. CASE UNCHANGED vars
  BY <1>t, <1>19 DEF TypeOK, vars, tables, locks, txns
<1> QED
  BY <1>1, <1>3, <1>4, <1>5, <1>6, <1>7, <1>8, <1>9, <1>10, <1>11, <1>12, <1>13, <1>14,
     <1>15, <1>16, <1>17, <1>18, <1>19 DEF Next, BeginAny, Step, Idle

-----------------------------------------------------------------------------
\* The lock discipline is preserved

\* What a request knows and holds.
Own(r) ==
  /\ HoldsPick(r) => pickLock[job[r].pick] = r
  /\ HoldsBalance(r) => balanceLock[UserOf(r)] = r
  /\ Grounded(r)
  /\ FreshWrites(r)

\* The inductive invariant, request by request.
LEMMA OwnParts == IInv <=> TypeOK /\ RowsOK /\ \A r \in Requests : Own(r)
BY DEF IInv, LockInv, LocksHeld, NoLostUpdate, Own

\* One request's step leaves the transactions of the others alone: their program counters,
\* their jobs, their buffered writes and the locks they hold.
LEMMA OthersTxn ==
  ASSUME TypeOK, NEW r \in Requests, BeginAny(r) \/ Step(r) \/ Abort(r),
         NEW q \in Requests, q # r
  PROVE  /\ pc'[q] = pc[q]
         /\ job'[q] = job[q]
         /\ start'[q] = start[q]
         /\ buf'[q] = buf[q]
         /\ \A p \in Picks : pickLock[p] = q => pickLock'[p] = q
         /\ \A u \in Users : balanceLock[u] = q => balanceLock'[u] = q
<1> DEFINE Goal == /\ pc'[q] = pc[q]
                   /\ job'[q] = job[q]
                   /\ start'[q] = start[q]
                   /\ buf'[q] = buf[q]
                   /\ \A p \in Picks : pickLock[p] = q => pickLock'[p] = q
                   /\ \A u \in Users : balanceLock[u] = q => balanceLock'[u] = q
<1> USE UsersAssumption DEF TypeOK
<1>1. ASSUME NEW how \in Final, End(r, how)
      PROVE  Goal
  BY <1>1 DEF End
<1>2. ASSUME NEW how \in Final, Leave(r, how)
      PROVE  Goal
  BY <1>1, <1>2 DEF Leave
<1>3. CASE BeginCreate(r)
  BY <1>3 DEF BeginCreate, Begin, PickFree
<1>4. CASE BeginSettle(r)
  BY <1>4 DEF BeginSettle, Begin, locks
<1>5. CASE BeginDelete(r)
  BY <1>5 DEF BeginDelete, Begin, locks
<1>6. CASE BeginEdit(r)
  BY <1>6 DEF BeginEdit, Begin, locks
<1>7. CASE BeginFix(r)
  BY <1>7 DEF BeginFix, Begin, locks
<1>8. CASE CreateUnstaked(r)
  BY <1>8 DEF CreateUnstaked, Flush, Goto, locks
<1>9. CASE CreateStaked(r)
  BY <1>2, <1>9 DEF CreateStaked, Flush, Goto, BalanceFree, Final
<1>10. CASE LockPick(r)
  BY <1>2, <1>10 DEF LockPick, Flush, Goto, PickFree, Final
<1>11. CASE GateWallet(r)
  BY <1>11 DEF GateWallet, Goto, locks
<1>12. CASE GateLedger(r)
  BY <1>2, <1>12 DEF GateLedger, Goto, locks, Final
<1>13. CASE RecordSettlement(r)
  BY <1>2, <1>13 DEF RecordSettlement, Flush, Goto, BalanceFree, Final
<1>14. CASE FlushEdit(r)
  BY <1>14 DEF FlushEdit, Flush, Goto, PickFree
<1>15. CASE Repair(r)
  BY <1>2, <1>15 DEF Repair, Flush, Goto, BalanceFree, Final
<1>16. CASE CommitMoney(r)
  BY <1>1, <1>16 DEF CommitMoney, Final
<1>17. CASE CommitPick(r)
  BY <1>1, <1>17 DEF CommitPick, Final
<1>18. CASE CommitRepair(r)
  BY <1>1, <1>18 DEF CommitRepair, Final
<1>19. CASE Abort(r)
  BY <1>2, <1>19 DEF Abort, Final
<1> QED
  BY <1>3, <1>4, <1>5, <1>6, <1>7, <1>8, <1>9, <1>10, <1>11, <1>12, <1>13, <1>14, <1>15,
     <1>16, <1>17, <1>18, <1>19 DEF BeginAny, Step

\* The tables change only at a commit.
LEMMA OnlyCommitsWrite ==
  ASSUME NEW r \in Requests, BeginAny(r) \/ Step(r) \/ Abort(r),
         ~CommitMoney(r), ~CommitPick(r), ~CommitRepair(r)
  PROVE  UNCHANGED tables
BY DEF BeginAny, Step, Abort, BeginCreate, BeginSettle, BeginDelete, BeginEdit, BeginFix,
       Begin, Leave, CreateUnstaked, CreateStaked, LockPick, GateWallet, GateLedger,
       RecordSettlement, FlushEdit, Repair, Flush, Goto

\* What the buffered pick of a committing request looks like.
LEMMA BufferedPick ==
  ASSUME IInv, NEW r \in Requests, pc[r] \in {"commitMoney", "commitPick"}
  PROVE  /\ job[r].pick \in Picks
         /\ pickLock[job[r].pick] = r
         /\ job[r].op \in {"create", "settle", "edit"}
         /\ buf[r].pick.status # "absent"
         /\ picks[job[r].pick].status # "absent" =>
              buf[r].pick.user = picks[job[r].pick].user
<1> DEFINE p == job[r].pick
<1>1. /\ job[r] \in Job
      /\ picks[p] \in PickRow
      /\ p \in Picks
  BY DEF IInv, LockInv, TypeOK, Job
<1>2. Own(r)
  BY OwnParts
<1>3. job[r].op \in {"create", "settle", "edit"}
  BY <1>1, <1>2 DEF Own, Grounded, Statements, Job, Final
<1>4. pickLock[p] = r
  BY <1>2, <1>3 DEF Own, HoldsPick, Grounded, Statements
<1>5. ASSUME job[r].op = "create"
      PROVE  buf[r].pick.status # "absent" /\ picks[p].status = "absent"
  BY <1>2, <1>5 DEF Own, FreshWrites, Grounded, NewPick
<1>6. ASSUME job[r].op = "settle"
      PROVE  buf[r].pick.status # "absent" /\ buf[r].pick.user = picks[p].user
  <2>1. buf[r].pick = SettledPick(picks[p], job[r].target)
    BY <1>2, <1>6 DEF Own, FreshWrites
  <2>2. job[r].target \in Outcomes
    BY <1>1 DEF Job
  <2> QED
    BY <1>1, <2>1, <2>2 DEF SettledPick, PickRow, Outcomes
<1>7. ASSUME job[r].op = "edit"
      PROVE  buf[r].pick.status # "absent" /\ buf[r].pick.user = picks[p].user
  BY <1>1, <1>2, <1>7 DEF Own, FreshWrites, Grounded, Statements, Edited, PickRow
<1> QED
  BY <1>1, <1>3, <1>4, <1>5, <1>6, <1>7

\* A step writes only to the rows it has locked; a pick that exists goes on existing and
\* keeps its owner.
LEMMA TableFrame ==
  ASSUME IInv, NEW r \in Requests, BeginAny(r) \/ Step(r) \/ Abort(r)
  PROVE  /\ \A p \in Picks : pickLock[p] # r => picks'[p] = picks[p]
         /\ \A u \in Users : balanceLock[u] # r =>
                wallet'[u] = wallet[u] /\ ledger'[u] = ledger[u]
         /\ \A p \in Picks : picks[p].status # "absent" =>
                picks'[p].status # "absent" /\ picks'[p].user = picks[p].user
         /\ \A p \in Picks : picks'[p].status = "absent" => picks'[p] = picks[p]
<1>t. TypeOK
  BY DEF IInv, LockInv
<1>1. CASE CommitMoney(r)
  <2>1. pc[r] = "commitMoney"
    BY <1>1 DEF CommitMoney
  <2>2. balanceLock[buf[r].pick.user] = r
    <3>1. Own(r)
      BY OwnParts
    <3>2. balanceLock[UserOf(r)] = r
      BY <2>1, <3>1 DEF Own, HoldsBalance
    <3>3. CASE job[r].op = "create"
      BY <2>1, <3>1, <3>2, <3>3 DEF Own, FreshWrites, NewPick, UserOf
    <3>4. CASE job[r].op = "settle"
      BY <2>1, <3>1, <3>2, <3>4, BufferedPick DEF UserOf, Own, Grounded
    <3> QED
      BY <2>1, <3>1, <3>3, <3>4, BufferedPick DEF Own, Grounded, Statements
  <2> QED
    BY <1>t, <1>1, <2>1, <2>2, BufferedPick DEF CommitMoney, TypeOK
<1>2. CASE CommitPick(r)
  BY <1>t, <1>2, BufferedPick DEF CommitPick, TypeOK
<1>3. CASE CommitRepair(r)
  <2>1. balanceLock[job[r].user] = r
    BY <1>3, OwnParts DEF Own, HoldsBalance, CommitRepair, UserOf, Grounded, Statements
  <2> QED
    BY <1>t, <1>3, <2>1 DEF CommitRepair, TypeOK
<1>4. CASE ~CommitMoney(r) /\ ~CommitPick(r) /\ ~CommitRepair(r)
  BY <1>4, OnlyCommitsWrite DEF tables
<1> QED
  BY <1>1, <1>2, <1>3, <1>4

\* So what another request knows stays true.
LEMMA OthersOwn ==
  ASSUME IInv, NEW r \in Requests, BeginAny(r) \/ Step(r) \/ Abort(r),
         NEW q \in Requests, q # r
  PROVE  Own(q)'
<1> DEFINE p == job[q].pick
<1>t. TypeOK /\ Own(q)
  BY OwnParts DEF IInv, LockInv
<1>1. /\ pc'[q] = pc[q]
      /\ job'[q] = job[q]
      /\ start'[q] = start[q]
      /\ buf'[q] = buf[q]
      /\ \A x \in Picks : pickLock[x] = q => pickLock'[x] = q
      /\ \A u \in Users : balanceLock[u] = q => balanceLock'[u] = q
  BY <1>t, OthersTxn
<1>2. p \in Picks /\ job[q] \in Job
  BY <1>t DEF TypeOK, Job
<1>3. HoldsPick(q) => pickLock[p] = q /\ picks'[p] = picks[p]
  BY <1>t, <1>2, TableFrame DEF Own
<1>4. picks[p].status # "absent" =>
        picks'[p].status # "absent" /\ picks'[p].user = picks[p].user
  BY <1>2, TableFrame
<1>5. UserOf(q)' = UserOf(q)
  BY <1>1, <1>4, <1>t DEF UserOf, Own, Grounded
<1>6. HoldsBalance(q) =>
        /\ UserOf(q) \in Users
        /\ balanceLock[UserOf(q)] = q
        /\ wallet'[UserOf(q)] = wallet[UserOf(q)]
  BY <1>t, UserOfTyped, TableFrame DEF Own, HoldsBalance
<1>7. HoldsPick(q)' <=> HoldsPick(q)
  BY <1>1 DEF HoldsPick
<1>8. HoldsBalance(q)' <=> HoldsBalance(q)
  BY <1>1 DEF HoldsBalance
<1>9. (HoldsPick(q) => pickLock[job[q].pick] = q)'
  BY <1>1, <1>2, <1>3, <1>7
<1>10. (HoldsBalance(q) => balanceLock[UserOf(q)] = q)'
  BY <1>1, <1>5, <1>6, <1>8
<1>11. Grounded(q)'
  <2>1. pc'[q] \in Statements(job'[q].op)
    BY <1>t, <1>1 DEF Own, Grounded
  <2>2. CASE HoldsPick(q)
    BY <1>t, <1>1, <1>3, <2>1, <2>2 DEF Own, Grounded
  <2>3. CASE ~HoldsPick(q)
    BY <1>t, <1>1, <1>4, <2>1, <2>3 DEF Own, Grounded, HoldsPick
  <2> QED
    BY <2>2, <2>3
<1>12. FreshWrites(q)'
  <2>1. pc[q] = "commitMoney" => HoldsPick(q) /\ HoldsBalance(q)
    BY <1>t, <1>2 DEF Own, Grounded, Statements, HoldsPick, HoldsBalance, Job, Final
  <2>2. pc[q] = "commitPick" => HoldsPick(q)
    BY <1>t, <1>2 DEF Own, Grounded, Statements, HoldsPick, Job, Final
  <2>3. pc[q] = "commitRepair" => HoldsBalance(q)
    BY DEF HoldsBalance
  <2>4. NewPick(q)' = NewPick(q)
    BY <1>1 DEF NewPick
  <2>5. CASE pc[q] = "commitMoney"
    BY <1>t, <1>1, <1>3, <1>5, <1>6, <2>1, <2>4, <2>5 DEF Own, FreshWrites
  <2>6. CASE pc[q] = "commitPick"
    BY <1>t, <1>1, <1>3, <2>2, <2>4, <2>6 DEF Own, FreshWrites
  <2>7. CASE pc[q] = "commitRepair"
    BY <1>t, <1>1, <1>5, <1>6, <2>3, <2>7 DEF Own, FreshWrites
  <2>8. CASE pc[q] \notin {"commitMoney", "commitPick", "commitRepair"}
    BY <1>1, <2>8 DEF FreshWrites
  <2> QED
    BY <2>5, <2>6, <2>7, <2>8
<1> QED
  BY <1>9, <1>10, <1>11, <1>12 DEF Own

\* A request that ends or has not begun knows nothing and holds nothing.
LEMMA EndOwn ==
  ASSUME TypeOK, NEW r \in Requests, NEW how \in Final, End(r, how)
  PROVE  Own(r)'
<1>1. pc'[r] = how /\ job'[r] = NoJob
  BY DEF TypeOK, End
<1> QED
  BY <1>1 DEF Own, HoldsPick, HoldsBalance, Grounded, Statements, FreshWrites, NoJob, Final

\* The same for a request that rolls back or commits nothing.
LEMMA LeaveOwn ==
  ASSUME TypeOK, NEW r \in Requests, NEW how \in Final, Leave(r, how)
  PROVE  Own(r)'
BY EndOwn DEF Leave

\* What the request itself knows and holds after its step.
LEMMA OwnStep ==
  ASSUME IInv, NEW r \in Requests, BeginAny(r) \/ Step(r) \/ Abort(r)
  PROVE  Own(r)'
<1>t. /\ TypeOK
      /\ Own(r)
      /\ job[r] \in Job
      /\ job[r].pick \in Picks
      /\ picks[job[r].pick] \in PickRow
  BY OwnParts DEF IInv, LockInv, TypeOK, Job
<1>1. CASE BeginCreate(r)
  <2>1. PICK p \in Picks, u \in Users, s \in Stakes \cup {0}, o \in Odds :
          /\ picks[p].status = "absent"
          /\ Begin(r, [NoJob EXCEPT !.op = "create", !.pick = p, !.odds = o, !.stake = s,
                                    !.user = IF s > 0 THEN u ELSE NoUser], "create")
          /\ pickLock' = [pickLock EXCEPT ![p] = r]
    BY <1>1 DEF BeginCreate
  <2>2. /\ pc'[r] = "create"
        /\ job'[r].op = "create"
        /\ job'[r].pick = p
        /\ job'[r].stake = s
        /\ job'[r].user = IF s > 0 THEN u ELSE NoUser
        /\ picks' = picks
        /\ pickLock'[p] = r
    BY <1>t, <2>1 DEF Begin, NoJob, TypeOK, tables
  <2>3. s \in Nat /\ NoUser \notin Users
    BY MoneyAssumption, UsersAssumption
  <2>4. Grounded(r)'
    BY <2>1, <2>2, <2>3 DEF Grounded, Statements
  <2> QED
    BY <2>2, <2>4 DEF Own, HoldsPick, HoldsBalance, FreshWrites
<1>2. CASE BeginSettle(r)
  <2>1. PICK p \in Picks, t \in Outcomes :
          /\ picks[p].status # "absent"
          /\ Begin(r, [NoJob EXCEPT !.op = "settle", !.pick = p, !.target = t], "lockPick")
    BY <1>2 DEF BeginSettle
  <2>2. /\ pc'[r] = "lockPick"
        /\ job'[r].op = "settle"
        /\ job'[r].pick = p
        /\ picks' = picks
    BY <1>t, <2>1 DEF Begin, NoJob, TypeOK, tables
  <2> QED
    BY <2>1, <2>2 DEF Own, HoldsPick, HoldsBalance, FreshWrites, Grounded, Statements
<1>3. CASE BeginDelete(r)
  <2>1. PICK p \in Picks :
          /\ picks[p].status = "pending"
          /\ Begin(r, [NoJob EXCEPT !.op = "settle", !.pick = p, !.target = "void"], "lockPick")
    BY <1>3 DEF BeginDelete
  <2>2. /\ pc'[r] = "lockPick"
        /\ job'[r].op = "settle"
        /\ job'[r].pick = p
        /\ picks' = picks
    BY <1>t, <2>1 DEF Begin, NoJob, TypeOK, tables
  <2> QED
    BY <2>1, <2>2 DEF Own, HoldsPick, HoldsBalance, FreshWrites, Grounded, Statements
<1>4. CASE BeginEdit(r)
  <2>1. PICK p \in Picks, s \in Stakes \cup {0}, o \in Odds :
          /\ picks[p].status = "pending"
          /\ Begin(r, [NoJob EXCEPT !.op = "edit", !.pick = p, !.stake = s, !.odds = o,
                                    !.cols = Changed(picks[p], s, o)], "flush")
    BY <1>4 DEF BeginEdit
  <2>2. /\ pc'[r] = "flush"
        /\ job'[r].op = "edit"
        /\ job'[r].pick = p
        /\ picks' = picks
    BY <1>t, <2>1 DEF Begin, NoJob, TypeOK, tables
  <2> QED
    BY <2>1, <2>2 DEF Own, HoldsPick, HoldsBalance, FreshWrites, Grounded, Statements
<1>5. CASE BeginFix(r)
  <2>1. PICK u \in Users : Begin(r, [NoJob EXCEPT !.op = "fix", !.user = u], "gateWallet")
    BY <1>5 DEF BeginFix
  <2>2. /\ pc'[r] = "gateWallet"
        /\ job'[r].op = "fix"
        /\ job'[r].user = u
    BY <1>t, <2>1 DEF Begin, NoJob, TypeOK
  <2> QED
    BY <2>1, <2>2 DEF Own, HoldsPick, HoldsBalance, FreshWrites, Grounded, Statements
<1>6. CASE CreateUnstaked(r)
  <2>1. /\ pc'[r] = "commitPick"
        /\ job' = job
        /\ picks' = picks
        /\ pickLock' = pickLock
        /\ buf'[r].pick = NewPick(r)
        /\ buf'[r].events = {}
    BY <1>t, <1>6 DEF CreateUnstaked, Flush, Goto, TypeOK, tables, locks, NoWrites
  <2>2. job[r].op = "create"
    BY <1>t, <1>6 DEF Own, Grounded, Statements, CreateUnstaked, Job, Final
  <2>3. NewPick(r)' = NewPick(r)
    BY <2>1 DEF NewPick
  <2>4. FreshWrites(r)'
    BY <2>1, <2>2, <2>3 DEF FreshWrites
  <2>5. Grounded(r)'
    BY <1>t, <1>6, <2>1, <2>2 DEF Own, Grounded, Statements, CreateUnstaked
  <2> QED
    BY <1>t, <1>6, <2>1, <2>2, <2>4, <2>5 DEF Own, HoldsPick, HoldsBalance
<1>7. CASE CreateStaked(r)
  <2> DEFINE p == job[r].pick
             u == job[r].user
             s == job[r].stake
             w == StakeLocked(wallet[u], s)
             b == [pick |-> NewPick(r), wallet |-> w,
                   entry |-> LedgerRow("PICK_STAKE_LOCK", p, s, w, start[r]),
                   events |-> {<<p, "created">>}]
  <2>1. CASE Leave(r, "rejected")
    BY <1>t, <2>1, LeaveOwn DEF Final
  <2>2. CASE /\ ~(wallet[u].available < s)
             /\ Flush(r, b, "commitMoney")
             /\ balanceLock' = [balanceLock EXCEPT ![u] = r]
             /\ UNCHANGED pickLock
    <3>1. job[r].op = "create" /\ u \in Users /\ wallet[u] \in WalletRow
      BY <1>t, <1>7 DEF Own, Grounded, Statements, CreateStaked, Job, Final, TypeOK
    <3>2. /\ pc'[r] = "commitMoney"
          /\ job' = job
          /\ start' = start
          /\ picks' = picks
          /\ wallet' = wallet
          /\ pickLock' = pickLock
          /\ balanceLock'[u] = r
          /\ buf'[r] = b
      BY <1>t, <2>2, <3>1 DEF Flush, Goto, TypeOK, tables
    <3>3. UserOf(r)' = u
      BY <3>1, <3>2 DEF UserOf
    <3>4. NewPick(r)' = NewPick(r)
      BY <3>2 DEF NewPick
    <3>5. wallet[u].available >= s
      BY <1>t, <2>2, <3>1 DEF WalletRow, Job
    <3>6. FreshWrites(r)'
      BY <3>1, <3>2, <3>3, <3>4, <3>5 DEF FreshWrites
    <3>7. Grounded(r)'
      BY <1>t, <1>7, <3>1, <3>2 DEF Own, Grounded, Statements, CreateStaked
    <3> QED
      BY <1>t, <1>7, <3>1, <3>2, <3>3, <3>6, <3>7
         DEF Own, HoldsPick, HoldsBalance, CreateStaked
  <2> QED
    BY <1>7, <2>1, <2>2 DEF CreateStaked
<1>8. CASE LockPick(r)
  <2> DEFINE p == job[r].pick
             t == job[r].target
             pk == picks[p]
             b == [NoWrites EXCEPT !.pick = SettledPick(pk, t), !.events = {<<p, t>>}]
  <2>0. job[r].op = "settle" /\ pc[r] = "lockPick"
    BY <1>t, <1>8 DEF Own, Grounded, Statements, LockPick, Job, Final
  <2>1. CASE Leave(r, "done") \/ Leave(r, "rejected")
    BY <1>t, <2>1, LeaveOwn DEF Final
  <2>2. CASE /\ Settleable(pk)
             /\ Financial(pk)
             /\ Goto(r, "gateWallet")
             /\ pickLock' = [pickLock EXCEPT ![p] = r]
    <3>1. /\ pc'[r] = "gateWallet"
          /\ job' = job
          /\ picks' = picks
          /\ pickLock'[p] = r
      BY <1>t, <2>2 DEF Goto, TypeOK, tables
    <3>2. Grounded(r)'
      BY <2>0, <2>2, <3>1 DEF Grounded, Statements, Settleable
    <3> QED
      BY <2>0, <3>1, <3>2 DEF Own, HoldsPick, HoldsBalance, FreshWrites
  <2>3. CASE /\ Settleable(pk)
             /\ ~Financial(pk)
             /\ ResolvableAs(pk, t)
             /\ Flush(r, b, "commitPick")
             /\ pickLock' = [pickLock EXCEPT ![p] = r]
    <3>1. /\ pc'[r] = "commitPick"
          /\ job' = job
          /\ picks' = picks
          /\ pickLock'[p] = r
          /\ buf'[r] = b
      BY <1>t, <2>3 DEF Flush, Goto, TypeOK, tables
    <3>2. b.pick = SettledPick(pk, t) /\ b.events = {<<p, t>>}
      BY DEF NoWrites
    <3>3. Grounded(r)'
      BY <2>0, <2>3, <3>1 DEF Grounded, Statements, Settleable
    <3>4. FreshWrites(r)'
      BY <2>0, <3>1, <3>2 DEF FreshWrites
    <3> QED
      BY <2>0, <3>1, <3>3, <3>4 DEF Own, HoldsPick, HoldsBalance
  <2> QED
    BY <1>8, <2>1, <2>2, <2>3 DEF LockPick
<1>9. CASE GateWallet(r)
  <2>1. /\ pc[r] = "gateWallet"
        /\ pc'[r] = "gateLedger"
        /\ job' = job
        /\ picks' = picks
        /\ pickLock' = pickLock
    BY <1>t, <1>9 DEF GateWallet, Goto, TypeOK, tables, locks
  <2>2. job[r].op \in {"settle", "fix"}
    BY <1>t, <2>1 DEF Own, Grounded, Statements, Job, Final
  <2>3. Grounded(r)'
    BY <1>t, <2>1, <2>2 DEF Own, Grounded, Statements
  <2> QED
    BY <1>t, <2>1, <2>2, <2>3 DEF Own, HoldsPick, HoldsBalance, FreshWrites
<1>10. CASE GateLedger(r)
  <2>1. CASE Leave(r, "corrupted")
    BY <1>t, <2>1, LeaveOwn DEF Final
  <2>2. CASE Goto(r, "lockBalance") /\ UNCHANGED <<seenTotal, buf, locks>>
    <3>1. /\ pc[r] = "gateLedger"
          /\ pc'[r] = "lockBalance"
          /\ job' = job
          /\ picks' = picks
          /\ pickLock' = pickLock
      BY <1>t, <1>10, <2>2 DEF GateLedger, Goto, TypeOK, tables, locks
    <3>2. job[r].op \in {"settle", "fix"}
      BY <1>t, <3>1 DEF Own, Grounded, Statements, Job, Final
    <3>3. Grounded(r)'
      BY <1>t, <3>1, <3>2 DEF Own, Grounded, Statements
    <3> QED
      BY <1>t, <3>1, <3>2, <3>3 DEF Own, HoldsPick, HoldsBalance, FreshWrites
  <2> QED
    BY <1>10, <2>1, <2>2 DEF GateLedger
<1>11. CASE RecordSettlement(r)
  <2> DEFINE p == job[r].pick
             pk == picks[p]
             u == pk.user
             t == job[r].target
             w == EscrowReleased(wallet[u], pk, t)
             b == [pick |-> SettledPick(pk, t), wallet |-> w,
                   entry |-> LedgerRow(LedgerType(t), p, Amount(pk, t), w, start[r]),
                   events |-> {<<p, t>>}]
             c == [NoWrites EXCEPT !.pick = SettledPick(pk, t), !.events = {<<p, t>>}]
  <2>1. CASE Leave(r, "rejected")
    BY <1>t, <2>1, LeaveOwn DEF Final
  <2>2. CASE /\ EscrowCovers(wallet[u], pk, t)
             /\ Flush(r, b, "commitMoney")
             /\ balanceLock' = [balanceLock EXCEPT ![u] = r]
             /\ UNCHANGED pickLock
    <3>1. /\ pc[r] = "lockBalance"
          /\ job[r].op = "settle"
          /\ UserOf(r) = u
          /\ u \in Users
      BY <1>11, UserOfTyped DEF RecordSettlement, UserOf
    <3>2. /\ pc'[r] = "commitMoney"
          /\ job' = job
          /\ start' = start
          /\ picks' = picks
          /\ wallet' = wallet
          /\ pickLock' = pickLock
          /\ balanceLock'[u] = r
          /\ buf'[r] = b
      BY <1>t, <2>2, <3>1 DEF Flush, Goto, TypeOK, tables
    <3>3. UserOf(r)' = u
      BY <3>1, <3>2 DEF UserOf
    <3>4. FreshWrites(r)'
      BY <2>2, <3>1, <3>2, <3>3 DEF FreshWrites
    <3>5. Grounded(r)'
      BY <1>t, <3>1, <3>2 DEF Own, Grounded, Statements
    <3> QED
      BY <1>t, <3>1, <3>2, <3>3, <3>4, <3>5 DEF Own, HoldsPick, HoldsBalance
  <2>3. CASE /\ Flush(r, c, "commitPick")
             /\ balanceLock' = [balanceLock EXCEPT ![u] = r]
             /\ UNCHANGED pickLock
    <3>1. /\ pc[r] = "lockBalance"
          /\ job[r].op = "settle"
          /\ pk \in PickRow
      BY <1>t, <1>11, RequestFacts DEF RecordSettlement, Job, TypeOK
    <3>2. /\ pc'[r] = "commitPick"
          /\ job' = job
          /\ picks' = picks
          /\ pickLock' = pickLock
          /\ buf'[r] = c
      BY <1>t, <2>3 DEF Flush, Goto, TypeOK, tables
    <3>3. c.pick = SettledPick(pk, t) /\ c.events = {<<p, t>>}
      BY DEF NoWrites
    <3>4. ResolvableAs(pk, t) /\ pk.status = "pending"
      BY <1>t, <3>1 DEF Own, Grounded, Financial, ResolvableAs
    <3>5. Grounded(r)'
      BY <3>1, <3>2, <3>4 DEF Grounded, Statements
    <3>6. FreshWrites(r)'
      BY <3>1, <3>2, <3>3 DEF FreshWrites
    <3> QED
      BY <1>t, <3>1, <3>2, <3>5, <3>6 DEF Own, HoldsPick, HoldsBalance
  <2>4. \/ Leave(r, "rejected")
        \/ /\ Flush(r, c, "commitPick")
           /\ balanceLock' = [balanceLock EXCEPT ![u] = r]
           /\ UNCHANGED pickLock
        \/ /\ EscrowCovers(wallet[u], pk, t)
           /\ Flush(r, b, "commitMoney")
           /\ balanceLock' = [balanceLock EXCEPT ![u] = r]
           /\ UNCHANGED pickLock
    BY <1>11 DEF RecordSettlement
  <2> QED
    BY <2>1, <2>2, <2>3, <2>4
<1>12. CASE FlushEdit(r)
  <2> DEFINE p == job[r].pick
             b == [NoWrites EXCEPT !.pick = Edited(picks[p], job[r])]
  <2>1. job[r].op = "edit"
    BY <1>t, <1>12 DEF Own, Grounded, Statements, FlushEdit, Job, Final
  <2>2. /\ pc'[r] = "commitPick"
        /\ job' = job
        /\ picks' = picks
        /\ pickLock'[p] = r
        /\ buf'[r] = b
    BY <1>t, <1>12 DEF FlushEdit, Flush, Goto, TypeOK, tables
  <2>3. b.pick = Edited(picks[p], job[r]) /\ b.events = {}
    BY DEF NoWrites
  <2>4. Grounded(r)'
    BY <1>t, <2>1, <2>2 DEF Own, Grounded, Statements
  <2>5. FreshWrites(r)'
    BY <2>1, <2>2, <2>3 DEF FreshWrites
  <2> QED
    BY <2>1, <2>2, <2>4, <2>5 DEF Own, HoldsPick, HoldsBalance
<1>13. CASE Repair(r)
  <2> DEFINE u == job[r].user
             w == RepairedWallet(u)
             b == [NoWrites EXCEPT !.wallet = w]
  <2>1. CASE Leave(r, "rejected") \/ Leave(r, "done")
    BY <1>t, <2>1, LeaveOwn DEF Final
  <2>2. CASE /\ LedgerTotal(u) = Total(wallet[u])
             /\ w.locked \in Nat
             /\ w.available \in Nat
             /\ Flush(r, b, "commitRepair")
             /\ balanceLock' = [balanceLock EXCEPT ![u] = r]
             /\ UNCHANGED pickLock
    <3>1. job[r].op = "fix" /\ u \in Users /\ wallet[u] \in WalletRow
      BY <1>t, <1>13 DEF Repair, Own, Grounded, TypeOK
    <3>2. /\ pc'[r] = "commitRepair"
          /\ job' = job
          /\ wallet' = wallet
          /\ balanceLock'[u] = r
          /\ buf'[r] = b
      BY <1>t, <2>2, <3>1 DEF Flush, Goto, TypeOK, tables
    <3>3. UserOf(r)' = u
      BY <3>1, <3>2 DEF UserOf
    <3>4. w \in [available : Nat, locked : Nat]
      BY <2>2 DEF RepairedWallet
    <3>5. Total(w) = Total(wallet[u])
      <4> DEFINE L == LedgerTotal(u)
                 E == EscrowExpected(u)
      <4>1. L \in Int
        BY <2>2, <3>1 DEF Total, WalletRow
      <4>2. E \in Nat
        BY <2>2 DEF RepairedWallet
      <4>3. Total(w) = (L - E) + E
        BY DEF RepairedWallet, Total
      <4> HIDE DEF L, E
      <4>4. Total(w) = L
        BY <4>1, <4>2, <4>3
      <4> QED
        BY <2>2, <4>4 DEF L
    <3>6. b.wallet = w
      BY DEF NoWrites
    <3>7. FreshWrites(r)'
      BY <3>1, <3>2, <3>3, <3>4, <3>5, <3>6 DEF FreshWrites
    <3>8. Grounded(r)'
      BY <3>1, <3>2 DEF Grounded, Statements
    <3> QED
      BY <3>1, <3>2, <3>3, <3>7, <3>8 DEF Own, HoldsPick, HoldsBalance
  <2> QED
    BY <1>13, <2>1, <2>2 DEF Repair
<1>14. CASE CommitMoney(r) \/ CommitPick(r) \/ CommitRepair(r)
  BY <1>t, <1>14, EndOwn DEF CommitMoney, CommitPick, CommitRepair, Final
<1>15. CASE Abort(r)
  BY <1>t, <1>15, LeaveOwn DEF Abort, Final
<1> QED
  BY <1>1, <1>2, <1>3, <1>4, <1>5, <1>6, <1>7, <1>8, <1>9, <1>10, <1>11, <1>12, <1>13,
     <1>14, <1>15 DEF BeginAny, Step

-----------------------------------------------------------------------------
\* Every behaviour keeps the discipline

\* At the start nothing is held and nothing is buffered.
LEMMA InitIInv == Init => IInv
<1> SUFFICES ASSUME Init PROVE IInv
  OBVIOUS
<1>1. NoLostUpdate
  BY DEF Init, NoLostUpdate, FreshWrites
<1> QED
  BY <1>1, InitLockInv DEF IInv

\* The invariant is inductive: the request that moves re-establishes its own part,
\* and the part of each other request does not depend on what the mover may write.
LEMMA StepIInv == IInv /\ [Next]_vars => IInv'
<1> SUFFICES ASSUME IInv, [Next]_vars PROVE IInv'
  OBVIOUS
<1>1. TypeOK'
  BY TypeStep
<1>2. CASE UNCHANGED vars
  <2> USE DEF vars, tables, locks, txns
  <2>1. RowsOK'
    BY <1>2 DEF IInv, LockInv, RowsOK
  <2>2. ASSUME NEW q \in Requests
        PROVE  Own(q)'
    <3>1. Own(q)
      BY OwnParts
    <3>2. (HoldsPick(q) => pickLock[job[q].pick] = q)'
      BY <1>2, <3>1 DEF Own, HoldsPick
    <3>3. (HoldsBalance(q) => balanceLock[UserOf(q)] = q)'
      BY <1>2, <3>1 DEF Own, HoldsBalance, UserOf
    <3>4. Grounded(q)'
      BY <1>2, <3>1 DEF Own, Grounded
    <3>5. FreshWrites(q)'
      <4>1. UserOf(q)' = UserOf(q) /\ NewPick(q)' = NewPick(q)
        BY <1>2 DEF UserOf, NewPick
      <4> QED
        BY <1>2, <3>1, <4>1 DEF Own, FreshWrites
    <3> QED
      BY <3>2, <3>3, <3>4, <3>5 DEF Own
  <2> QED
    BY <1>1, <2>1, <2>2 DEF IInv, LockInv, LocksHeld, NoLostUpdate, Own
<1>3. ASSUME NEW r \in Requests, BeginAny(r) \/ Step(r) \/ Abort(r)
      PROVE  IInv'
  <2>1. RowsOK'
    BY <1>3, TableFrame DEF RowsOK, IInv, LockInv
  <2>2. \A q \in Requests : Own(q)'
    BY <1>3, OthersOwn, OwnStep
  <2>3. (TypeOK /\ RowsOK /\ \A q \in Requests : Own(q))'
    BY <1>1, <2>1, <2>2
  <2> QED
    BY <2>3 DEF IInv, LockInv, LocksHeld, NoLostUpdate, Own
<1> QED
  BY <1>2, <1>3 DEF Next, Idle

\* The lock discipline and the freshness of every buffered write, for any number of
\* requests, picks and users and any mix of the operations of the services.
THEOREM LockDiscipline == Spec => []IInv
<1> QED
  BY InitIInv, StepIInv, PTL DEF Spec

\* Every table, lock and transaction keeps its type.
THEOREM TypeCorrect == Spec => []TypeOK
<1>1. IInv => TypeOK
  BY DEF IInv, LockInv
<1> QED
  BY <1>1, LockDiscipline, PTL

\* No update is lost: what get_db commits is what the operation gives on the tables as
\* they are at the commit.
THEOREM WritesAreFresh == Spec => []NoLostUpdate
<1>1. IInv => NoLostUpdate
  BY DEF IInv
<1> QED
  BY <1>1, LockDiscipline, PTL

-----------------------------------------------------------------------------
\* Safety of the money

\* The three commits, with what they write spelled out on the committed tables.
LEMMA CommitMoneyCases ==
  ASSUME IInv, NEW r \in Requests, CommitMoney(r)
  PROVE  \E p \in Picks, u \in Users :
           /\ UserOf(r) = u
           /\ p = job[r].pick
           /\ balanceLock[u] = r
           /\ \/ /\ job[r].op = "create"
                 /\ picks[p].status = "absent"
                 /\ job[r].stake \in Nat
                 /\ job[r].stake > 0
                 /\ job[r].user = u
                 /\ wallet[u].available >= job[r].stake
                 /\ picks' = [picks EXCEPT ![p] = NewPick(r)]
                 /\ wallet' = [wallet EXCEPT ![u] = StakeLocked(wallet[u], job[r].stake)]
                 /\ ledger' = [ledger EXCEPT ![u] =
                      Append(@, LedgerRow("PICK_STAKE_LOCK", p, job[r].stake,
                                          StakeLocked(wallet[u], job[r].stake), start[r]))]
                 /\ outbox' = outbox \cup {<<p, "created">>}
              \/ /\ job[r].op = "settle"
                 /\ picks[p].status = "pending"
                 /\ picks[p].user = u
                 /\ picks[p].stake \in Nat
                 /\ picks[p].stake > 0
                 /\ job[r].target \in Outcomes
                 /\ EscrowCovers(wallet[u], picks[p], job[r].target)
                 /\ picks' = [picks EXCEPT ![p] = SettledPick(picks[p], job[r].target)]
                 /\ wallet' = [wallet EXCEPT ![u] =
                                 EscrowReleased(wallet[u], picks[p], job[r].target)]
                 /\ ledger' = [ledger EXCEPT ![u] =
                      Append(@, LedgerRow(LedgerType(job[r].target), p,
                                          Amount(picks[p], job[r].target),
                                          EscrowReleased(wallet[u], picks[p], job[r].target),
                                          start[r]))]
                 /\ outbox' = outbox \cup {<<p, job[r].target>>}
<1> DEFINE p == job[r].pick
           u == UserOf(r)
<1>1. /\ Own(r)
      /\ job[r] \in Job
      /\ p \in Picks
      /\ picks[p] \in PickRow
      /\ pc[r] = "commitMoney"
      /\ u \in Users
      /\ job[r].op \in {"create", "settle", "edit"}
  BY OwnParts, UserOfTyped, BufferedPick DEF IInv, LockInv, TypeOK, CommitMoney
<1>2. balanceLock[u] = r
  BY <1>1 DEF Own, HoldsBalance
<1>3. CASE job[r].op = "create"
  <2>1. job[r].user = u /\ NewPick(r).user = u
    BY <1>3 DEF UserOf, NewPick
  <2>2. /\ picks[p].status = "absent"
        /\ job[r].stake \in Nat
        /\ job[r].stake > 0
    BY <1>1, <1>3 DEF Own, Grounded, Job
  <2>3. /\ wallet[u].available >= job[r].stake
        /\ buf[r].pick = NewPick(r)
        /\ buf[r].wallet = StakeLocked(wallet[u], job[r].stake)
        /\ buf[r].entry = LedgerRow("PICK_STAKE_LOCK", p, job[r].stake,
                                    StakeLocked(wallet[u], job[r].stake), start[r])
        /\ buf[r].events = {<<p, "created">>}
    BY <1>1, <1>3 DEF Own, FreshWrites
  <2> QED
    BY <1>1, <1>2, <1>3, <2>1, <2>2, <2>3 DEF CommitMoney
<1>4. CASE job[r].op = "settle"
  <2>1. picks[p].user = u
    BY <1>4 DEF UserOf
  <2>2. /\ picks[p].status = "pending"
        /\ picks[p].stake \in Nat
        /\ picks[p].stake > 0
        /\ job[r].target \in Outcomes
    BY <1>1, <1>4 DEF Own, Grounded, Job, PickRow, Financial
  <2>3. /\ EscrowCovers(wallet[u], picks[p], job[r].target)
        /\ buf[r].pick = SettledPick(picks[p], job[r].target)
        /\ buf[r].wallet = EscrowReleased(wallet[u], picks[p], job[r].target)
        /\ buf[r].entry = LedgerRow(LedgerType(job[r].target), p,
                                    Amount(picks[p], job[r].target),
                                    EscrowReleased(wallet[u], picks[p], job[r].target),
                                    start[r])
        /\ buf[r].events = {<<p, job[r].target>>}
    BY <1>1, <1>4 DEF Own, FreshWrites
  <2>4. buf[r].pick.user = u
    BY <1>1, <2>1, <2>3 DEF SettledPick, PickRow
  <2> QED
    BY <1>1, <1>2, <1>4, <2>1, <2>2, <2>3, <2>4 DEF CommitMoney
<1> QED
  BY <1>1, <1>3, <1>4 DEF Own, Grounded, Statements

\* A commit without money inserts a pick, closes it or edits it.
LEMMA CommitPickCases ==
  ASSUME IInv, NEW r \in Requests, CommitPick(r)
  PROVE  \E p \in Picks :
           /\ p = job[r].pick
           /\ pickLock[p] = r
           /\ UNCHANGED <<wallet, ledger>>
           /\ \/ /\ picks[p].status = "absent"
                 /\ NewPick(r).user = NoUser
                 /\ picks' = [picks EXCEPT ![p] = NewPick(r)]
                 /\ outbox' = outbox
              \/ /\ job[r].op = "settle"
                 /\ picks[p].status = "pending"
                 /\ ResolvableAs(picks[p], job[r].target)
                 /\ job[r].target \in Outcomes
                 /\ picks' = [picks EXCEPT ![p] = SettledPick(picks[p], job[r].target)]
                 /\ outbox' = outbox \cup {<<p, job[r].target>>}
              \/ /\ job[r].op = "edit"
                 /\ picks[p].status # "absent"
                 /\ picks' = [picks EXCEPT ![p] = Edited(picks[p], job[r])]
                 /\ outbox' = outbox
<1> DEFINE p == job[r].pick
<1>1. /\ Own(r)
      /\ job[r] \in Job
      /\ p \in Picks
      /\ pickLock[p] = r
      /\ pc[r] = "commitPick"
      /\ job[r].op \in {"create", "settle", "edit"}
      /\ job[r].target \in Outcomes
  BY OwnParts, BufferedPick DEF IInv, LockInv, TypeOK, CommitPick, Job
<1>2. CASE job[r].op = "create"
  <2>1. job[r].stake = 0 /\ job[r].user = NoUser
    BY <1>1, <1>2 DEF Own, Grounded, Job
  <2> QED
    BY <1>1, <1>2, <2>1 DEF Own, FreshWrites, Grounded, CommitPick, NewPick
<1>3. CASE job[r].op = "settle"
  BY <1>1, <1>3 DEF Own, FreshWrites, Grounded, CommitPick
<1>4. CASE job[r].op = "edit"
  BY <1>1, <1>4 DEF Own, FreshWrites, Grounded, CommitPick
<1> QED
  BY <1>1, <1>2, <1>3, <1>4

\* A repair splits the same total into two amounts that are not negative.
LEMMA CommitRepairCase ==
  ASSUME IInv, NEW r \in Requests, CommitRepair(r)
  PROVE  \E u \in Users, w \in [available : Nat, locked : Nat] :
           /\ Total(w) = Total(wallet[u])
           /\ wallet' = [wallet EXCEPT ![u] = w]
           /\ UNCHANGED <<picks, ledger, outbox>>
<1>1. Own(r) /\ pc[r] = "commitRepair" /\ UserOf(r) \in Users /\ job[r] \in Job
  BY OwnParts, UserOfTyped DEF CommitRepair, IInv, LockInv, TypeOK
<1>2. job[r].op = "fix"
  BY <1>1 DEF Own, Grounded, Statements, Job, Final
<1>3. /\ Total(buf[r].wallet) = Total(wallet[UserOf(r)])
      /\ buf[r].wallet \in [available : Nat, locked : Nat]
  BY <1>1 DEF Own, FreshWrites
<1>4. job[r].user = UserOf(r)
  BY <1>2 DEF UserOf
<1> QED
  BY <1>1, <1>3, <1>4 DEF CommitRepair

\* Every step either leaves the tables alone or is one of the commits.
LEMMA TableSteps ==
  ASSUME [Next]_vars
  PROVE  \/ UNCHANGED tables
         \/ \E r \in Requests : CommitMoney(r) \/ CommitPick(r) \/ CommitRepair(r)
BY OnlyCommitsWrite DEF Next, Idle, vars

\* No interleaving drives a wallet below zero.
THEOREM NonNegative == Spec => []BalancesNonNegative
<1>1. Init => BalancesNonNegative
  BY MoneyAssumption DEF Init, BalancesNonNegative
<1>2. IInv /\ BalancesNonNegative /\ [Next]_vars => BalancesNonNegative'
  <2> SUFFICES ASSUME IInv, BalancesNonNegative, [Next]_vars
               PROVE  BalancesNonNegative'
    OBVIOUS
  <2>t. wallet \in [Users -> WalletRow]
    BY DEF IInv, LockInv, TypeOK
  <2>1. CASE UNCHANGED tables
    BY <2>1 DEF tables, BalancesNonNegative
  <2>2. ASSUME NEW r \in Requests, CommitMoney(r)
        PROVE  BalancesNonNegative'
    <3>1. PICK p \in Picks, u \in Users :
            \/ /\ job[r].stake \in Nat
               /\ wallet[u].available >= job[r].stake
               /\ wallet' = [wallet EXCEPT ![u] = StakeLocked(wallet[u], job[r].stake)]
            \/ /\ picks[p].stake \in Nat
               /\ EscrowCovers(wallet[u], picks[p], job[r].target)
               /\ wallet' = [wallet EXCEPT ![u] =
                               EscrowReleased(wallet[u], picks[p], job[r].target)]
      BY <2>2, CommitMoneyCases
    <3>2. wallet[u].available \in Int /\ wallet[u].locked \in Int
      BY <2>t DEF WalletRow
    <3>3. wallet'[u].available >= 0 /\ wallet'[u].locked >= 0
      BY <2>t, <3>1, <3>2 DEF StakeLocked, EscrowCovers, EscrowReleased, BalancesNonNegative
    <3>4. \A v \in Users : v # u => wallet'[v] = wallet[v]
      BY <2>t, <3>1
    <3> QED
      BY <3>3, <3>4 DEF BalancesNonNegative
  <2>3. ASSUME NEW r \in Requests, CommitPick(r)
        PROVE  BalancesNonNegative'
    BY <2>3 DEF CommitPick, BalancesNonNegative
  <2>4. ASSUME NEW r \in Requests, CommitRepair(r)
        PROVE  BalancesNonNegative'
    <3>1. PICK u \in Users, w \in [available : Nat, locked : Nat] :
            wallet' = [wallet EXCEPT ![u] = w]
      BY <2>4, CommitRepairCase
    <3>2. w.available >= 0 /\ w.locked >= 0
      OBVIOUS
    <3> QED
      BY <2>t, <3>1, <3>2 DEF BalancesNonNegative
  <2> QED
    BY <2>1, <2>2, <2>3, <2>4, TableSteps
<1> QED
  BY <1>1, <1>2, LockDiscipline, PTL DEF Spec

\* Consumers of pick.settled learn exactly the committed outcomes.
THEOREM OutboxTells == Spec => []OutboxTellsOutcome
<1>1. Init => OutboxTellsOutcome
  BY DEF Init, OutboxTellsOutcome, NoPick, Outcomes
<1>2. IInv /\ OutboxTellsOutcome /\ [Next]_vars => OutboxTellsOutcome'
  <2> SUFFICES ASSUME IInv, OutboxTellsOutcome, [Next]_vars
               PROVE  OutboxTellsOutcome'
    OBVIOUS
  <2>t. picks \in [Picks -> PickRow]
    BY DEF IInv, LockInv, TypeOK
  <2>1. CASE UNCHANGED tables
    BY <2>1 DEF tables, OutboxTellsOutcome
  <2>2. ASSUME NEW r \in Requests, CommitMoney(r) \/ CommitPick(r)
        PROVE  OutboxTellsOutcome'
    <3>1. PICK p \in Picks :
            \/ /\ picks[p].status = "absent"
               /\ picks' = [picks EXCEPT ![p] = NewPick(r)]
               /\ outbox' \in {outbox, outbox \cup {<<p, "created">>}}
            \/ /\ picks[p].status = "pending"
               /\ job[r].target \in Outcomes
               /\ picks' = [picks EXCEPT ![p] = SettledPick(picks[p], job[r].target)]
               /\ outbox' = outbox \cup {<<p, job[r].target>>}
            \/ /\ picks' = [picks EXCEPT ![p] = Edited(picks[p], job[r])]
               /\ outbox' = outbox
      <4>1. CASE CommitMoney(r)
        BY <4>1, CommitMoneyCases
      <4>2. CASE CommitPick(r)
        BY <4>2, CommitPickCases
      <4> QED
        BY <2>2, <4>1, <4>2
    <3>2. \A t \in Outcomes : <<p, t>> \in outbox' <=> picks'[p].status = t
      <4>1. \A t \in Outcomes : <<p, t>> \in outbox <=> picks[p].status = t
        BY DEF OutboxTellsOutcome
      <4>2. \A t \in Outcomes : t # "created" /\ t # "pending" /\ t # "absent"
        BY DEF Outcomes
      <4>3. /\ NewPick(r).status = "pending"
            /\ SettledPick(picks[p], job[r].target).status = job[r].target
            /\ Edited(picks[p], job[r]).status = picks[p].status
        BY <2>t DEF NewPick, SettledPick, Edited, PickRow
      <4>4. CASE /\ picks[p].status = "absent"
                 /\ picks'[p].status = "pending"
                 /\ outbox' \in {outbox, outbox \cup {<<p, "created">>}}
        BY <4>1, <4>2, <4>4
      <4>5. CASE /\ picks[p].status = "pending"
                 /\ job[r].target \in Outcomes
                 /\ picks'[p].status = job[r].target
                 /\ outbox' = outbox \cup {<<p, job[r].target>>}
        BY <4>1, <4>2, <4>5
      <4>6. CASE picks'[p].status = picks[p].status /\ outbox' = outbox
        BY <4>1, <4>6
      <4> QED
        BY <2>t, <3>1, <4>3, <4>4, <4>5, <4>6
    <3>3. \A q \in Picks : q # p => picks'[q] = picks[q]
      BY <2>t, <3>1
    <3>4. \A q \in Picks, t \in Outcomes : q # p => (<<q, t>> \in outbox' <=> <<q, t>> \in outbox)
      BY <3>1
    <3> QED
      BY <3>2, <3>3, <3>4 DEF OutboxTellsOutcome
  <2>3. ASSUME NEW r \in Requests, CommitRepair(r)
        PROVE  OutboxTellsOutcome'
    BY <2>3 DEF CommitRepair, OutboxTellsOutcome
  <2> QED
    BY <2>1, <2>2, <2>3, TableSteps
<1> QED
  BY <1>1, <1>2, LockDiscipline, PTL DEF Spec

\* The wallet row and the last committed ledger row agree on the total, whatever was
\* edited or repaired.
THEOREM LedgerTotals == Spec => []LedgerTotalIsWallet
<1>1. Init => LedgerTotalIsWallet
  BY DEF Init, LedgerTotalIsWallet, LedgerAgrees
<1>2. IInv /\ LedgerTotalIsWallet /\ [Next]_vars => LedgerTotalIsWallet'
  <2> SUFFICES ASSUME IInv, LedgerTotalIsWallet, [Next]_vars
               PROVE  LedgerTotalIsWallet'
    OBVIOUS
  <2>t. /\ wallet \in [Users -> WalletRow]
        /\ ledger \in [Users -> Seq(Entry)]
        /\ ledger' \in [Users -> Seq(Entry)]
    BY TypeStep DEF IInv, LockInv, TypeOK
  <2>1. CASE UNCHANGED tables
    BY <2>1 DEF tables, LedgerTotalIsWallet, LedgerAgrees, LastEntry
  <2>2. ASSUME NEW r \in Requests, CommitMoney(r)
        PROVE  LedgerTotalIsWallet'
    <3>a. PICK u \in Users : \E w, type, p, amount, time :
            /\ wallet' = [wallet EXCEPT ![u] = w]
            /\ ledger' = [ledger EXCEPT ![u] =
                            Append(@, LedgerRow(type, p, amount, w, time))]
      BY <2>2, CommitMoneyCases
    <3>b. PICK w, type, p, amount, time :
            /\ wallet' = [wallet EXCEPT ![u] = w]
            /\ ledger' = [ledger EXCEPT ![u] =
                            Append(@, LedgerRow(type, p, amount, w, time))]
      BY <3>a
    <3> DEFINE e == LedgerRow(type, p, amount, w, time)
    <3>c. e.balance_after = w.available /\ e.locked_after = w.locked
      BY DEF LedgerRow
    <3> HIDE DEF e
    <3>1. /\ e.balance_after = w.available
          /\ e.locked_after = w.locked
          /\ wallet' = [wallet EXCEPT ![u] = w]
          /\ ledger' = [ledger EXCEPT ![u] = Append(@, e)]
      BY <3>b, <3>c DEF e
    <3>3. ledger'[u] = Append(ledger[u], e) /\ wallet'[u] = w
      BY <2>t, <3>1
    <3>4. ledger'[u][Len(ledger'[u])] = e
      <4>1. ledger[u] \in Seq(Entry)
        BY <2>t
      <4> QED
        BY <3>3, <4>1
    <3>5. LedgerAgrees(u)'
      BY <3>1, <3>3, <3>4 DEF LedgerAgrees, LastEntry, Total
    <3>6. ASSUME NEW v \in Users, v # u
          PROVE  LedgerAgrees(v)'
      <4>1. wallet'[v] = wallet[v] /\ ledger'[v] = ledger[v]
        BY <2>t, <3>1, <3>6
      <4> QED
        BY <4>1 DEF LedgerTotalIsWallet, LedgerAgrees, LastEntry
    <3> QED
      BY <3>5, <3>6 DEF LedgerTotalIsWallet
  <2>3. ASSUME NEW r \in Requests, CommitPick(r)
        PROVE  LedgerTotalIsWallet'
    BY <2>3 DEF CommitPick, LedgerTotalIsWallet, LedgerAgrees, LastEntry
  <2>4. ASSUME NEW r \in Requests, CommitRepair(r)
        PROVE  LedgerTotalIsWallet'
    <3>1. PICK u \in Users, w \in [available : Nat, locked : Nat] :
            /\ Total(w) = Total(wallet[u])
            /\ wallet' = [wallet EXCEPT ![u] = w]
            /\ ledger' = ledger
      BY <2>4, CommitRepairCase
    <3>2. \A v \in Users : Total(wallet'[v]) = Total(wallet[v])
      BY <2>t, <3>1
    <3> QED
      BY <3>1, <3>2 DEF LedgerTotalIsWallet, LedgerAgrees, LastEntry
  <2> QED
    BY <2>1, <2>2, <2>3, <2>4, TableSteps
<1> QED
  BY <1>1, <1>2, LockDiscipline, PTL DEF Spec

-----------------------------------------------------------------------------
\* One settlement per pick

\* A commit appends one row to one ledger: the settlement rows of a pick stay where they
\* are, and the new row joins them if it is one of that pick.
LEMMA RowsAppended ==
  ASSUME ledger \in [Users -> Seq(Entry)],
         NEW u \in Users, NEW e \in Entry,
         ledger' = [ledger EXCEPT ![u] = Append(@, e)],
         NEW v \in Users, NEW q \in Picks
  PROVE  /\ \A i \in DOMAIN ledger[v] :
              i \in DOMAIN ledger'[v] /\ ledger'[v][i] = ledger[v][i]
         /\ IF v = u /\ e.ref = q /\ e.type \in SettlementTypes
            THEN /\ SettlementRows(v, q)' = SettlementRows(v, q) \cup {Len(ledger[v]) + 1}
                 /\ ledger'[v][Len(ledger[v]) + 1] = e
            ELSE SettlementRows(v, q)' = SettlementRows(v, q)
<1>1. CASE v # u
  <2>1. ledger'[v] = ledger[v]
    BY <1>1
  <2> QED
    BY <1>1, <2>1 DEF SettlementRows
<1>2. CASE v = u
  <2> DEFINE n == Len(ledger[v])
  <2>1. ledger[v] \in Seq(Entry) /\ ledger'[v] = Append(ledger[v], e)
    BY <1>2
  <2>2. /\ n \in Nat
        /\ DOMAIN ledger[v] = 1..n
        /\ DOMAIN ledger'[v] = 1..(n + 1)
        /\ \A i \in 1..n : ledger'[v][i] = ledger[v][i]
        /\ ledger'[v][n + 1] = e
    BY <2>1
  <2> HIDE DEF n
  <2>3. \A i \in DOMAIN ledger'[v] : i \in DOMAIN ledger[v] \/ i = n + 1
    BY <2>2
  <2>4. n + 1 \in DOMAIN ledger'[v] /\ n + 1 \notin DOMAIN ledger[v]
    BY <2>2
  <2>5. \A i \in DOMAIN ledger[v] : i \in DOMAIN ledger'[v] /\ ledger'[v][i] = ledger[v][i]
    BY <2>2
  <2>6. CASE e.ref = q /\ e.type \in SettlementTypes
    <3>1. SettlementRows(v, q)' = SettlementRows(v, q) \cup {n + 1}
      BY <2>2, <2>3, <2>4, <2>5, <2>6 DEF SettlementRows
    <3> QED
      BY <1>2, <2>2, <2>5, <2>6, <3>1 DEF n
  <2>7. CASE ~(e.ref = q /\ e.type \in SettlementTypes)
    <3>1. SettlementRows(v, q)' = SettlementRows(v, q)
      BY <2>2, <2>3, <2>4, <2>5, <2>7 DEF SettlementRows
    <3> QED
      BY <1>2, <2>5, <2>7, <3>1
  <2> QED
    BY <2>6, <2>7
<1> QED
  BY <1>1, <1>2

\* What a commit of money does to picks and ledger.
LEMMA MoneyRow ==
  ASSUME IInv, NEW r \in Requests, CommitMoney(r)
  PROVE  \E p \in Picks, u \in Users, e \in Entry :
           /\ e.ref = p
           /\ ledger' = [ledger EXCEPT ![u] = Append(@, e)]
           /\ \/ /\ picks[p].status = "absent"
                 /\ e.type = "PICK_STAKE_LOCK"
                 /\ picks' = [picks EXCEPT ![p] = NewPick(r)]
              \/ /\ picks[p].status = "pending"
                 /\ picks[p].user = u
                 /\ job[r].target \in Outcomes
                 /\ e.type = LedgerType(job[r].target)
                 /\ picks' = [picks EXCEPT ![p] = SettledPick(picks[p], job[r].target)]
<1>a. PICK p \in Picks, u \in Users :
        \E type, amount, w :
          /\ ledger' = [ledger EXCEPT ![u] = Append(@, LedgerRow(type, p, amount, w, start[r]))]
          /\ \/ /\ picks[p].status = "absent"
                /\ type = "PICK_STAKE_LOCK"
                /\ picks' = [picks EXCEPT ![p] = NewPick(r)]
             \/ /\ picks[p].status = "pending"
                /\ picks[p].user = u
                /\ job[r].target \in Outcomes
                /\ type = LedgerType(job[r].target)
                /\ picks' = [picks EXCEPT ![p] = SettledPick(picks[p], job[r].target)]
  BY CommitMoneyCases
<1>1. PICK type, amount, w :
        /\ ledger' = [ledger EXCEPT ![u] = Append(@, LedgerRow(type, p, amount, w, start[r]))]
        /\ \/ /\ picks[p].status = "absent"
              /\ type = "PICK_STAKE_LOCK"
              /\ picks' = [picks EXCEPT ![p] = NewPick(r)]
           \/ /\ picks[p].status = "pending"
              /\ picks[p].user = u
              /\ job[r].target \in Outcomes
              /\ type = LedgerType(job[r].target)
              /\ picks' = [picks EXCEPT ![p] = SettledPick(picks[p], job[r].target)]
  BY <1>a
<1> DEFINE e == LedgerRow(type, p, amount, w, start[r])
<1>2. e.ref = p /\ e.type = type
  BY DEF LedgerRow
<1>3. e \in Entry
  <2>1. /\ ledger \in [Users -> Seq(Entry)]
        /\ ledger' \in [Users -> Seq(Entry)]
    <3>1. [Next]_vars
      BY DEF Next, Step
    <3> QED
      BY <3>1, TypeStep DEF IInv, LockInv, TypeOK
  <2> HIDE DEF e
  <2>2. ledger' = [ledger EXCEPT ![u] = Append(@, e)]
    BY <1>1 DEF e
  <2>3. ledger'[u] = Append(ledger[u], e) /\ ledger[u] \in Seq(Entry) /\ ledger'[u] \in Seq(Entry)
    BY <2>1, <2>2
  <2>4. Len(ledger[u]) + 1 \in DOMAIN ledger'[u] /\ ledger'[u][Len(ledger[u]) + 1] = e
    BY <2>3
  <2> QED
    BY <2>3, <2>4
<1> HIDE DEF e
<1>4. ledger' = [ledger EXCEPT ![u] = Append(@, e)]
  BY <1>1 DEF e
<1>5. \/ /\ picks[p].status = "absent"
         /\ e.type = "PICK_STAKE_LOCK"
         /\ picks' = [picks EXCEPT ![p] = NewPick(r)]
      \/ /\ picks[p].status = "pending"
         /\ picks[p].user = u
         /\ job[r].target \in Outcomes
         /\ e.type = LedgerType(job[r].target)
         /\ picks' = [picks EXCEPT ![p] = SettledPick(picks[p], job[r].target)]
  BY <1>1, <1>2
<1> DEFINE Row(q, v, x) ==
      /\ x.ref = q
      /\ ledger' = [ledger EXCEPT ![v] = Append(@, x)]
      /\ \/ /\ picks[q].status = "absent"
            /\ x.type = "PICK_STAKE_LOCK"
            /\ picks' = [picks EXCEPT ![q] = NewPick(r)]
         \/ /\ picks[q].status = "pending"
            /\ picks[q].user = v
            /\ job[r].target \in Outcomes
            /\ x.type = LedgerType(job[r].target)
            /\ picks' = [picks EXCEPT ![q] = SettledPick(picks[q], job[r].target)]
<1>6. Row(p, u, e)
  BY <1>2, <1>4, <1>5
<1>7. \E q \in Picks, v \in Users, x \in Entry : Row(q, v, x)
  <2> HIDE DEF Row
  <2> QED
    BY <1>3, <1>6
<1> QED
  BY <1>7

\* Settling keeps the owner, and the outcome decides the type of the ledger row.
LEMMA PickEffects ==
  ASSUME NEW r \in Requests, NEW pk \in PickRow, NEW t \in Outcomes, NEW j \in Job
  PROVE  /\ NewPick(r).status = "pending"
         /\ SettledPick(pk, t).status = t
         /\ SettledPick(pk, t).user = pk.user
         /\ Edited(pk, j).status = pk.status
         /\ Edited(pk, j).user = pk.user
         /\ Edited(pk, j).profit = pk.profit
         /\ LedgerType(t) \in SettlementTypes
         /\ "PICK_STAKE_LOCK" \notin SettlementTypes
         /\ pk.status \in Outcomes => pk.status \notin {"absent", "pending"}
BY DEF NewPick, SettledPick, Edited, PickRow, LedgerType, SettlementTypes, Outcomes

\* However many resolve, delete and confirm requests race for a pick, the ledger holds at
\* most one settlement row of it, of the type that the status of the pick says.
THEOREM SettledOnce == Spec => []OneSettlementPerPick
<1>1. Init => OneSettlementPerPick
  <2> SUFFICES ASSUME Init, NEW u \in Users, NEW p \in Picks
               PROVE  SettlementRows(u, p) = {}
    BY FS_EmptySet DEF OneSettlementPerPick
  <2>1. ledger[u] = <<>>
    BY DEF Init
  <2>2. DOMAIN ledger[u] = {}
    BY <2>1
  <2> QED
    BY <2>2 DEF SettlementRows
<1>2. IInv /\ OneSettlementPerPick /\ [Next]_vars => OneSettlementPerPick'
  <2> SUFFICES ASSUME IInv, OneSettlementPerPick, [Next]_vars
               PROVE  OneSettlementPerPick'
    OBVIOUS
  <2>t. /\ picks \in [Picks -> PickRow]
        /\ ledger \in [Users -> Seq(Entry)]
        /\ job \in [Requests -> Job]
    BY DEF IInv, LockInv, TypeOK
  <2> DEFINE Once(u, p) ==
               /\ Cardinality(SettlementRows(u, p)) <= 1
               /\ \A i \in SettlementRows(u, p) :
                    /\ picks[p].user = u
                    /\ Terminal(picks[p])
                    /\ ledger[u][i].type = LedgerType(picks[p].status)
  <2>o. \A u \in Users, p \in Picks : Once(u, p)
    BY DEF OneSettlementPerPick
  <2>1. CASE UNCHANGED <<picks, ledger>>
    <3>1. ASSUME NEW u \in Users, NEW p \in Picks
          PROVE  Once(u, p)'
      BY <2>1, <2>o DEF SettlementRows, Terminal
    <3> QED
      BY <3>1 DEF OneSettlementPerPick
  <2>2. ASSUME NEW r \in Requests, CommitMoney(r)
        PROVE  OneSettlementPerPick'
    <3>1. PICK p \in Picks, u \in Users, e \in Entry :
            /\ e.ref = p
            /\ ledger' = [ledger EXCEPT ![u] = Append(@, e)]
            /\ \/ /\ picks[p].status = "absent"
                  /\ e.type = "PICK_STAKE_LOCK"
                  /\ picks' = [picks EXCEPT ![p] = NewPick(r)]
               \/ /\ picks[p].status = "pending"
                  /\ picks[p].user = u
                  /\ job[r].target \in Outcomes
                  /\ e.type = LedgerType(job[r].target)
                  /\ picks' = [picks EXCEPT ![p] = SettledPick(picks[p], job[r].target)]
      BY <2>2, MoneyRow
    <3>2. picks[p] \in PickRow /\ job[r] \in Job
      BY <2>t
    <3>3. ASSUME NEW v \in Users
          PROVE  SettlementRows(v, p) = {}
      BY <2>o, <3>1, <3>2 DEF Terminal, Outcomes
    <3>4. ASSUME NEW v \in Users, NEW q \in Picks
          PROVE  Once(v, q)'
      <4> DEFINE n == Len(ledger[v]) + 1
      <4>0. ledger' = [ledger EXCEPT ![u] = Append(@, e)] /\ ledger \in [Users -> Seq(Entry)]
        BY <2>t, <3>1
      <4>1. /\ \A i \in DOMAIN ledger[v] :
                 i \in DOMAIN ledger'[v] /\ ledger'[v][i] = ledger[v][i]
            /\ IF v = u /\ e.ref = q /\ e.type \in SettlementTypes
               THEN /\ SettlementRows(v, q)' = SettlementRows(v, q) \cup {n}
                    /\ ledger'[v][n] = e
               ELSE SettlementRows(v, q)' = SettlementRows(v, q)
        BY <4>0, RowsAppended
      <4> HIDE DEF n
      <4>2. CASE v = u /\ e.ref = q /\ e.type \in SettlementTypes
        <5>1. q = p /\ SettlementRows(v, q)' = {n} /\ ledger'[v][n] = e
          BY <3>1, <3>3, <4>1, <4>2
        <5>2. /\ picks[p].user = u
              /\ job[r].target \in Outcomes
              /\ e.type = LedgerType(job[r].target)
              /\ picks'[p] = SettledPick(picks[p], job[r].target)
          BY <2>t, <3>1, <4>2 DEF SettlementTypes
        <5>3. picks'[p].status = job[r].target /\ picks'[p].user = u
          BY <3>2, <5>2, PickEffects
        <5>4. Cardinality({n}) = 1
          BY FS_Singleton
        <5> QED
          BY <4>2, <5>1, <5>2, <5>3, <5>4 DEF Terminal
      <4>3. CASE ~(v = u /\ e.ref = q /\ e.type \in SettlementTypes)
        <5>1. SettlementRows(v, q)' = SettlementRows(v, q)
          BY <4>1, <4>3
        <5>2. CASE q = p
          <6>1. SettlementRows(v, q)' = {}
            BY <3>3, <5>1, <5>2
          <6> QED
            BY <6>1, FS_EmptySet
        <5>3. CASE q # p
          <6>1. picks'[q] = picks[q]
            BY <2>t, <3>1, <5>3
          <6>2. \A i \in SettlementRows(v, q) : i \in DOMAIN ledger[v]
            BY DEF SettlementRows
          <6> QED
            BY <2>o, <4>1, <5>1, <6>1, <6>2 DEF Terminal
        <5> QED
          BY <5>2, <5>3
      <4> QED
        BY <4>2, <4>3
    <3> QED
      BY <3>4 DEF OneSettlementPerPick
  <2>3. ASSUME NEW r \in Requests, CommitPick(r)
        PROVE  OneSettlementPerPick'
    <3>1. PICK p \in Picks :
            /\ ledger' = ledger
            /\ \/ /\ picks[p].status = "absent"
                  /\ picks' = [picks EXCEPT ![p] = NewPick(r)]
               \/ /\ picks[p].status = "pending"
                  /\ picks' = [picks EXCEPT ![p] = SettledPick(picks[p], job[r].target)]
               \/ picks' = [picks EXCEPT ![p] = Edited(picks[p], job[r])]
      BY <2>3, CommitPickCases
    <3>2. picks[p] \in PickRow /\ job[r] \in Job
      BY <2>t
    <3>3. ASSUME NEW v \in Users, NEW q \in Picks
          PROVE  Once(v, q)'
      <4>1. SettlementRows(v, q)' = SettlementRows(v, q)
        BY <3>1 DEF SettlementRows
      <4>2. CASE q # p
        <5>1. picks'[q] = picks[q]
          BY <2>t, <3>1, <4>2
        <5> QED
          BY <2>o, <3>1, <4>1, <5>1 DEF Terminal
      <4>3. CASE q = p /\ picks[p].status \in {"absent", "pending"}
        <5>1. SettlementRows(v, q) = {}
          BY <2>o, <3>2, <4>3 DEF Terminal, Outcomes
        <5> QED
          BY <4>1, <5>1, FS_EmptySet
      <4>4. CASE q = p /\ picks' = [picks EXCEPT ![p] = Edited(picks[p], job[r])]
        <5>1. picks'[q].status = picks[q].status /\ picks'[q].user = picks[q].user
          BY <2>t, <3>2, <4>4 DEF Edited, PickRow
        <5> QED
          BY <2>o, <3>1, <4>1, <5>1 DEF Terminal
      <4> QED
        BY <3>1, <4>2, <4>3, <4>4
    <3> QED
      BY <3>3 DEF OneSettlementPerPick
  <2>4. ASSUME NEW r \in Requests, CommitRepair(r)
        PROVE  OneSettlementPerPick'
    BY <2>1, <2>4 DEF CommitRepair
  <2> QED
    BY <2>1, <2>2, <2>3, <2>4, TableSteps DEF tables
<1> QED
  BY <1>1, <1>2, LockDiscipline, PTL DEF Spec

-----------------------------------------------------------------------------
\* What no step may do

\* Once a pick is settled its outcome, owner and profit never change, whatever edit or
\* settlement was under way, and the ledger is only ever appended to.
THEOREM SettledStays == Spec => SettledForGood
<1> DEFINE Kept(p) == Terminal(picks[p]) =>
                        /\ picks'[p].status = picks[p].status
                        /\ picks'[p].user = picks[p].user
                        /\ picks'[p].profit = picks[p].profit
           Appended(u) == \A i \in DOMAIN ledger[u] :
                            i \in DOMAIN ledger'[u] /\ ledger'[u][i] = ledger[u][i]
<1>1. IInv /\ [Next]_vars => (\A p \in Picks : Kept(p)) /\ \A u \in Users : Appended(u)
  <2> SUFFICES ASSUME IInv, [Next]_vars
               PROVE  (\A p \in Picks : Kept(p)) /\ \A u \in Users : Appended(u)
    OBVIOUS
  <2>t. /\ picks \in [Picks -> PickRow]
        /\ ledger \in [Users -> Seq(Entry)]
        /\ job \in [Requests -> Job]
    BY DEF IInv, LockInv, TypeOK
  <2>1. CASE UNCHANGED <<picks, ledger>>
    BY <2>1
  <2>2. ASSUME NEW r \in Requests, CommitMoney(r) \/ CommitPick(r)
        PROVE  \A p \in Picks : Kept(p)
    <3>1. PICK p \in Picks :
            \/ /\ picks[p].status \in {"absent", "pending"}
               /\ \A q \in Picks : q # p => picks'[q] = picks[q]
            \/ picks' = [picks EXCEPT ![p] = Edited(picks[p], job[r])]
      <4>1. CASE CommitMoney(r)
        BY <2>t, <4>1, CommitMoneyCases
      <4>2. CASE CommitPick(r)
        BY <2>t, <4>2, CommitPickCases
      <4> QED
        BY <2>2, <4>1, <4>2
    <3>2. picks[p] \in PickRow /\ job[r] \in Job
      BY <2>t
    <3>3. CASE /\ picks[p].status \in {"absent", "pending"}
               /\ \A q \in Picks : q # p => picks'[q] = picks[q]
      BY <3>3 DEF Terminal, Outcomes
    <3>4. CASE picks' = [picks EXCEPT ![p] = Edited(picks[p], job[r])]
      <4>1. /\ picks'[p].status = picks[p].status
            /\ picks'[p].user = picks[p].user
            /\ picks'[p].profit = picks[p].profit
        BY <2>t, <3>2, <3>4 DEF Edited, PickRow
      <4>2. \A q \in Picks : q # p => picks'[q] = picks[q]
        BY <2>t, <3>4
      <4> QED
        BY <4>1, <4>2
    <3> QED
      BY <3>1, <3>3, <3>4
  <2>3. ASSUME NEW r \in Requests, CommitMoney(r)
        PROVE  \A u \in Users : Appended(u)
    <3>1. PICK p \in Picks, u \in Users, e \in Entry :
            ledger' = [ledger EXCEPT ![u] = Append(@, e)]
      BY <2>3, MoneyRow
    <3>2. ledger \in [Users -> Seq(Entry)] /\ ledger' = [ledger EXCEPT ![u] = Append(@, e)]
      BY <2>t, <3>1
    <3>3. ASSUME NEW v \in Users
          PROVE  Appended(v)
      BY <3>2, RowsAppended
    <3> QED
      BY <3>3
  <2>4. ASSUME NEW r \in Requests, CommitPick(r) \/ CommitRepair(r)
        PROVE  ledger' = ledger /\ (CommitRepair(r) => picks' = picks)
    <3>1. CASE CommitPick(r)
      <4>1. pc[r] = "commitPick" /\ ledger' = ledger
        BY <3>1 DEF CommitPick
      <4> QED
        BY <4>1 DEF CommitRepair
    <3>2. CASE CommitRepair(r)
      BY <3>2 DEF CommitRepair
    <3> QED
      BY <2>4, <3>1, <3>2
  <2>5. CASE UNCHANGED tables
    BY <2>1, <2>5 DEF tables
  <2> QED
    BY <2>2, <2>3, <2>4, <2>5, TableSteps
<1> QED
  BY <1>1, LockDiscipline, PTL DEF SettledForGood, Spec

\* A wallet moves only with a ledger row, or by a repair, which moves money between its
\* two parts and never in or out.
THEOREM NothingSilent == Spec => NoSilentMovement
<1> DEFINE Told(u) == wallet'[u] # wallet[u] =>
                        \/ Len(ledger'[u]) = Len(ledger[u]) + 1
                        \/ Total(wallet'[u]) = Total(wallet[u])
<1>1. IInv /\ [Next]_vars => \A u \in Users : Told(u)
  <2> SUFFICES ASSUME IInv, [Next]_vars, NEW u \in Users
               PROVE  Told(u)
    OBVIOUS
  <2>t. /\ wallet \in [Users -> WalletRow]
        /\ ledger \in [Users -> Seq(Entry)]
    BY DEF IInv, LockInv, TypeOK
  <2>1. CASE wallet' = wallet
    BY <2>1
  <2>2. ASSUME NEW r \in Requests, CommitMoney(r)
        PROVE  Told(u)
    <3>1. PICK v \in Users : \E w, type, p, amount, time :
            /\ wallet' = [wallet EXCEPT ![v] = w]
            /\ ledger' = [ledger EXCEPT ![v] =
                            Append(@, LedgerRow(type, p, amount, w, time))]
      BY <2>2, CommitMoneyCases
    <3>2. PICK w, type, p, amount, time :
            /\ wallet' = [wallet EXCEPT ![v] = w]
            /\ ledger' = [ledger EXCEPT ![v] =
                            Append(@, LedgerRow(type, p, amount, w, time))]
      BY <3>1
    <3> DEFINE e == LedgerRow(type, p, amount, w, time)
    <3> HIDE DEF e
    <3>3. CASE u = v
      <4>1. ledger'[u] = Append(ledger[u], e) /\ ledger[u] \in Seq(Entry)
        BY <2>t, <3>2, <3>3 DEF e
      <4> QED
        BY <4>1
    <3>4. CASE u # v
      BY <2>t, <3>2, <3>4
    <3> QED
      BY <3>3, <3>4
  <2>3. ASSUME NEW r \in Requests, CommitRepair(r)
        PROVE  Told(u)
    <3>1. PICK v \in Users, w \in [available : Nat, locked : Nat] :
            /\ Total(w) = Total(wallet[v])
            /\ wallet' = [wallet EXCEPT ![v] = w]
      BY <2>3, CommitRepairCase
    <3> QED
      BY <2>t, <3>1
  <2>4. ASSUME NEW r \in Requests, CommitPick(r)
        PROVE  wallet' = wallet
    BY <2>4 DEF CommitPick
  <2> QED
    BY <2>1, <2>2, <2>3, <2>4, TableSteps DEF tables
<1> QED
  BY <1>1, LockDiscipline, PTL DEF NoSilentMovement, Spec

-----------------------------------------------------------------------------
\* What requests are asked

\* A request was asked for an operation that clients call, and the path of
\* record_settlement for a row that is already in the ledger is never taken.
Asked(r) ==
  /\ job[r].op = "edit" => "edit" \in Ops
  /\ job[r].op = "fix" => "fix" \in Ops
  /\ job[r].op = "create" => job[r].odds \in Odds /\ job[r].stake \in Stakes \cup {0}
  /\ job[r].op = "settle" /\ pc[r] = "commitPick" => ~Financial(picks[job[r].pick])

AskedInv == \A r \in Requests : Asked(r)

\* Every request keeps to what it was asked.
LEMMA AskedStep ==
  ASSUME IInv, OneSettlementPerPick, AskedInv,
         NEW r \in Requests, BeginAny(r) \/ Step(r) \/ Abort(r)
  PROVE  Asked(r)'
<1>t. /\ TypeOK
      /\ Asked(r)
      /\ Own(r)
  BY OwnParts DEF IInv, LockInv, AskedInv
<1>1. ASSUME NEW how \in Final, End(r, how)
      PROVE  Asked(r)'
  <2>1. job'[r] = NoJob
    BY <1>t, <1>1 DEF End, TypeOK
  <2> QED
    BY <2>1 DEF Asked, NoJob
<1>2. ASSUME NEW how \in Final, Leave(r, how)
      PROVE  Asked(r)'
  BY <1>1, <1>2 DEF Leave
<1>3. ASSUME job'[r] = job[r], pc'[r] # "commitPick"
      PROVE  Asked(r)'
  BY <1>t, <1>3 DEF Asked
<1>4. CASE BeginCreate(r)
  <2>1. PICK p \in Picks, u \in Users, s \in Stakes \cup {0}, o \in Odds :
          job' = [job EXCEPT ![r] =
                    [NoJob EXCEPT !.op = "create", !.pick = p, !.odds = o, !.stake = s,
                                  !.user = IF s > 0 THEN u ELSE NoUser]]
    BY <1>4 DEF BeginCreate, Begin
  <2>2. job'[r].op = "create" /\ job'[r].odds = o /\ job'[r].stake = s
    BY <1>t, <2>1 DEF TypeOK, NoJob
  <2> QED
    BY <2>2 DEF Asked
<1>5. CASE BeginSettle(r) \/ BeginDelete(r)
  <2>1. PICK p \in Picks, t \in Outcomes :
          job' = [job EXCEPT ![r] = [NoJob EXCEPT !.op = "settle", !.pick = p, !.target = t]]
    BY <1>5 DEF BeginSettle, BeginDelete, Begin, Outcomes
  <2>2. job'[r].op = "settle" /\ pc'[r] = "lockPick"
    BY <1>t, <1>5, <2>1 DEF TypeOK, NoJob, BeginSettle, BeginDelete, Begin
  <2> QED
    BY <2>2 DEF Asked
<1>6. CASE BeginEdit(r)
  <2>1. PICK p \in Picks, s \in Stakes \cup {0}, o \in Odds :
          Begin(r, [NoJob EXCEPT !.op = "edit", !.pick = p, !.stake = s, !.odds = o,
                                 !.cols = Changed(picks[p], s, o)], "flush")
    BY <1>6 DEF BeginEdit
  <2>2. job'[r].op = "edit" /\ "edit" \in Ops
    BY <1>t, <1>6, <2>1 DEF BeginEdit, Begin, TypeOK, NoJob
  <2> QED
    BY <2>2 DEF Asked
<1>17. CASE BeginFix(r)
  <2>1. PICK u \in Users : job' = [job EXCEPT ![r] = [NoJob EXCEPT !.op = "fix", !.user = u]]
    BY <1>17 DEF BeginFix, Begin
  <2>2. job'[r].op = "fix" /\ "fix" \in Ops
    BY <1>t, <1>17, <2>1 DEF BeginFix, TypeOK, NoJob
  <2> QED
    BY <2>2 DEF Asked
<1>7. CASE CreateUnstaked(r)
  <2>1. pc[r] = "create" /\ job' = job /\ job[r] \in Job
    BY <1>t, <1>7 DEF CreateUnstaked, Flush, Goto, TypeOK
  <2>2. job[r].op = "create"
    BY <1>t, <2>1 DEF Own, Grounded, Statements, Job, Final
  <2> QED
    BY <1>t, <2>1, <2>2 DEF Asked
<1>8. CASE CreateStaked(r)
  <2>1. CASE Leave(r, "rejected")
    BY <1>2, <2>1 DEF Final
  <2>2. CASE pc' = [pc EXCEPT ![r] = "commitMoney"] /\ job' = job
    BY <1>t, <1>3, <2>2 DEF TypeOK
  <2> QED
    BY <1>8, <2>1, <2>2 DEF CreateStaked, Flush, Goto
<1>9. CASE LockPick(r)
  <2>1. CASE Leave(r, "done") \/ Leave(r, "rejected")
    BY <1>2, <2>1 DEF Final
  <2>2. CASE pc' = [pc EXCEPT ![r] = "gateWallet"] /\ job' = job
    BY <1>t, <1>3, <2>2 DEF TypeOK
  <2>3. CASE /\ ~Financial(picks[job[r].pick])
             /\ job' = job
             /\ picks' = picks
    <3>1. pc[r] = "lockPick" /\ job[r] \in Job
      BY <1>t, <1>9 DEF LockPick, TypeOK
    <3>2. job[r].op = "settle"
      BY <1>t, <3>1 DEF Own, Grounded, Statements, Job, Final
    <3> QED
      BY <1>t, <2>3, <3>2 DEF Asked
  <2> QED
    BY <1>9, <2>1, <2>2, <2>3 DEF LockPick, Flush, Goto, tables
<1>10. CASE GateWallet(r)
  BY <1>t, <1>3, <1>10 DEF GateWallet, Goto, TypeOK
<1>11. CASE GateLedger(r)
  <2>1. CASE Leave(r, "corrupted")
    BY <1>2, <2>1 DEF Final
  <2>2. CASE pc' = [pc EXCEPT ![r] = "lockBalance"] /\ job' = job
    BY <1>t, <1>3, <2>2 DEF TypeOK
  <2> QED
    BY <1>11, <2>1, <2>2 DEF GateLedger, Goto
<1>12. CASE RecordSettlement(r)
  <2> DEFINE p == job[r].pick
             u == picks[p].user
  <2>1. /\ p \in Picks
        /\ picks[p] \in PickRow
        /\ picks[p].status = "pending"
    <3>1. pc[r] = "lockBalance" /\ job[r] \in Job /\ job[r].op = "settle"
      BY <1>t, <1>12 DEF RecordSettlement, TypeOK
    <3> QED
      BY <1>t, <3>1 DEF Own, Grounded, TypeOK, Job
  <2>2. u \in Users
    BY <1>t, <1>12, UserOfTyped DEF RecordSettlement, UserOf
  <2>3. SettlementRows(u, p) = {}
    BY <2>1, <2>2 DEF OneSettlementPerPick, Terminal, Outcomes
  <2>4. ~RecordedAs(u, p, job[r].target)
    BY <2>3, FS_EmptySet DEF RecordedAs
  <2>5. CASE Leave(r, "rejected")
    BY <1>2, <2>5 DEF Final
  <2>6. CASE pc' = [pc EXCEPT ![r] = "commitMoney"] /\ job' = job
    BY <1>t, <1>3, <2>6 DEF TypeOK
  <2> QED
    BY <1>12, <2>4, <2>5, <2>6 DEF RecordSettlement, Flush, Goto
<1>13. CASE FlushEdit(r)
  <2>1. job' = job /\ pc[r] = "flush" /\ job[r] \in Job
    BY <1>t, <1>13 DEF FlushEdit, Flush, Goto, TypeOK
  <2>2. job[r].op = "edit"
    BY <1>t, <2>1 DEF Own, Grounded, Statements, Job, Final
  <2> QED
    BY <1>t, <2>1, <2>2 DEF Asked
<1>16. CASE Repair(r)
  <2>1. CASE Leave(r, "rejected") \/ Leave(r, "done")
    BY <1>2, <2>1 DEF Final
  <2>2. CASE pc' = [pc EXCEPT ![r] = "commitRepair"] /\ job' = job
    BY <1>t, <1>3, <2>2 DEF TypeOK
  <2> QED
    BY <1>16, <2>1, <2>2 DEF Repair, Flush, Goto
<1>14. CASE CommitMoney(r) \/ CommitPick(r) \/ CommitRepair(r)
  BY <1>1, <1>14 DEF CommitMoney, CommitPick, CommitRepair, Final
<1>15. CASE Abort(r)
  BY <1>2, <1>15 DEF Abort, Final
<1> QED
  BY <1>4, <1>5, <1>6, <1>7, <1>8, <1>9, <1>10, <1>11, <1>12, <1>13, <1>14, <1>15, <1>16, <1>17
     DEF BeginAny, Step

\* So every behaviour keeps AskedInv: the requests of others are left alone, and the
\* pick of a request at its commit is locked by it.
LEMMA AskedKept == Spec => []AskedInv
<1>1. Init => AskedInv
  BY DEF Init, AskedInv, Asked, NoJob
<1>2. IInv /\ OneSettlementPerPick /\ AskedInv /\ [Next]_vars => AskedInv'
  <2> SUFFICES ASSUME IInv, OneSettlementPerPick, AskedInv, [Next]_vars
               PROVE  AskedInv'
    OBVIOUS
  <2>1. CASE UNCHANGED vars
    <3>1. ASSUME NEW r \in Requests
          PROVE  Asked(r)'
      BY <2>1 DEF AskedInv, Asked, vars, tables, txns
    <3> QED
      BY <3>1 DEF AskedInv
  <2>2. ASSUME NEW r \in Requests, BeginAny(r) \/ Step(r) \/ Abort(r)
        PROVE  AskedInv'
    <3>1. Asked(r)'
      BY <2>2, AskedStep
    <3>2. ASSUME NEW q \in Requests, q # r
          PROVE  Asked(q)'
      <4>1. /\ TypeOK
            /\ Asked(q)
            /\ Own(q)
        BY OwnParts DEF IInv, LockInv, AskedInv
      <4>2. pc'[q] = pc[q] /\ job'[q] = job[q]
        BY <2>2, <3>2, <4>1, OthersTxn
      <4>3. job[q].pick \in Picks
        BY <4>1 DEF TypeOK, Job
      <4>4. HoldsPick(q) => picks'[job[q].pick] = picks[job[q].pick]
        BY <2>2, <3>2, <4>1, <4>3, TableFrame DEF Own
      <4> QED
        BY <4>1, <4>2, <4>4 DEF Asked, HoldsPick
    <3> QED
      BY <3>1, <3>2 DEF AskedInv
  <2> QED
    BY <2>1, <2>2 DEF Next, Idle
<1> QED
  BY <1>1, <1>2, LockDiscipline, SettledOnce, PTL DEF Spec

-----------------------------------------------------------------------------
(***************************************************************************)
(* Sums over finite sets: what SumFunctionOnSet of the module Functions    *)
(* returns.  It chooses a function on the subsets of the set that adds one *)
(* chosen element to the sum of the others; that such a function exists,   *)
(* and that it does not matter which element is chosen, is shown by        *)
(* induction over the finite subsets, a well-founded order.                *)
(***************************************************************************)

\* The element that a sum over s adds first, and the rest of s.
Chosen(s) == CHOOSE x \in s : TRUE
Others(s) == s \ {Chosen(s)}

\* F gives the sum of f over every subset of S.
PartialSums(f, S, F) ==
  F = [s \in SUBSET S |-> IF s = {} THEN 0 ELSE f[Chosen(s)] + F[Others(s)]]

\* SumFunctionOnSet is the value at S of such a function.
LEMMA SumIsPartial ==
  ASSUME NEW f, NEW S
  PROVE  SumFunctionOnSet(f, S) = (CHOOSE F : PartialSums(f, S, F))[S]
BY DEF SumFunctionOnSet, FoldFunctionOnSet, MapThenFoldSet, PartialSums, Chosen, Others

\* The chosen element is one of the set.
LEMMA ChosenIn == ASSUME NEW s, s # {} PROVE Chosen(s) \in s
BY DEF Chosen

\* The others are a smaller set.
LEMMA OthersIn == ASSUME NEW s, s # {} PROVE Others(s) \in (SUBSET s) \ {s}
BY ChosenIn DEF Others

\* Induction over the subsets of a finite set: a set of subsets that holds T whenever it
\* holds every smaller subset of T holds them all.
LEMMA SetInduction ==
  ASSUME NEW S, IsFiniteSet(S), NEW Good,
         \A T \in SUBSET S : (\A U \in (SUBSET T) \ {T} : U \in Good) => T \in Good
  PROVE  S \in Good
<1>1. IsWellFoundedOn(StrictSubsetOrdering(S), SUBSET S)
  BY FS_StrictSubsetOrderingWellFounded, FS_FiniteSubsetsOfFinite
<1>2. SUFFICES ASSUME S \notin Good PROVE FALSE
  OBVIOUS
<1> DEFINE Bad == {T \in SUBSET S : T \notin Good}
<1>3. Bad # {} /\ Bad \subseteq SUBSET S
  BY <1>2
<1>4. \E T \in Bad : \A U \in Bad : ~(<<U, T>> \in StrictSubsetOrdering(S))
  <2> HIDE DEF Bad
  <2>1. QED
    BY <1>1, <1>3, WFMin
<1>5. PICK T \in Bad : \A U \in Bad : ~(<<U, T>> \in StrictSubsetOrdering(S))
  BY <1>4
<1>6. \A U \in (SUBSET T) \ {T} : U \in Good
  BY <1>5 DEF StrictSubsetOrdering
<1>7. QED
  BY <1>5, <1>6

\* Two functions that give sums agree where both are defined.
LEMMA SumsUnique ==
  ASSUME NEW f, NEW S, NEW T \in SUBSET S, IsFiniteSet(T),
         NEW F, NEW G, PartialSums(f, S, F), PartialSums(f, T, G)
  PROVE  F[T] = G[T]
<1> DEFINE Good == {V \in SUBSET T : F[V] = G[V]}
<1>1. ASSUME NEW V \in SUBSET T, \A W \in (SUBSET V) \ {V} : W \in Good
      PROVE  V \in Good
  <2>1. V \in SUBSET S /\ V \in SUBSET T
    OBVIOUS
  <2>2. CASE V = {}
    BY <2>1, <2>2 DEF PartialSums
  <2>3. CASE V # {}
    <3>1. F[Others(V)] = G[Others(V)]
      BY <1>1, <2>3, OthersIn
    <3>2. F[V] = f[Chosen(V)] + F[Others(V)]
      BY <2>1, <2>3 DEF PartialSums
    <3>3. G[V] = f[Chosen(V)] + G[Others(V)]
      BY <2>1, <2>3 DEF PartialSums
    <3>4. QED
      BY <3>1, <3>2, <3>3
  <2>4. QED
    BY <2>2, <2>3
<1>2. T \in Good
  <2> HIDE DEF Good
  <2>1. QED
    BY <1>1, SetInduction
<1>3. QED
  BY <1>2

\* There is one for every finite set.
LEMMA SumsExist ==
  ASSUME NEW f, NEW S, IsFiniteSet(S)
  PROVE  \E F : PartialSums(f, S, F)
<1> DEFINE Good == {V \in SUBSET S : \E F : PartialSums(f, V, F)}
           G(V) == CHOOSE F : PartialSums(f, V, F)
           H(V) == [s \in SUBSET V |-> IF s = {} THEN 0 ELSE f[Chosen(s)] + G(Others(s))[Others(s)]]
<1>1. ASSUME NEW V \in SUBSET S, \A W \in (SUBSET V) \ {V} : W \in Good
      PROVE  V \in Good
  <2>1. \A W \in (SUBSET V) \ {V} : PartialSums(f, W, G(W))
    BY <1>1
  <2>2. \A s \in SUBSET V : s # {} => Others(s) \in (SUBSET V) \ {V}
    BY OthersIn, ChosenIn DEF Others
  <2>3. ASSUME NEW s \in (SUBSET V) \ {V}
        PROVE  H(V)[s] = G(s)[s]
    <3>1. PartialSums(f, s, G(s))
      BY <2>1
    <3>2. CASE s = {}
      BY <3>1, <3>2 DEF PartialSums
    <3>3. CASE s # {}
      <4>1. G(s)[s] = f[Chosen(s)] + G(s)[Others(s)]
        BY <3>1, <3>3 DEF PartialSums
      <4>2. H(V)[s] = f[Chosen(s)] + G(Others(s))[Others(s)]
        BY <3>3
      <4>3. PartialSums(f, Others(s), G(Others(s)))
        BY <2>1, <2>2, <3>3
      <4>4. Others(s) \subseteq s /\ IsFiniteSet(Others(s))
        <5>1. Others(s) \subseteq S /\ Others(s) \subseteq s
          BY <3>3, OthersIn
        <5>2. QED
          BY <5>1, FS_Subset
      <4> HIDE DEF G, H
      <4>5. G(s)[Others(s)] = G(Others(s))[Others(s)]
        BY <3>1, <4>3, <4>4, SumsUnique
      <4>6. QED
        BY <4>1, <4>2, <4>5
    <3>4. QED
      BY <3>2, <3>3
  <2>4. \A s \in SUBSET V : s # {} => G(Others(s))[Others(s)] = H(V)[Others(s)]
    <3> HIDE DEF G, H
    <3>1. QED
      BY <2>2, <2>3
  <2>5. PartialSums(f, V, H(V))
    <3>1. PICK K : K = H(V)
      OBVIOUS
    <3> HIDE DEF G
    <3>2. K = [s \in SUBSET V |-> IF s = {} THEN 0 ELSE f[Chosen(s)] + K[Others(s)]]
      BY <2>4, <3>1
    <3> HIDE DEF H
    <3>3. QED
      BY <3>1, <3>2 DEF PartialSums
  <2>6. QED
    BY <2>5
<1>2. S \in Good
  <2> HIDE DEF Good
  <2>1. QED
    BY <1>1, SetInduction
<1>3. QED
  BY <1>2

\* So it gives the sum over every subset.
LEMMA SumsRight ==
  ASSUME NEW f, NEW S, IsFiniteSet(S), NEW T \in SUBSET S, NEW F, PartialSums(f, S, F)
  PROVE  F[T] = SumFunctionOnSet(f, T)
<1>1. IsFiniteSet(T)
  BY FS_Subset
<1>2. PICK G : G = CHOOSE H : PartialSums(f, T, H)
  OBVIOUS
<1>3. PartialSums(f, T, G)
  BY <1>1, <1>2, SumsExist
<1>4. F[T] = G[T]
  <2>1. QED
    BY <1>1, <1>3, SumsUnique
<1>5. QED
  BY <1>2, <1>4, SumIsPartial

-----------------------------------------------------------------------------
\* The sum over no elements is 0.
LEMMA SumEmpty == \A f : SumFunctionOnSet(f, {}) = 0
<1> TAKE f
<1>1. PICK F : PartialSums(f, {}, F)
  BY SumsExist, FS_EmptySet
<1>2. F[{}] = 0
  BY <1>1 DEF PartialSums
<1>3. QED
  BY <1>1, <1>2, SumsRight, FS_EmptySet

\* The chosen element can be taken out of a sum.
LEMMA SumOfChosen ==
  ASSUME NEW f, NEW S, IsFiniteSet(S), S # {}
  PROVE  SumFunctionOnSet(f, S) = f[Chosen(S)] + SumFunctionOnSet(f, Others(S))
<1>1. PICK F : PartialSums(f, S, F)
  BY SumsExist
<1>2. F[S] = f[Chosen(S)] + F[Others(S)]
  BY <1>1 DEF PartialSums
<1>3. Others(S) \in SUBSET S
  BY OthersIn
<1>4. F[S] = SumFunctionOnSet(f, S) /\ F[Others(S)] = SumFunctionOnSet(f, Others(S))
  BY <1>1, <1>3, SumsRight
<1>5. QED
  BY <1>2, <1>4

\* A sum of integers is an integer.
LEMMA SumInt ==
  ASSUME NEW f, NEW S, IsFiniteSet(S), \A x \in S : f[x] \in Int
  PROVE  SumFunctionOnSet(f, S) \in Int
<1> DEFINE Good == {T \in SUBSET S : SumFunctionOnSet(f, T) \in Int}
<1>1. ASSUME NEW T \in SUBSET S, \A U \in (SUBSET T) \ {T} : U \in Good
      PROVE  T \in Good
  <2>1. CASE T = {}
    BY <2>1, SumEmpty
  <2>2. CASE T # {}
    <3>1. Chosen(T) \in T /\ Others(T) \in Good /\ IsFiniteSet(T)
      BY <1>1, <2>2, ChosenIn, OthersIn, FS_Subset
    <3>2. QED
      BY <2>2, <3>1, SumOfChosen
  <2>3. QED
    BY <2>1, <2>2
<1>2. S \in Good
  <2> HIDE DEF Good
  <2>1. QED
    BY <1>1, SetInduction
<1>3. QED
  BY <1>2

\* A sum depends on the function only where it is summed.
LEMMA SumAgree ==
  ASSUME NEW f, NEW g, NEW S, IsFiniteSet(S), \A x \in S : f[x] = g[x]
  PROVE  SumFunctionOnSet(f, S) = SumFunctionOnSet(g, S)
<1> DEFINE Good == {T \in SUBSET S : SumFunctionOnSet(f, T) = SumFunctionOnSet(g, T)}
<1>1. ASSUME NEW T \in SUBSET S, \A U \in (SUBSET T) \ {T} : U \in Good
      PROVE  T \in Good
  <2>1. CASE T = {}
    BY <2>1, SumEmpty
  <2>2. CASE T # {}
    <3>1. Chosen(T) \in S /\ Others(T) \in Good /\ IsFiniteSet(T)
      BY <1>1, <2>2, ChosenIn, OthersIn, FS_Subset
    <3>2. QED
      BY <2>2, <3>1, SumOfChosen
  <2>3. QED
    BY <2>1, <2>2
<1>2. S \in Good
  <2> HIDE DEF Good
  <2>1. QED
    BY <1>1, SetInduction
<1>3. QED
  BY <1>2

\* Any element can be taken out of a sum of integers.
LEMMA SumTaken ==
  ASSUME NEW f, NEW S, IsFiniteSet(S), \A x \in S : f[x] \in Int, NEW x \in S
  PROVE  SumFunctionOnSet(f, S) = f[x] + SumFunctionOnSet(f, S \ {x})
<1> DEFINE Good == {T \in SUBSET S : \A y \in T :
                      SumFunctionOnSet(f, T) = f[y] + SumFunctionOnSet(f, T \ {y})}
<1>1. ASSUME NEW T \in SUBSET S, \A U \in (SUBSET T) \ {T} : U \in Good
      PROVE  T \in Good
  <2>1. SUFFICES ASSUME NEW y \in T
                 PROVE  SumFunctionOnSet(f, T) = f[y] + SumFunctionOnSet(f, T \ {y})
    OBVIOUS
  <2>2. PICK z : z = Chosen(T)
    OBVIOUS
  <2>3. z \in T /\ Others(T) = T \ {z} /\ IsFiniteSet(T)
    BY <2>2, ChosenIn, FS_Subset DEF Others
  <2>4. SumFunctionOnSet(f, T) = f[z] + SumFunctionOnSet(f, T \ {z})
    BY <2>2, <2>3, SumOfChosen
  <2>5. CASE y = z
    BY <2>4, <2>5
  <2>6. CASE y # z
    <3>1. T \ {z} \in Good /\ T \ {y} \in Good
      BY <1>1, <2>3
    <3>2. SumFunctionOnSet(f, T \ {z}) = f[y] + SumFunctionOnSet(f, (T \ {z}) \ {y})
      BY <2>6, <3>1
    <3>3. SumFunctionOnSet(f, T \ {y}) = f[z] + SumFunctionOnSet(f, (T \ {y}) \ {z})
      BY <2>3, <2>6, <3>1
    <3>4. (T \ {z}) \ {y} = (T \ {y}) \ {z}
      OBVIOUS
    <3>5. SumFunctionOnSet(f, (T \ {y}) \ {z}) \in Int /\ f[y] \in Int /\ f[z] \in Int
      <4>1. IsFiniteSet((T \ {y}) \ {z})
        BY <2>3, FS_Subset
      <4>2. QED
        BY <2>3, <4>1, SumInt
    <3>6. PICK rest \in Int : rest = SumFunctionOnSet(f, (T \ {y}) \ {z})
      BY <3>5
    <3>7. SumFunctionOnSet(f, T) = f[z] + (f[y] + rest)
      BY <2>4, <3>2, <3>4, <3>6
    <3>8. SumFunctionOnSet(f, T \ {y}) = f[z] + rest
      BY <3>3, <3>6
    <3>9. QED
      BY <3>5, <3>6, <3>7, <3>8
  <2>7. QED
    BY <2>5, <2>6
<1>2. S \in Good
  <2> HIDE DEF Good
  <2>1. QED
    BY <1>1, SetInduction
<1>3. QED
  BY <1>2

-----------------------------------------------------------------------------
\* The books: profit and escrow of a user are sums over the rows of picks

\* The rows of the table picks.
Present == {p \in Picks : picks[p].status # "absent"}

\* The picks of a user, and the pending ones, are rows of the table.
LEMMA OwnPresent ==
  ASSUME IInv, NEW u \in Users
  PROVE  PicksOf(u) \subseteq Present /\ PendingOf(u) \subseteq Present
BY UsersAssumption DEF IInv, LockInv, RowsOK, PicksOf, PendingOf, Present

\* A commit that writes one row leaves the table finite.
LEMMA PresentGrows ==
  ASSUME IsFiniteSet(Present), NEW p \in Picks,
         \A q \in Picks : q # p => picks'[q] = picks[q]
  PROVE  IsFiniteSet(Present')
<1>1. IsFiniteSet(Present \cup {p})
  BY FS_AddElement
<1>2. Present' \subseteq Present \cup {p}
  BY DEF Present
<1> QED
  BY <1>1, <1>2, FS_Subset

\* Two sums over sets that differ in one element, of functions that differ there only,
\* differ by what that element adds to each.
LEMMA SumMoved ==
  ASSUME NEW f, NEW g, NEW S, NEW T, IsFiniteSet(S), IsFiniteSet(T), NEW p,
         S \ {p} = T \ {p},
         \A x \in S : f[x] \in Int,
         \A x \in T : g[x] \in Int,
         \A x \in S \ {p} : f[x] = g[x]
  PROVE  \E rest \in Int :
           /\ SumFunctionOnSet(f, S) = (IF p \in S THEN f[p] ELSE 0) + rest
           /\ SumFunctionOnSet(g, T) = (IF p \in T THEN g[p] ELSE 0) + rest
<1> DEFINE R == S \ {p}
<1>1. IsFiniteSet(R)
  BY FS_Subset
<1>2. PICK rest \in Int : rest = SumFunctionOnSet(f, R)
  BY <1>1, SumInt
<1>3. rest = SumFunctionOnSet(g, R)
  BY <1>1, <1>2, SumAgree
<1>4. SumFunctionOnSet(f, S) = (IF p \in S THEN f[p] ELSE 0) + rest
  <2>1. CASE p \in S
    BY <1>2, <2>1, SumTaken
  <2>2. CASE p \notin S
    <3>1. R = S
      BY <2>2
    <3>2. SumFunctionOnSet(f, S) = rest
      BY <1>2, <3>1
    <3> QED
      BY <2>2, <3>2
  <2> QED
    BY <2>1, <2>2
<1>5. SumFunctionOnSet(g, T) = (IF p \in T THEN g[p] ELSE 0) + rest
  <2>1. CASE p \in T
    BY <1>3, <2>1, SumTaken
  <2>2. CASE p \notin T
    <3>1. R = T
      BY <2>2
    <3>2. SumFunctionOnSet(g, T) = rest
      BY <1>3, <3>1
    <3> QED
      BY <2>2, <3>2
  <2> QED
    BY <2>1, <2>2
<1> QED
  BY <1>4, <1>5

\* What one row adds to the profit of u and to the escrow of u.
ProfitFor(u, pk) == IF pk.user = u THEN pk.profit ELSE 0
EscrowFor(u, pk) == IF pk.user = u /\ pk.status = "pending" THEN pk.stake ELSE 0

\* A commit that writes row p moves both sums of a user by what p adds to them.
LEMMA BooksMoved ==
  ASSUME IInv, IInv', IsFiniteSet(Present), NEW p \in Picks,
         \A q \in Picks : q # p => picks'[q] = picks[q],
         NEW u \in Users
  PROVE  /\ \E rest \in Int : /\ ProfitOf(u) = ProfitFor(u, picks[p]) + rest
                             /\ ProfitOf(u)' = ProfitFor(u, picks'[p]) + rest
         /\ \E rest \in Int : /\ EscrowExpected(u) = EscrowFor(u, picks[p]) + rest
                             /\ EscrowExpected(u)' = EscrowFor(u, picks'[p]) + rest
<1>t. /\ picks \in [Picks -> PickRow]
      /\ picks' \in [Picks -> PickRow]
  BY DEF IInv, LockInv, TypeOK
<1>f. /\ IsFiniteSet(PicksOf(u)) /\ IsFiniteSet(PicksOf(u)')
      /\ IsFiniteSet(PendingOf(u)) /\ IsFiniteSet(PendingOf(u)')
  <2>1. IsFiniteSet(Present')
    BY PresentGrows
  <2>2. PicksOf(u)' \subseteq Present' /\ PendingOf(u)' \subseteq Present'
    BY UsersAssumption DEF IInv, LockInv, RowsOK, PicksOf, PendingOf, Present
  <2> QED
    BY <2>1, <2>2, OwnPresent, FS_Subset
<1>1. \E rest \in Int : /\ ProfitOf(u) = ProfitFor(u, picks[p]) + rest
                       /\ ProfitOf(u)' = ProfitFor(u, picks'[p]) + rest
  <2> DEFINE f == [q \in Picks |-> picks[q].profit]
             g == [q \in Picks |-> picks'[q].profit]
             S == PicksOf(u)
             T == PicksOf(u)'
  <2>1. /\ S \ {p} = T \ {p}
        /\ \A x \in S : f[x] \in Int
        /\ \A x \in T : g[x] \in Int
        /\ \A x \in S \ {p} : f[x] = g[x]
    BY <1>t DEF PicksOf, PickRow
  <2>2. /\ ProfitOf(u) = SumFunctionOnSet(f, S)
        /\ ProfitOf(u)' = SumFunctionOnSet(g, T)
    BY DEF ProfitOf
  <2>3. /\ (IF p \in S THEN f[p] ELSE 0) = ProfitFor(u, picks[p])
        /\ (IF p \in T THEN g[p] ELSE 0) = ProfitFor(u, picks'[p])
    BY DEF PicksOf, ProfitFor
  <2> HIDE DEF f, g, S, T
  <2>4. \E rest \in Int :
           /\ SumFunctionOnSet(f, S) = (IF p \in S THEN f[p] ELSE 0) + rest
           /\ SumFunctionOnSet(g, T) = (IF p \in T THEN g[p] ELSE 0) + rest
    BY <1>f, <2>1, SumMoved DEF S, T
  <2> QED
    BY <2>2, <2>3, <2>4
<1>2. \E rest \in Int : /\ EscrowExpected(u) = EscrowFor(u, picks[p]) + rest
                       /\ EscrowExpected(u)' = EscrowFor(u, picks'[p]) + rest
  <2> DEFINE f == [q \in Picks |-> picks[q].stake]
             g == [q \in Picks |-> picks'[q].stake]
             S == PendingOf(u)
             T == PendingOf(u)'
  <2>1. /\ S \ {p} = T \ {p}
        /\ \A x \in S : f[x] \in Int
        /\ \A x \in T : g[x] \in Int
        /\ \A x \in S \ {p} : f[x] = g[x]
    BY <1>t DEF PendingOf, PickRow
  <2>2. /\ EscrowExpected(u) = SumFunctionOnSet(f, S)
        /\ EscrowExpected(u)' = SumFunctionOnSet(g, T)
    BY DEF EscrowExpected
  <2>3. /\ (IF p \in S THEN f[p] ELSE 0) = EscrowFor(u, picks[p])
        /\ (IF p \in T THEN g[p] ELSE 0) = EscrowFor(u, picks'[p])
    BY DEF PendingOf, EscrowFor
  <2> HIDE DEF f, g, S, T
  <2>4. \E rest \in Int :
           /\ SumFunctionOnSet(f, S) = (IF p \in S THEN f[p] ELSE 0) + rest
           /\ SumFunctionOnSet(g, T) = (IF p \in T THEN g[p] ELSE 0) + rest
    BY <1>f, <2>1, SumMoved DEF S, T
  <2> QED
    BY <2>2, <2>3, <2>4
<1> QED
  BY <1>1, <1>2

\* A pick has no profit before it is settled.
NoEarlyProfit ==
  \A p \in Picks : picks[p].status \in {"absent", "pending"} => picks[p].profit = 0

\* The table is finite at every moment, so its sums are defined.
BooksInv == IsFiniteSet(Present) /\ NoEarlyProfit

\* One commit writes at most one row of picks, and what it writes there.
LEMMA OnePick ==
  ASSUME IInv, NEW r \in Requests, CommitMoney(r) \/ CommitPick(r)
  PROVE  \E p \in Picks :
           /\ \A q \in Picks : q # p => picks'[q] = picks[q]
           /\ \/ picks[p].status = "absent" /\ picks'[p] = NewPick(r)
              \/ /\ picks[p].status = "pending"
                 /\ job[r].target \in Outcomes
                 /\ picks'[p] = SettledPick(picks[p], job[r].target)
              \/ picks[p].status # "absent" /\ picks'[p] = Edited(picks[p], job[r])
<1>t. picks \in [Picks -> PickRow]
  BY DEF IInv, LockInv, TypeOK
<1>1. CASE CommitMoney(r)
  BY <1>t, <1>1, CommitMoneyCases
<1>2. CASE CommitPick(r)
  BY <1>t, <1>2, CommitPickCases
<1> QED
  BY <1>1, <1>2

\* Every behaviour keeps the table finite and unsettled picks without profit.
LEMMA BooksKept == Spec => []BooksInv
<1>1. Init => BooksInv
  <2> SUFFICES ASSUME Init PROVE BooksInv
    OBVIOUS
  <2>1. Present = {}
    BY DEF Init, Present, NoPick
  <2> QED
    BY <2>1, FS_EmptySet DEF Init, BooksInv, NoEarlyProfit, NoPick
<1>2. IInv /\ BooksInv /\ [Next]_vars => BooksInv'
  <2> SUFFICES ASSUME IInv, BooksInv, [Next]_vars
               PROVE  BooksInv'
    OBVIOUS
  <2>t. picks \in [Picks -> PickRow] /\ job \in [Requests -> Job]
    BY DEF IInv, LockInv, TypeOK
  <2>1. CASE picks' = picks
    BY <2>1 DEF BooksInv, Present, NoEarlyProfit
  <2>2. ASSUME NEW r \in Requests, CommitMoney(r) \/ CommitPick(r)
        PROVE  BooksInv'
    <3>1. PICK p \in Picks :
            /\ \A q \in Picks : q # p => picks'[q] = picks[q]
            /\ \/ picks[p].status = "absent" /\ picks'[p] = NewPick(r)
               \/ /\ picks[p].status = "pending"
                  /\ job[r].target \in Outcomes
                  /\ picks'[p] = SettledPick(picks[p], job[r].target)
               \/ picks[p].status # "absent" /\ picks'[p] = Edited(picks[p], job[r])
      BY <2>2, OnePick
    <3>2. IsFiniteSet(Present')
      BY <3>1, PresentGrows DEF BooksInv
    <3>3. picks'[p].status \in {"absent", "pending"} => picks'[p].profit = 0
      <4>1. picks[p] \in PickRow /\ job[r] \in Job
        BY <2>t
      <4>2. CASE picks'[p] = NewPick(r)
        BY <4>2 DEF NewPick
      <4>3. CASE job[r].target \in Outcomes /\ picks'[p] = SettledPick(picks[p], job[r].target)
        BY <4>1, <4>3, PickEffects DEF Outcomes
      <4>4. CASE picks'[p] = Edited(picks[p], job[r])
        BY <4>1, <4>4 DEF BooksInv, NoEarlyProfit, Edited, PickRow
      <4> QED
        BY <3>1, <4>2, <4>3, <4>4
    <3> QED
      BY <3>1, <3>2, <3>3 DEF BooksInv, NoEarlyProfit
  <2> QED
    BY <2>1, <2>2, TableSteps DEF tables, CommitRepair
<1> QED
  BY <1>1, <1>2, LockDiscipline, PTL DEF Spec

\* Settling moves the total of the wallet by the profit of the pick.
LEMMA SettlingPaysProfit ==
  ASSUME NEW pk \in PickRow, NEW t \in Outcomes, NEW w \in WalletRow
  PROVE  /\ SettledPick(pk, t).profit \in Int
         /\ SettledPick(pk, t).profit = Profit(t, pk.stake, pk.odds)
         /\ Total(EscrowReleased(w, pk, t)) = Total(w) + SettledPick(pk, t).profit
<1> DEFINE s == pk.stake
           o == pk.odds
           x == s * o
<1>1. s \in Nat /\ o \in Nat /\ x \in Int /\ w.available \in Int /\ w.locked \in Int
  BY DEF PickRow, WalletRow
<1>2. SettledPick(pk, t).profit = Profit(t, s, o)
  BY DEF SettledPick, PickRow
<1>3. Profit(t, s, o) = IF t = "won" THEN x - s ELSE IF t = "lost" THEN -s ELSE 0
  BY DEF Profit
<1>4. Credit(pk, t) = IF t = "won" THEN s + (x - s) ELSE IF t = "lost" THEN 0 ELSE s
  BY DEF Credit, Profit
<1>5. Total(EscrowReleased(w, pk, t)) = (w.available + Credit(pk, t)) + (w.locked - s)
  BY DEF Total, EscrowReleased
<1>6. Total(w) = w.available + w.locked
  BY DEF Total
<1> HIDE DEF s, o, x
<1> QED
  BY <1>1, <1>2, <1>3, <1>4, <1>5, <1>6 DEF s, o

\* A pick without a stake settles without profit.
LEMMA NothingStaked ==
  ASSUME NEW t, NEW o \in Nat
  PROVE  Profit(t, 0, o) = 0
<1>1. PICK x : x = 0 * o
  OBVIOUS
<1>2. x = 0
  BY <1>1
<1>3. Profit(t, 0, o) \in {x - 0, -0, 0}
  BY <1>1 DEF Profit
<1> QED
  BY <1>2, <1>3

\* Conservation, user by user.
Conserved(u) == Total(wallet[u]) = Funding[u] + ProfitOf(u)

\* A commit that writes one row keeps the wallet of u conserved when it moves its total
\* by what the row newly adds to the profit.
LEMMA ConservedBy ==
  ASSUME IInv, IInv', IsFiniteSet(Present), NEW p \in Picks,
         \A q \in Picks : q # p => picks'[q] = picks[q],
         NEW u \in Users, Conserved(u),
         NEW was \in Int, NEW is \in Int,
         ProfitFor(u, picks[p]) = was,
         ProfitFor(u, picks'[p]) = is,
         Total(wallet'[u]) = Total(wallet[u]) + is - was
  PROVE  Conserved(u)'
<1>1. PICK rest \in Int : /\ ProfitOf(u) = was + rest
                         /\ ProfitOf(u)' = is + rest
  BY BooksMoved
<1>2. Funding[u] \in Int
  BY MoneyAssumption
<1>3. Total(wallet[u]) = Funding[u] + (was + rest)
  BY <1>1 DEF Conserved
<1>4. Total(wallet'[u]) = Funding[u] + (is + rest)
  BY <1>1, <1>2, <1>3
<1> QED
  BY <1>1, <1>4 DEF Conserved

\* No money is created or lost: the wallet of every user is its funding and the profit of
\* its settled picks, for every mix of bets, settlements, deletes, edits and repairs.
THEOREM Conservation == Spec => []MoneyConserved
<1>1. Init => MoneyConserved
  <2> SUFFICES ASSUME Init, NEW u \in Users
               PROVE  Conserved(u)
    BY DEF MoneyConserved, Conserved
  <2>1. PicksOf(u) = {}
    BY UsersAssumption DEF Init, PicksOf, NoPick
  <2>2. ProfitOf(u) = 0
    BY <2>1, SumEmpty DEF ProfitOf
  <2>3. Total(wallet[u]) = Funding[u] + 0
    BY MoneyAssumption DEF Init, Total
  <2> QED
    BY <2>2, <2>3 DEF Conserved
<1>2. IInv /\ IInv' /\ AskedInv /\ BooksInv /\ MoneyConserved /\ [Next]_vars => MoneyConserved'
  <2> SUFFICES ASSUME IInv, IInv', AskedInv, BooksInv, MoneyConserved, [Next]_vars,
                      NEW v \in Users
               PROVE  Conserved(v)'
    BY DEF MoneyConserved, Conserved
  <2>t. /\ picks \in [Picks -> PickRow]
        /\ wallet \in [Users -> WalletRow]
        /\ job \in [Requests -> Job]
    BY DEF IInv, LockInv, TypeOK
  <2>c. /\ Conserved(v)
        /\ IsFiniteSet(Present)
        /\ wallet[v] \in WalletRow
        /\ Total(wallet[v]) \in Int
    BY <2>t DEF MoneyConserved, Conserved, BooksInv, Total, WalletRow
  <2>u. v # NoUser
    BY UsersAssumption
  <2>1. CASE UNCHANGED tables
    BY <2>1, <2>c DEF tables, Conserved, ProfitOf, PicksOf
  <2>2. ASSUME NEW r \in Requests, CommitMoney(r)
        PROVE  Conserved(v)'
    <3>1. PICK p \in Picks, u \in Users :
            \/ /\ picks[p].status = "absent"
               /\ job[r].stake \in Nat
               /\ picks' = [picks EXCEPT ![p] = NewPick(r)]
               /\ wallet' = [wallet EXCEPT ![u] = StakeLocked(wallet[u], job[r].stake)]
            \/ /\ picks[p].status = "pending"
               /\ picks[p].user = u
               /\ job[r].target \in Outcomes
               /\ picks' = [picks EXCEPT ![p] = SettledPick(picks[p], job[r].target)]
               /\ wallet' = [wallet EXCEPT ![u] =
                               EscrowReleased(wallet[u], picks[p], job[r].target)]
      BY <2>2, CommitMoneyCases
    <3>2. picks[p] \in PickRow /\ \A q \in Picks : q # p => picks'[q] = picks[q]
      BY <2>t, <3>1
    <3>3. CASE /\ picks[p].status = "absent"
               /\ job[r].stake \in Nat
               /\ picks' = [picks EXCEPT ![p] = NewPick(r)]
               /\ wallet' = [wallet EXCEPT ![u] = StakeLocked(wallet[u], job[r].stake)]
      <4>1. picks[p].user = NoUser
        BY <3>3 DEF IInv, LockInv, RowsOK
      <4>2. ProfitFor(v, picks[p]) = 0
        BY <2>u, <4>1 DEF ProfitFor
      <4>3. picks'[p] = NewPick(r)
        BY <2>t, <3>3
      <4>4. ProfitFor(v, picks'[p]) = 0
        BY <4>3 DEF ProfitFor, NewPick
      <4>5. Total(wallet'[v]) = Total(wallet[v])
        <5>1. CASE v = u
          BY <2>t, <3>3, <5>1 DEF Total, StakeLocked, WalletRow
        <5>2. CASE v # u
          BY <2>t, <3>3, <5>2
        <5> QED
          BY <5>1, <5>2
      <4>6. Total(wallet'[v]) = Total(wallet[v]) + 0 - 0
        BY <2>c, <4>5
      <4> QED
        BY <2>c, <3>2, <4>2, <4>4, <4>6, ConservedBy
    <3>4. CASE /\ picks[p].status = "pending"
               /\ picks[p].user = u
               /\ job[r].target \in Outcomes
               /\ picks' = [picks EXCEPT ![p] = SettledPick(picks[p], job[r].target)]
               /\ wallet' = [wallet EXCEPT ![u] =
                               EscrowReleased(wallet[u], picks[p], job[r].target)]
      <4> DEFINE is == IF v = u THEN SettledPick(picks[p], job[r].target).profit ELSE 0
      <4>1. picks[p].profit = 0
        BY <3>4 DEF BooksInv, NoEarlyProfit
      <4>2. ProfitFor(v, picks[p]) = 0
        BY <4>1 DEF ProfitFor
      <4>3. picks'[p] = SettledPick(picks[p], job[r].target)
        BY <2>t, <3>4
      <4>4. picks'[p].user = u
        BY <3>2, <3>4, <4>3 DEF SettledPick, PickRow
      <4>5. ProfitFor(v, picks'[p]) = is
        BY <4>3, <4>4 DEF ProfitFor
      <4>6. is \in Int /\ Total(wallet'[v]) = Total(wallet[v]) + is
        <5>1. CASE v = u
          <6>1. wallet'[v] = EscrowReleased(wallet[v], picks[p], job[r].target)
            BY <2>t, <3>4, <5>1
          <6> QED
            BY <2>c, <3>2, <3>4, <5>1, <6>1, SettlingPaysProfit
        <5>2. CASE v # u
          BY <2>t, <2>c, <3>4, <5>2
        <5> QED
          BY <5>1, <5>2
      <4> HIDE DEF is
      <4>7. Total(wallet'[v]) = Total(wallet[v]) + is - 0
        BY <2>c, <4>6
      <4> QED
        BY <2>c, <3>2, <4>2, <4>5, <4>6, <4>7, ConservedBy
    <3> QED
      BY <3>1, <3>3, <3>4
  <2>3. ASSUME NEW r \in Requests, CommitPick(r)
        PROVE  Conserved(v)'
    <3>1. PICK p \in Picks :
            /\ p = job[r].pick
            /\ wallet' = wallet
            /\ \/ /\ picks[p].status = "absent"
                  /\ NewPick(r).user = NoUser
                  /\ picks' = [picks EXCEPT ![p] = NewPick(r)]
               \/ /\ job[r].op = "settle"
                  /\ picks[p].status = "pending"
                  /\ job[r].target \in Outcomes
                  /\ picks' = [picks EXCEPT ![p] = SettledPick(picks[p], job[r].target)]
               \/ picks' = [picks EXCEPT ![p] = Edited(picks[p], job[r])]
      BY <2>3, CommitPickCases
    <3>2. /\ picks[p] \in PickRow
          /\ job[r] \in Job
          /\ \A q \in Picks : q # p => picks'[q] = picks[q]
      BY <2>t, <3>1
    <3>3. ProfitFor(v, picks'[p]) = ProfitFor(v, picks[p])
      <4>1. CASE /\ picks[p].status = "absent"
                 /\ NewPick(r).user = NoUser
                 /\ picks'[p] = NewPick(r)
        BY <2>u, <4>1 DEF ProfitFor, IInv, LockInv, RowsOK
      <4>2. CASE /\ job[r].op = "settle"
                 /\ picks[p].status = "pending"
                 /\ job[r].target \in Outcomes
                 /\ picks'[p] = SettledPick(picks[p], job[r].target)
        <5>1. ~Financial(picks[p])
          BY <2>3, <3>1, <4>2 DEF AskedInv, Asked, CommitPick
        <5>2. picks'[p].user = picks[p].user
          BY <3>2, <4>2 DEF SettledPick, PickRow
        <5>3. CASE picks[p].user # v
          BY <5>2, <5>3 DEF ProfitFor
        <5>4. CASE picks[p].user = v
          <6>1. picks[p].stake = 0 /\ picks[p].odds \in Nat
            BY <2>u, <3>2, <5>1, <5>4 DEF Financial, PickRow
          <6>2. picks'[p].profit = Profit(job[r].target, 0, picks[p].odds)
            BY <3>2, <4>2, <6>1 DEF SettledPick, PickRow
          <6>3. Profit(job[r].target, 0, picks[p].odds) = 0
            BY <6>1, NothingStaked
          <6>4. picks[p].profit = 0
            BY <4>2 DEF BooksInv, NoEarlyProfit
          <6> QED
            BY <5>2, <6>2, <6>3, <6>4 DEF ProfitFor
        <5> QED
          BY <5>3, <5>4
      <4>3. CASE picks'[p] = Edited(picks[p], job[r])
        BY <3>2, <4>3 DEF Edited, PickRow, ProfitFor
      <4> QED
        BY <2>t, <3>1, <4>1, <4>2, <4>3
    <3>4. PICK was \in Int : was = ProfitFor(v, picks[p])
      BY <3>2 DEF ProfitFor, PickRow
    <3>5. Total(wallet'[v]) = Total(wallet[v]) + was - was
      BY <2>c, <3>1
    <3> QED
      BY <2>c, <3>2, <3>3, <3>4, <3>5, ConservedBy
  <2>4. ASSUME NEW r \in Requests, CommitRepair(r)
        PROVE  Conserved(v)'
    <3>1. PICK u \in Users, w \in [available : Nat, locked : Nat] :
            /\ Total(w) = Total(wallet[u])
            /\ wallet' = [wallet EXCEPT ![u] = w]
            /\ picks' = picks
      BY <2>4, CommitRepairCase
    <3>2. Total(wallet'[v]) = Total(wallet[v])
      BY <2>t, <3>1
    <3> QED
      BY <2>c, <3>1, <3>2 DEF Conserved, ProfitOf, PicksOf
  <2> QED
    BY <2>1, <2>2, <2>3, <2>4, TableSteps
<1> QED
  BY <1>1, <1>2, LockDiscipline, AskedKept, BooksKept, PTL DEF Spec

\* No request is about to commit a repair.
NothingToRepair == \A r \in Requests : pc[r] # "commitRepair"

\* The escrow of one user.
Matched(u) == wallet[u].locked = EscrowExpected(u)

\* A commit that writes one row keeps the escrow matched when it moves what is locked by
\* what the row newly adds to the pending stakes.
LEMMA MatchedBy ==
  ASSUME IInv, IInv', IsFiniteSet(Present), NEW p \in Picks,
         \A q \in Picks : q # p => picks'[q] = picks[q],
         NEW u \in Users, Matched(u),
         NEW was \in Int, NEW is \in Int,
         EscrowFor(u, picks[p]) = was,
         EscrowFor(u, picks'[p]) = is,
         wallet'[u].locked = wallet[u].locked + is - was
  PROVE  Matched(u)'
<1>1. PICK rest \in Int : /\ EscrowExpected(u) = was + rest
                         /\ EscrowExpected(u)' = is + rest
  BY BooksMoved
<1>2. wallet[u].locked = was + rest
  BY <1>1 DEF Matched
<1>3. wallet'[u].locked = is + rest
  BY <1>1, <1>2
<1> QED
  BY <1>1, <1>3 DEF Matched

\* Only fix_user_balance comes to a repair, and only when it wants another wallet.
LEMMA RepairWanted ==
  ASSUME IInv, NEW r \in Requests, BeginAny(r) \/ Step(r) \/ Abort(r),
         pc'[r] = "commitRepair"
  PROVE  /\ job[r].op = "fix"
         /\ job[r].user \in Users
         /\ LedgerTotal(job[r].user) = Total(wallet[job[r].user])
         /\ RepairedWallet(job[r].user) # wallet[job[r].user]
<1>t. pc \in [Requests -> InFlight \cup Final \cup {"idle"}] /\ Grounded(r)
  BY DEF IInv, LockInv, TypeOK
<1>1. CASE BeginAny(r)
  BY <1>t, <1>1 DEF BeginAny, BeginCreate, BeginSettle, BeginDelete, BeginEdit, BeginFix, Begin
<1>2. ASSUME NEW how \in Final, End(r, how)
      PROVE  FALSE
  BY <1>t, <1>2 DEF End, Final
<1>3. ASSUME NEW how \in Final, Leave(r, how)
      PROVE  FALSE
  BY <1>2, <1>3 DEF Leave
<1>4. CASE CreateUnstaked(r) \/ CreateStaked(r) \/ LockPick(r) \/ RecordSettlement(r)
  <2>1. \A how : Leave(r, how) => how \notin Final
    BY <1>3
  <2> QED
    BY <1>t, <1>4, <2>1 DEF CreateUnstaked, CreateStaked, LockPick, RecordSettlement,
                            Flush, Goto, Final
<1>5. CASE GateWallet(r) \/ GateLedger(r) \/ FlushEdit(r)
  <2>1. \A how : Leave(r, how) => how \notin Final
    BY <1>3
  <2> QED
    BY <1>t, <1>5, <2>1 DEF GateWallet, GateLedger, FlushEdit, Flush, Goto, Final
<1>6. CASE CommitMoney(r) \/ CommitPick(r) \/ CommitRepair(r) \/ Abort(r)
  BY <1>2, <1>3, <1>6 DEF CommitMoney, CommitPick, CommitRepair, Abort, Final
<1>7. CASE Repair(r)
  <2>1. ~Leave(r, "rejected") /\ ~Leave(r, "done")
    BY <1>3 DEF Final
  <2>2. job[r].op = "fix" /\ job[r].user \in Users
    BY <1>t, <1>7 DEF Repair, Grounded
  <2> QED
    BY <1>7, <2>1, <2>2 DEF Repair
<1> QED
  BY <1>1, <1>4, <1>5, <1>6, <1>7 DEF Step

\* With the escrow in order a repair finds the wallet as it wants it.
LEMMA RepairIdle ==
  ASSUME IInv, NEW u \in Users, Matched(u), LedgerTotal(u) = Total(wallet[u])
  PROVE  RepairedWallet(u) = wallet[u]
<1>1. PICK a \in Int, l \in Int : wallet[u] = [available |-> a, locked |-> l]
  BY DEF IInv, LockInv, TypeOK, WalletRow
<1>2. EscrowExpected(u) = l /\ LedgerTotal(u) = a + l
  BY <1>1 DEF Matched, Total
<1>3. (a + l) - l = a
  OBVIOUS
<1> QED
  BY <1>1, <1>2, <1>3 DEF RepairedWallet

\* While stakes cannot be edited, the escrow matches the pending stakes and there is
\* nothing to repair.
LEMMA EscrowTogether ==
  ASSUME "edit" \notin Ops
  PROVE  Spec => [](EscrowMatchesPending /\ NothingToRepair)
<1>1. Init => EscrowMatchesPending /\ NothingToRepair
  <2> SUFFICES ASSUME Init, NEW u \in Users
               PROVE  Matched(u) /\ NothingToRepair
    BY UsersAssumption DEF EscrowMatchesPending, Matched
  <2>1. PendingOf(u) = {}
    BY DEF Init, PendingOf, NoPick
  <2> QED
    BY <2>1, SumEmpty DEF Init, Matched, EscrowExpected, NothingToRepair
<1>2. /\ IInv /\ IInv' /\ AskedInv /\ BooksInv
      /\ EscrowMatchesPending /\ NothingToRepair /\ [Next]_vars
      => NothingToRepair'
  <2> SUFFICES ASSUME IInv, EscrowMatchesPending, NothingToRepair, [Next]_vars,
                      NEW q \in Requests, pc'[q] = "commitRepair"
               PROVE  FALSE
    BY DEF NothingToRepair
  <2>1. ~UNCHANGED vars
    BY DEF vars, txns, NothingToRepair
  <2>2. PICK r \in Requests : BeginAny(r) \/ Step(r) \/ Abort(r)
    BY <2>1 DEF Next, Idle
  <2>3. q = r
    BY <2>2, OthersTxn DEF NothingToRepair, IInv, LockInv
  <2>4. /\ job[r].user \in Users
        /\ LedgerTotal(job[r].user) = Total(wallet[job[r].user])
        /\ RepairedWallet(job[r].user) # wallet[job[r].user]
    BY <2>2, <2>3, RepairWanted
  <2>5. Matched(job[r].user)
    BY <2>4 DEF EscrowMatchesPending, Matched
  <2> QED
    BY <2>4, <2>5, RepairIdle
<1>3. /\ IInv /\ IInv' /\ AskedInv /\ BooksInv
      /\ EscrowMatchesPending /\ NothingToRepair /\ [Next]_vars
      => EscrowMatchesPending'
  <2> SUFFICES ASSUME IInv, IInv', AskedInv, BooksInv, EscrowMatchesPending, NothingToRepair,
                      [Next]_vars, NEW v \in Users
               PROVE  Matched(v)'
    BY DEF EscrowMatchesPending, Matched
  <2>t. /\ picks \in [Picks -> PickRow]
        /\ wallet \in [Users -> WalletRow]
        /\ job \in [Requests -> Job]
    BY DEF IInv, LockInv, TypeOK
  <2>c. /\ Matched(v)
        /\ IsFiniteSet(Present)
        /\ wallet[v].locked \in Int
    BY <2>t DEF EscrowMatchesPending, Matched, BooksInv, WalletRow
  <2>u. v # NoUser
    BY UsersAssumption
  <2>1. CASE UNCHANGED tables
    BY <2>1, <2>c DEF tables, Matched, EscrowExpected, PendingOf
  <2>2. ASSUME NEW r \in Requests, CommitMoney(r)
        PROVE  Matched(v)'
    <3>1. PICK p \in Picks, u \in Users :
            \/ /\ picks[p].status = "absent"
               /\ job[r].stake \in Nat
               /\ job[r].user = u
               /\ picks' = [picks EXCEPT ![p] = NewPick(r)]
               /\ wallet' = [wallet EXCEPT ![u] = StakeLocked(wallet[u], job[r].stake)]
            \/ /\ picks[p].status = "pending"
               /\ picks[p].user = u
               /\ job[r].target \in Outcomes
               /\ picks' = [picks EXCEPT ![p] = SettledPick(picks[p], job[r].target)]
               /\ wallet' = [wallet EXCEPT ![u] =
                               EscrowReleased(wallet[u], picks[p], job[r].target)]
      BY <2>2, CommitMoneyCases
    <3>2. picks[p] \in PickRow /\ \A q \in Picks : q # p => picks'[q] = picks[q]
      BY <2>t, <3>1
    <3>3. CASE /\ picks[p].status = "absent"
               /\ job[r].stake \in Nat
               /\ job[r].user = u
               /\ picks' = [picks EXCEPT ![p] = NewPick(r)]
               /\ wallet' = [wallet EXCEPT ![u] = StakeLocked(wallet[u], job[r].stake)]
      <4> DEFINE is == IF v = u THEN job[r].stake ELSE 0
      <4>1. EscrowFor(v, picks[p]) = 0
        BY <3>3 DEF EscrowFor
      <4>2. picks'[p] = NewPick(r)
        BY <2>t, <3>3
      <4>3. EscrowFor(v, picks'[p]) = is /\ is \in Int
        BY <3>3, <4>2 DEF EscrowFor, NewPick
      <4>4. wallet'[v].locked = wallet[v].locked + is - 0
        <5>1. CASE v = u
          BY <2>t, <2>c, <3>3, <5>1 DEF StakeLocked
        <5>2. CASE v # u
          BY <2>t, <2>c, <3>3, <5>2
        <5> QED
          BY <5>1, <5>2
      <4> HIDE DEF is
      <4> QED
        BY <2>c, <3>2, <4>1, <4>3, <4>4, MatchedBy
    <3>4. CASE /\ picks[p].status = "pending"
               /\ picks[p].user = u
               /\ job[r].target \in Outcomes
               /\ picks' = [picks EXCEPT ![p] = SettledPick(picks[p], job[r].target)]
               /\ wallet' = [wallet EXCEPT ![u] =
                               EscrowReleased(wallet[u], picks[p], job[r].target)]
      <4> DEFINE was == IF v = u THEN picks[p].stake ELSE 0
      <4>1. EscrowFor(v, picks[p]) = was /\ was \in Int
        BY <3>2, <3>4 DEF EscrowFor, PickRow
      <4>2. picks'[p].status \in Outcomes
        BY <2>t, <3>2, <3>4, PickEffects DEF SettledPick, PickRow
      <4>3. EscrowFor(v, picks'[p]) = 0
        BY <4>2 DEF EscrowFor, Outcomes
      <4>4. wallet'[v].locked = wallet[v].locked + 0 - was
        <5>1. CASE v = u
          BY <2>t, <2>c, <3>2, <3>4, <4>1, <5>1 DEF EscrowReleased
        <5>2. CASE v # u
          BY <2>t, <2>c, <3>4, <5>2
        <5> QED
          BY <5>1, <5>2
      <4> HIDE DEF was
      <4> QED
        BY <2>c, <3>2, <4>1, <4>3, <4>4, MatchedBy
    <3> QED
      BY <3>1, <3>3, <3>4
  <2>3. ASSUME NEW r \in Requests, CommitPick(r)
        PROVE  Matched(v)'
    <3>1. PICK p \in Picks :
            /\ p = job[r].pick
            /\ wallet' = wallet
            /\ \/ /\ picks[p].status = "absent"
                  /\ NewPick(r).user = NoUser
                  /\ picks' = [picks EXCEPT ![p] = NewPick(r)]
               \/ /\ job[r].op = "settle"
                  /\ picks[p].status = "pending"
                  /\ job[r].target \in Outcomes
                  /\ picks' = [picks EXCEPT ![p] = SettledPick(picks[p], job[r].target)]
               \/ job[r].op = "edit"
      BY <2>3, CommitPickCases
    <3>2. /\ picks[p] \in PickRow
          /\ \A q \in Picks : q # p => picks'[q] = picks[q]
          /\ job[r].op # "edit"
      BY <2>t, <3>1 DEF AskedInv, Asked
    <3>3. EscrowFor(v, picks[p]) = 0 /\ EscrowFor(v, picks'[p]) = 0
      <4>1. CASE /\ picks[p].status = "absent"
                 /\ NewPick(r).user = NoUser
                 /\ picks'[p] = NewPick(r)
        BY <2>u, <4>1 DEF EscrowFor
      <4>2. CASE /\ job[r].op = "settle"
                 /\ job[r].target \in Outcomes
                 /\ picks'[p] = SettledPick(picks[p], job[r].target)
        <5>1. ~Financial(picks[p])
          BY <2>3, <3>1, <4>2 DEF AskedInv, Asked, CommitPick
        <5>2. picks[p].user = v => picks[p].stake = 0
          BY <2>u, <3>2, <5>1 DEF Financial, PickRow
        <5>3. picks'[p].status # "pending"
          BY <3>2, <4>2 DEF SettledPick, PickRow, Outcomes
        <5> QED
          BY <5>2, <5>3 DEF EscrowFor
      <4> QED
        BY <2>t, <3>1, <3>2, <4>1, <4>2
    <3>4. wallet'[v].locked = wallet[v].locked + 0 - 0
      BY <2>c, <3>1
    <3> QED
      BY <2>c, <3>2, <3>3, <3>4, MatchedBy
  <2>4. ASSUME NEW r \in Requests, CommitRepair(r)
        PROVE  FALSE
    BY <2>4 DEF CommitRepair, NothingToRepair
  <2> QED
    BY <2>1, <2>2, <2>3, <2>4, TableSteps
<1> QED
  BY <1>1, <1>2, <1>3, LockDiscipline, AskedKept, BooksKept, PTL DEF Spec

\* What every bet locks is in escrow until that bet settles: the locked balance is the sum
\* of the pending stakes, as long as update_pick edits no stake.
THEOREM EscrowKept ==
  ASSUME "edit" \notin Ops
  PROVE  Spec => []EscrowMatchesPending
BY EscrowTogether, PTL

\* Without edits or without repairs no request ever comes to commit a repair.
LEMMA NoRepairs ==
  ASSUME "edit" \notin Ops \/ "fix" \notin Ops
  PROVE  Spec => []NothingToRepair
<1>1. CASE "edit" \notin Ops
  BY <1>1, EscrowTogether, PTL
<1>2. CASE "fix" \notin Ops
  <2>1. IInv /\ AskedInv => NothingToRepair
    <3> SUFFICES ASSUME IInv, AskedInv, NEW r \in Requests, pc[r] = "commitRepair"
                 PROVE  FALSE
      BY DEF NothingToRepair
    <3>1. Grounded(r) /\ job[r] \in Job /\ Asked(r)
      BY DEF IInv, LockInv, TypeOK, AskedInv
    <3> QED
      BY <1>2, <3>1 DEF Grounded, Statements, Job, Final, Asked
  <2> QED
    BY <2>1, LockDiscipline, AskedKept, PTL
<1> QED
  BY <1>1, <1>2

\* The wallet of one user and its last ledger row.
Mirrored(u) ==
  ledger[u] # <<>> =>
    /\ LastEntry(u).balance_after = wallet[u].available
    /\ LastEntry(u).locked_after = wallet[u].locked

\* The wallet row is, field by field, what its last committed ledger row says, unless edits
\* give repairs something to do.
THEOREM LedgerMirrors ==
  ASSUME "edit" \notin Ops \/ "fix" \notin Ops
  PROVE  Spec => []LedgerMirrorsWallet
<1>1. Init => LedgerMirrorsWallet
  BY DEF Init, LedgerMirrorsWallet
<1>2. IInv /\ NothingToRepair /\ LedgerMirrorsWallet /\ [Next]_vars => LedgerMirrorsWallet'
  <2> SUFFICES ASSUME IInv, NothingToRepair, LedgerMirrorsWallet, [Next]_vars,
                      NEW v \in Users
               PROVE  Mirrored(v)'
    BY DEF LedgerMirrorsWallet, Mirrored
  <2>t. /\ wallet \in [Users -> WalletRow]
        /\ ledger \in [Users -> Seq(Entry)]
        /\ Mirrored(v)
    BY DEF IInv, LockInv, TypeOK, LedgerMirrorsWallet, Mirrored
  <2>1. CASE UNCHANGED <<wallet, ledger>>
    BY <2>1, <2>t DEF Mirrored, LastEntry
  <2>2. ASSUME NEW r \in Requests, CommitMoney(r)
        PROVE  Mirrored(v)'
    <3>1. PICK u \in Users : \E w, type, p, amount, time :
            /\ wallet' = [wallet EXCEPT ![u] = w]
            /\ ledger' = [ledger EXCEPT ![u] =
                            Append(@, LedgerRow(type, p, amount, w, time))]
      BY <2>2, CommitMoneyCases
    <3>2. PICK w, type, p, amount, time :
            /\ wallet' = [wallet EXCEPT ![u] = w]
            /\ ledger' = [ledger EXCEPT ![u] =
                            Append(@, LedgerRow(type, p, amount, w, time))]
      BY <3>1
    <3> DEFINE e == LedgerRow(type, p, amount, w, time)
    <3>3. e.balance_after = w.available /\ e.locked_after = w.locked
      BY DEF LedgerRow
    <3> HIDE DEF e
    <3>4. CASE v = u
      <4>1. ledger'[v] = Append(ledger[v], e) /\ wallet'[v] = w /\ ledger[v] \in Seq(Entry)
        BY <2>t, <3>2, <3>4 DEF e
      <4>2. ledger'[v][Len(ledger'[v])] = e
        BY <4>1
      <4> QED
        BY <3>3, <4>1, <4>2 DEF Mirrored, LastEntry
    <3>5. CASE v # u
      <4>1. wallet'[v] = wallet[v] /\ ledger'[v] = ledger[v]
        BY <2>t, <3>2, <3>5
      <4> QED
        BY <2>t, <4>1 DEF Mirrored, LastEntry
    <3> QED
      BY <3>4, <3>5
  <2>3. ASSUME NEW r \in Requests, CommitPick(r)
        PROVE  Mirrored(v)'
    BY <2>1, <2>3 DEF CommitPick
  <2>4. ASSUME NEW r \in Requests, CommitRepair(r)
        PROVE  FALSE
    BY <2>4 DEF CommitRepair, NothingToRepair
  <2> QED
    BY <2>1, <2>2, <2>3, <2>4, TableSteps DEF tables
<1> QED
  BY <1>1, <1>2, LockDiscipline, NoRepairs, PTL DEF Spec

-----------------------------------------------------------------------------
\* Each commit is a step of the book

\* The book starts with the funded wallets and no bets.
LEMMA BookInit == Init => Book!Init
BY DEF Init, Book!Init, Book!Unplaced, Free, NoPick

\* The book's gain is the profit of the services, and the stake with it is what they
\* credit.
LEMMA BookGain ==
  ASSUME NEW s \in Nat, NEW o \in Nat, NEW t \in Outcomes, NEW pk \in PickRow,
         pk.stake = s, pk.odds = o
  PROVE  /\ Book!Gain(s, o, t) = Profit(t, s, o)
         /\ Profit(t, s, o) \in Int
         /\ Credit(pk, t) = s + Profit(t, s, o)
<1>1. s * o \in Nat
  OBVIOUS
<1> DEFINE x == s * o
<1> HIDE DEF x
<1>2. s * o = x /\ x \in Nat
  BY <1>1 DEF x
<1> QED
  BY <1>2 DEF Book!Gain, Profit, Credit, Outcomes

\* Settling a pick with money or without closes the bet.
LEMMA BookClose ==
  ASSUME IInv, NEW p \in Picks, NEW t \in Outcomes,
         picks[p].status = "pending",
         ResolvableAs(picks[p], t),
         picks' = [picks EXCEPT ![p] = SettledPick(picks[p], t)],
         \A u \in Users :
           wallet'[u].available = IF u = picks[p].user
                                  THEN wallet[u].available + Credit(picks[p], t)
                                  ELSE wallet[u].available
  PROVE  Book!Next
<1> DEFINE pk == picks[p]
           gain == Book!Gain(pk.stake, pk.odds, t)
<1>1. /\ picks \in [Picks -> PickRow]
      /\ wallet \in [Users -> WalletRow]
      /\ pk \in PickRow
  BY DEF IInv, LockInv, TypeOK
<1>2. pk.stake \in Nat /\ pk.odds \in Nat /\ pk.status = "pending"
  BY <1>1 DEF PickRow
<1>3. /\ gain = Profit(t, pk.stake, pk.odds)
      /\ gain \in Int
      /\ Credit(pk, t) = pk.stake + gain
  BY <1>1, <1>2, BookGain
<1> HIDE DEF gain
<1>4. pk.stake > 0 \/ t = "void"
  BY DEF ResolvableAs
<1>5. picks' = [picks EXCEPT ![p] = [@ EXCEPT !.status = t, !.profit = gain]]
  BY <1>3 DEF SettledPick
<1>6. Free' = [u \in Users |->
                 IF u = picks[p].user THEN Free[u] + picks[p].stake + gain ELSE Free[u]]
  <2>1. ASSUME NEW u \in Users
        PROVE  wallet'[u].available = IF u = picks[p].user
                                      THEN wallet[u].available + picks[p].stake + gain
                                      ELSE wallet[u].available
    BY <1>1, <1>2, <1>3 DEF WalletRow
  <2> QED
    BY <2>1 DEF Free
<1>7. Book!Close(p, t)
  BY <1>2, <1>4, <1>5, <1>6 DEF Book!Close, gain
<1> QED
  BY <1>7 DEF Book!Next, Outcomes

\* A commit of money places a bet or closes one.
LEMMA BookMoney ==
  ASSUME IInv, AskedInv, NEW r \in Requests, CommitMoney(r)
  PROVE  Book!Next
<1>t. /\ picks \in [Picks -> PickRow]
      /\ wallet \in [Users -> WalletRow]
      /\ job \in [Requests -> Job]
  BY DEF IInv, LockInv, TypeOK
<1>1. PICK p \in Picks, u \in Users :
        \/ /\ p = job[r].pick
           /\ job[r].op = "create"
           /\ picks[p].status = "absent"
           /\ job[r].stake \in Nat
           /\ job[r].stake > 0
           /\ job[r].user = u
           /\ wallet[u].available >= job[r].stake
           /\ picks' = [picks EXCEPT ![p] = NewPick(r)]
           /\ wallet' = [wallet EXCEPT ![u] = StakeLocked(wallet[u], job[r].stake)]
        \/ /\ picks[p].status = "pending"
           /\ picks[p].user = u
           /\ picks[p].stake > 0
           /\ job[r].target \in Outcomes
           /\ picks' = [picks EXCEPT ![p] = SettledPick(picks[p], job[r].target)]
           /\ wallet' = [wallet EXCEPT ![u] =
                           EscrowReleased(wallet[u], picks[p], job[r].target)]
  BY CommitMoneyCases
<1>2. ASSUME job[r].op = "create",
             picks[p].status = "absent",
             job[r].stake \in Nat,
             job[r].stake > 0,
             job[r].user = u,
             wallet[u].available >= job[r].stake,
             picks' = [picks EXCEPT ![p] = NewPick(r)],
             wallet' = [wallet EXCEPT ![u] = StakeLocked(wallet[u], job[r].stake)]
      PROVE  Book!Next
  <2> DEFINE s == job[r].stake
             o == job[r].odds
  <2>1. s \in Stakes /\ o \in Odds
    BY <1>2 DEF AskedInv, Asked
  <2>2. Free' = [Free EXCEPT ![u] = @ - s]
    <3>1. ASSUME NEW v \in Users
          PROVE  wallet'[v].available = IF v = u THEN wallet[v].available - s
                                                 ELSE wallet[v].available
      BY <1>t, <1>2 DEF StakeLocked
    <3> QED
      BY <3>1 DEF Free
  <2>3. Free[u] >= s
    BY <1>2 DEF Free
  <2>4. Book!Place(p, u, s, o)
    BY <1>2, <2>2, <2>3 DEF Book!Place, NewPick
  <2> QED
    BY <2>1, <2>4 DEF Book!Next
<1>3. ASSUME picks[p].status = "pending",
             picks[p].user = u,
             picks[p].stake > 0,
             job[r].target \in Outcomes,
             picks' = [picks EXCEPT ![p] = SettledPick(picks[p], job[r].target)],
             wallet' = [wallet EXCEPT ![u] =
                          EscrowReleased(wallet[u], picks[p], job[r].target)]
      PROVE  Book!Next
  <2>1. ASSUME NEW v \in Users
        PROVE  wallet'[v].available = IF v = picks[p].user
                                      THEN wallet[v].available + Credit(picks[p], job[r].target)
                                      ELSE wallet[v].available
    BY <1>t, <1>3 DEF EscrowReleased
  <2>2. ResolvableAs(picks[p], job[r].target)
    BY <1>3 DEF ResolvableAs
  <2> QED
    BY <1>3, <2>1, <2>2, BookClose
<1> QED
  BY <1>1, <1>2, <1>3

\* A commit without money notes a pick without a stake, or closes one.
LEMMA BookPick ==
  ASSUME "edit" \notin Ops, IInv, AskedInv, NEW r \in Requests, CommitPick(r)
  PROVE  Book!Next
<1> DEFINE p == job[r].pick
           t == job[r].target
<1>1. /\ TypeOK
      /\ Own(r)
      /\ Asked(r)
      /\ job[r] \in Job
      /\ p \in Picks
      /\ t \in Outcomes
      /\ picks[p] \in PickRow
      /\ pc[r] = "commitPick"
      /\ wallet' = wallet
      /\ picks' = [picks EXCEPT ![p] = buf[r].pick]
  BY OwnParts DEF IInv, LockInv, TypeOK, AskedInv, CommitPick, Job
<1>2. CASE job[r].op = "create"
  <2>1. /\ picks[p].status = "absent"
        /\ job[r].stake = 0
        /\ buf[r].pick = NewPick(r)
    BY <1>1, <1>2 DEF Own, Grounded, FreshWrites
  <2>2. job[r].user = NoUser
    BY <1>1, <1>2, <2>1 DEF Own, Grounded, Job
  <2>3. job[r].odds \in Odds
    BY <1>1, <1>2 DEF Asked
  <2>4. Free' = Free
    BY <1>1 DEF Free
  <2>5. Book!Note(p, job[r].odds)
    BY <1>1, <2>1, <2>2, <2>4 DEF Book!Note, NewPick
  <2> QED
    BY <1>1, <2>3, <2>5 DEF Book!Next
<1>3. CASE job[r].op = "settle"
  <2>1. /\ picks[p].status = "pending"
        /\ ResolvableAs(picks[p], t)
        /\ buf[r].pick = SettledPick(picks[p], t)
        /\ ~Financial(picks[p])
    BY <1>1, <1>3 DEF Own, Grounded, FreshWrites, Asked
  <2>2. ASSUME NEW u \in Users
        PROVE  wallet'[u].available = IF u = picks[p].user
                                      THEN wallet[u].available + Credit(picks[p], t)
                                      ELSE wallet[u].available
    <3>1. CASE u = picks[p].user
      <4>1. picks[p].stake = 0 /\ t = "void"
        BY <1>1, <2>1, <3>1, UsersAssumption DEF Financial, ResolvableAs, PickRow
      <4>2. Credit(picks[p], t) = 0
        BY <4>1 DEF Credit
      <4>3. wallet[u].available \in Int
        BY <1>1 DEF TypeOK, WalletRow
      <4> QED
        BY <1>1, <3>1, <4>2, <4>3
    <3>2. CASE u # picks[p].user
      BY <1>1, <3>2
    <3> QED
      BY <3>1, <3>2
  <2>3. picks' = [picks EXCEPT ![p] = SettledPick(picks[p], t)]
    BY <1>1, <2>1
  <2> QED
    BY <1>1, <2>1, <2>2, <2>3, BookClose
<1> QED
  BY <1>1, <1>2, <1>3 DEF Asked, Own, Grounded, Statements, Job, Final

\* For every number of requests, picks and users the settlement core without edits of
\* stakes is a behaviour of the book of bets: a repair finds nothing to repair.
THEOREM BetBookImplemented ==
  ASSUME "edit" \notin Ops
  PROVE  Spec => ImplementsBetBook
<1>1. IInv /\ AskedInv /\ NothingToRepair /\ [Next]_vars => [Book!Next]_Book!vars
  <2> SUFFICES ASSUME IInv, AskedInv, NothingToRepair, [Next]_vars
               PROVE  Book!Next \/ UNCHANGED Book!vars
    OBVIOUS
  <2>1. CASE UNCHANGED tables
    <3>1. wallet' = wallet /\ picks' = picks
      BY <2>1 DEF tables
    <3>2. Free' = Free
      BY <3>1 DEF Free
    <3> QED
      BY <3>1, <3>2 DEF Book!vars
  <2>2. ASSUME NEW r \in Requests, CommitMoney(r)
        PROVE  Book!Next
    BY <2>2, BookMoney
  <2>3. ASSUME NEW r \in Requests, CommitPick(r)
        PROVE  Book!Next
    BY <2>3, BookPick
  <2>4. ASSUME NEW r \in Requests, CommitRepair(r)
        PROVE  FALSE
    BY <2>4 DEF CommitRepair, NothingToRepair
  <2> QED
    BY <2>1, <2>2, <2>3, <2>4, TableSteps
<1> QED
  BY <1>1, BookInit, AskedKept, NoRepairs, LockDiscipline, PTL
     DEF Spec, ImplementsBetBook, Book!Spec
=============================================================================

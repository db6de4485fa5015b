------------------------------ MODULE Cashflow ------------------------------
(***************************************************************************)
(* Deposits, withdrawals and the other movements of money between bank and *)
(* sportsbook, one by one or in bulk (services/transaction_service.py),    *)
(* behind the check that no wallet drifts from its ledger; and the audit   *)
(* of all wallets (services/reconciliation_service.py), which scans them   *)
(* the same way.                                                           *)
(*                                                                         *)
(* A scan pages through user_balances by user_id, at READ COMMITTED: each  *)
(* page and each wallet is a statement that sees what is committed then.   *)
(* Why a wallet is CRITICAL is Settlement's, and so is that the two reads  *)
(* of reconcile_user may take a healthy wallet for one.  A WARNING stops   *)
(* nothing and is left out.                                                *)
(***************************************************************************)
EXTENDS Naturals, FiniteSets, FiniteSetsExt

CONSTANTS
  Requests,     \* requests in flight at a time; one that has ended is used again
  Users,        \* user ids, which are ordered
  Rows,         \* transactions that clients send, numbered as in their payloads
  Gated,        \* those that are deposits or withdrawals
  BatchSize     \* batch_size of a page

ASSUME CashflowAssumption ==
  /\ Users \subseteq Nat \ {0} /\ IsFiniteSet(Users)
  /\ Rows \subseteq Nat /\ IsFiniteSet(Rows)
  /\ Gated \subseteq Rows
  /\ BatchSize \in Nat \ {0}

VARIABLES
  wallets,      \* user_balances
  critical,     \* wallets whose total is not that of their ledger
  stored,       \* transactions: the committed rows
  pc, op,       \* request -> where its handler stands, what it was asked
  todo,         \* request -> rows of its payload that it has not come to
  flushed,      \* request -> rows inserted in its transaction
  created,      \* request -> rows that its answer counts as created
  failed,       \* request -> rows that its answer lists under errors
  cursor,       \* request -> last_user_id of its scan
  batch,        \* request -> wallets of its page that it has not come to
  found,        \* request -> wallets that its scan has found CRITICAL: the rows of an audit
  sick          \* request -> wallets that have been CRITICAL since it began

tables == <<wallets, critical, stored>>
scans == <<cursor, batch, found>>
imports == <<todo, flushed, created, failed>>
vars == <<tables, pc, op, imports, scans, sick>>

Scanning == {"page", "look"}

Init ==
  /\ wallets \in SUBSET Users
  /\ critical \in SUBSET wallets
  /\ stored = {}
  /\ pc = [r \in Requests |-> "idle"]
  /\ op = [r \in Requests |-> "import"]
  /\ todo = [r \in Requests |-> {}]
  /\ flushed = [r \in Requests |-> {}]
  /\ created = [r \in Requests |-> {}]
  /\ failed = [r \in Requests |-> {}]
  /\ cursor = [r \in Requests |-> 0]
  /\ batch = [r \in Requests |-> {}]
  /\ found = [r \in Requests |-> {}]
  /\ sick = [r \in Requests |-> {}]

Goto(r, at) == pc' = [pc EXCEPT ![r] = at]

\* A request whose session is closed, with what it has not committed rolled back.
End(r) ==
  /\ Goto(r, "idle")
  /\ op' = [op EXCEPT ![r] = "import"]
  /\ todo' = [todo EXCEPT ![r] = {}]
  /\ flushed' = [flushed EXCEPT ![r] = {}]
  /\ created' = [created EXCEPT ![r] = {}]
  /\ failed' = [failed EXCEPT ![r] = {}]
  /\ cursor' = [cursor EXCEPT ![r] = 0]
  /\ batch' = [batch EXCEPT ![r] = {}]
  /\ found' = [found EXCEPT ![r] = {}]
  /\ sick' = [sick EXCEPT ![r] = {}]

Begin(r, what, rows, at) ==
  /\ pc[r] = "idle"
  /\ Goto(r, at)
  /\ op' = [op EXCEPT ![r] = what]
  /\ todo' = [todo EXCEPT ![r] = rows]
  /\ sick' = [sick EXCEPT ![r] = critical]
  /\ UNCHANGED <<tables, flushed, created, failed, scans>>

\* Rows that no request has sent yet.
Fresh == Rows \ (stored \cup UNION {todo[q] \cup flushed[q] : q \in Requests})

\* Mutant: the gate is for payloads of deposits and withdrawals only.
NeedsGateAll(rows) == rows \subseteq Gated

\* _cashflow_type_needs_drift_gate of any row of the payload.
NeedsGate(rows) == rows \cap Gated # {}

AfterGate(rows) == IF NeedsGate(rows) THEN "page" ELSE "insert"

CreateTransaction(r) == \E row \in Fresh : Begin(r, "create", {row}, AfterGate({row}))

\* process_deposit and process_withdrawal, which name a wallet that has to pass as well.
ProcessCashflow(r) == \E row \in Fresh \cap Gated : Begin(r, "process", {row}, "page")

BulkCreate(r) == \E rows \in (SUBSET Fresh) \ {{}} : Begin(r, "bulk", rows, AfterGate(rows))

ReconcileAll(r) == Begin(r, "audit", {}, "page")

-----------------------------------------------------------------------------
\* summarize_financial_health and reconcile_all_users

\* Mutant: the page starts at the last wallet of the page before.
PageOverlapping(r) ==
  LET rest == {u \in wallets : u >= cursor[r]}
  IN {u \in rest : Cardinality({v \in rest : v <= u}) <= BatchSize}

\* ORDER BY user_id LIMIT batch_size, after the last one seen.
Page(r) ==
  LET rest == {u \in wallets : u > cursor[r]}
  IN {u \in rest : Cardinality({v \in rest : v <= u}) <= BatchSize}

NextPage(r) ==
  /\ pc[r] = "page"
  /\ Page(r) # {}
  /\ batch' = [batch EXCEPT ![r] = Page(r)]
  /\ cursor' = [cursor EXCEPT ![r] = Max(Page(r))]
  /\ Goto(r, "look")
  /\ UNCHANGED <<tables, op, imports, found, sick>>

\* Mutant: the scan of a page goes on after its last wallet.
LookPastEnd(r) ==
  /\ pc[r] = "look"
  /\ LET u == Min(batch[r])
     IN /\ u \in wallets
        /\ batch' = [batch EXCEPT ![r] = @ \ {u}]
        /\ found' = [found EXCEPT ![r] = IF u \in critical THEN @ \cup {u} ELSE @]
  /\ UNCHANGED <<tables, pc, op, imports, cursor, sick>>

\* reconcile_user of the next wallet of the page.
Look(r) ==
  /\ pc[r] = "look"
  /\ LET u == Min(batch[r])
     IN /\ u \in wallets
        /\ batch' = [batch EXCEPT ![r] = @ \ {u}]
        /\ \E drifts \in {(u \in critical), TRUE} :
             found' = [found EXCEPT ![r] = IF drifts THEN @ \cup {u} ELSE @]
        /\ Goto(r, IF batch[r] = {u} THEN "page" ELSE "look")
  /\ UNCHANGED <<tables, op, imports, cursor, sick>>

\* USER_BALANCE_NOT_FOUND: the wallet is gone since its page was read.
WalletGone(r) ==
  /\ pc[r] = "look"
  /\ Min(batch[r]) \notin wallets
  /\ End(r)
  /\ UNCHANGED tables

\* CASHFLOW_BLOCKED_CRITICAL_DRIFT
Refuse(r) ==
  /\ pc[r] = "page" /\ Page(r) = {}
  /\ op[r] # "audit" /\ found[r] # {}
  /\ End(r)
  /\ UNCHANGED tables

GatePasses(r) ==
  /\ pc[r] = "page" /\ Page(r) = {}
  /\ op[r] # "audit" /\ found[r] = {}
  /\ Goto(r, IF op[r] = "process" THEN "health" ELSE "insert")
  /\ UNCHANGED <<tables, op, imports, scans, sick>>

\* assert_financial_health of the wallet that was named
HealthPasses(r) ==
  /\ pc[r] = "health"
  /\ wallets \ critical # {}
  /\ Goto(r, "insert")
  /\ UNCHANGED <<tables, op, imports, scans, sick>>

\* USER_BALANCE_NOT_FOUND, or FINANCIAL_STATE_CORRUPTED, perhaps of a healthy wallet.
HealthFails(r) ==
  /\ pc[r] = "health"
  /\ End(r)
  /\ UNCHANGED tables

AuditEnds(r) ==
  /\ pc[r] = "page" /\ Page(r) = {}
  /\ op[r] = "audit"
  /\ Goto(r, "commit")
  /\ UNCHANGED <<tables, op, imports, scans, sick>>

-----------------------------------------------------------------------------
\* create_transaction and bulk_create_transactions

\* The loop over the payload ends with its last row.
AfterRow(r) == IF Cardinality(todo[r]) = 1 THEN "commit" ELSE "insert"

\* The next row of the payload is flushed.
Insert(r) ==
  /\ pc[r] = "insert"
  /\ LET row == Min(todo[r])
     IN /\ todo' = [todo EXCEPT ![r] = @ \ {row}]
        /\ flushed' = [flushed EXCEPT ![r] = @ \cup {row}]
        /\ created' = [created EXCEPT ![r] = @ \cup {row}]
        /\ Goto(r, AfterRow(r))
  /\ UNCHANGED <<tables, op, failed, scans, sick>>

\* It cannot be: the rollback takes with it the rows flushed before, which the answer goes
\* on counting as created.
InsertFails(r) ==
  /\ pc[r] = "insert" /\ op[r] = "bulk"
  /\ LET row == Min(todo[r])
     IN /\ todo' = [todo EXCEPT ![r] = @ \ {row}]
        /\ flushed' = [flushed EXCEPT ![r] = {}]
        /\ failed' = [failed EXCEPT ![r] = @ \cup {row}]
        /\ Goto(r, AfterRow(r))
  /\ UNCHANGED <<tables, op, created, scans, sick>>

\* Mutant: an import in which a row failed commits nothing.
CommitUnlessFailed(r) ==
  /\ pc[r] = "commit"
  /\ stored' = IF failed[r] = {} THEN stored \cup flushed[r] ELSE stored
  /\ End(r)
  /\ UNCHANGED <<wallets, critical>>

\* What no rollback has undone; a bulk import of which nothing was created has nothing.
Commit(r) ==
  /\ pc[r] = "commit"
  /\ stored' = stored \cup flushed[r]
  /\ End(r)
  /\ UNCHANGED <<wallets, critical>>

\* Any statement may fail and end the request.
Abort(r) ==
  /\ pc[r] # "idle"
  /\ End(r)
  /\ UNCHANGED tables

\* delete_transaction, of a row that may be gone by then.
DeleteTransaction ==
  /\ \E row \in stored : stored' = stored \ {row}
  /\ UNCHANGED <<wallets, critical, pc, op, imports, scans, sick>>

-----------------------------------------------------------------------------
\* What other transactions commit meanwhile

OpenWallet ==
  /\ \E u \in Users \ wallets : wallets' = wallets \cup {u}
  /\ UNCHANGED <<critical, stored, pc, op, imports, scans, sick>>

\* A wallet or its ledger is changed by hand, or mended.
Drift ==
  /\ \E u \in wallets \ critical : critical' = critical \cup {u}
  /\ UNCHANGED <<wallets, stored, pc, op, imports, scans, sick>>

Forget(u) == sick' = [r \in Requests |-> sick[r] \ {u}]

Mend ==
  /\ \E u \in critical : critical' = critical \ {u} /\ Forget(u)
  /\ UNCHANGED <<wallets, stored, pc, op, imports, scans>>

CloseWallet ==
  /\ \E u \in wallets : /\ wallets' = wallets \ {u}
                        /\ critical' = critical \ {u}
                        /\ Forget(u)
  /\ UNCHANGED <<stored, pc, op, imports, scans>>

Step(r) ==
  \/ NextPage(r) \/ Look(r) \/ WalletGone(r) \/ Refuse(r) \/ GatePasses(r) \/ AuditEnds(r)
  \/ HealthPasses(r) \/ HealthFails(r)
  \/ Insert(r) \/ InsertFails(r) \/ Commit(r)

Next ==
  \/ \E r \in Requests : \/ CreateTransaction(r) \/ ProcessCashflow(r)
                         \/ BulkCreate(r) \/ ReconcileAll(r)
                         \/ Step(r) \/ Abort(r)
  \/ DeleteTransaction
  \/ OpenWallet \/ Drift \/ Mend \/ CloseWallet

Spec == Init /\ [][Next]_vars

\* The server runs the handlers it has begun.
FairSpec == Spec /\ \A r \in Requests : WF_vars(Step(r))

-----------------------------------------------------------------------------
\* Properties

TypeOK ==
  /\ wallets \in SUBSET Users
  /\ critical \in SUBSET wallets
  /\ stored \in SUBSET Rows
  /\ pc \in [Requests -> {"idle", "health", "insert", "commit"} \cup Scanning]
  /\ op \in [Requests -> {"import", "create", "process", "bulk", "audit"}]
  /\ todo \in [Requests -> SUBSET Rows]
  /\ flushed \in [Requests -> SUBSET Rows]
  /\ created \in [Requests -> SUBSET Rows]
  /\ failed \in [Requests -> SUBSET Rows]
  /\ cursor \in [Requests -> Nat]
  /\ batch \in [Requests -> SUBSET Users]
  /\ found \in [Requests -> SUBSET Users]
  /\ sick \in [Requests -> SUBSET critical]
  /\ \A r \in Requests : /\ pc[r] = "look" => batch[r] # {}
                         /\ pc[r] = "insert" => todo[r] # {}

\* Whatever wallets are opened, closed, broken and mended while a scan pages through them,
\* one that is CRITICAL from the beginning of a request to its COMMIT stops the deposits and
\* withdrawals of that request, and is among the rows of an audit.
NoDriftMissed ==
  \A r \in Requests : pc[r] = "commit" =>
    /\ flushed[r] \cap Gated # {} => sick[r] = {}
    /\ op[r] = "audit" => sick[r] \subseteq found[r]

\* A row that fails does not abort the import: by its COMMIT everything that it created after
\* the last failure is stored, all of it when none failed; and nothing is stored but what the
\* answer counts as created, so that no row is both stored and listed under errors.  Of the
\* rows created before a failure it says nothing: bulk_create_transactions means to store
\* them, and its rollback loses them (InsertFails).
FailuresAbortNoImport ==
  [][\A r \in Requests : Commit(r) =>
       /\ {row \in created[r] : \A bad \in failed[r] : bad < row} \subseteq stored'
       /\ stored' \ stored \subseteq created[r] \ failed[r]]_vars

\* A scan ends although wallets come and go, and so does every request.
EveryRequestEnds == \A r \in Requests : pc[r] # "idle" ~> pc[r] = "idle"
=============================================================================

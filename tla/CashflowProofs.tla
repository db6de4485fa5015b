---------------------------- MODULE CashflowProofs ----------------------------
(***************************************************************************)
(* Theorems about Cashflow, for every set of requests, every finite set of *)
(* users and of rows, and every size of a page.                            *)
(***************************************************************************)
EXTENDS Cashflow, FiniteSetTheorems, TLAPS

-----------------------------------------------------------------------------
\* Pages and payloads are taken in order

\* Among subsets of a finite set, one holds no other.
LEMMA InnermostSet ==
  ASSUME NEW S, IsFiniteSet(S), NEW Sets, Sets \subseteq SUBSET S, Sets # {}
  PROVE  \E T \in Sets : \A U \in Sets : ~(<<U, T>> \in StrictSubsetOrdering(S))
<1>1. IsWellFoundedOn(StrictSubsetOrdering(S), SUBSET S)
  BY FS_StrictSubsetOrderingWellFounded, FS_FiniteSubsetsOfFinite
<1> QED
  BY <1>1, WFMin

\* A finite set of numbers that is not empty has a least one.
LEMMA MinOf ==
  ASSUME NEW S \in SUBSET Nat, IsFiniteSet(S), S # {}
  PROVE  Min(S) \in S /\ \A x \in S : Min(S) <= x
<1> DEFINE Beyond(x) == {z \in S : z < x}
           Sets == {Beyond(x) : x \in S}
<1>1. Sets \subseteq SUBSET S /\ Sets # {}
  OBVIOUS
<1>2. \E T \in Sets : \A U \in Sets : ~(<<U, T>> \in StrictSubsetOrdering(S))
  <2> HIDE DEF Sets
  <2> QED
    BY <1>1, InnermostSet
<1>3. PICK x \in S : \A y \in S : ~(<<Beyond(y), Beyond(x)>> \in StrictSubsetOrdering(S))
  BY <1>2
<1>4. ASSUME NEW y \in S, y < x PROVE FALSE
  <2>1. \A z \in S : z < y => z < x
    BY <1>4
  <2>2. Beyond(y) \subseteq Beyond(x)
    BY <2>1
  <2>3. y \in Beyond(x)
    BY <1>4
  <2>4. y \notin Beyond(y)
    OBVIOUS
  <2> QED
    BY <1>3, <2>2, <2>3, <2>4 DEF StrictSubsetOrdering
<1>5. \A y \in S : x <= y
  BY <1>4
<1> QED
  BY <1>5 DEF Min

\* And a greatest.
LEMMA MaxOf ==
  ASSUME NEW S \in SUBSET Nat, IsFiniteSet(S), S # {}
  PROVE  Max(S) \in S /\ \A x \in S : x <= Max(S)
<1> DEFINE Beyond(x) == {z \in S : z > x}
           Sets == {Beyond(x) : x \in S}
<1>1. Sets \subseteq SUBSET S /\ Sets # {}
  OBVIOUS
<1>2. \E T \in Sets : \A U \in Sets : ~(<<U, T>> \in StrictSubsetOrdering(S))
  <2> HIDE DEF Sets
  <2> QED
    BY <1>1, InnermostSet
<1>3. PICK x \in S : \A y \in S : ~(<<Beyond(y), Beyond(x)>> \in StrictSubsetOrdering(S))
  BY <1>2
<1>4. ASSUME NEW y \in S, y > x PROVE FALSE
  <2>1. \A z \in S : z > y => z > x
    BY <1>4
  <2>2. Beyond(y) \subseteq Beyond(x)
    BY <2>1
  <2>3. y \in Beyond(x)
    BY <1>4
  <2>4. y \notin Beyond(y)
    OBVIOUS
  <2> QED
    BY <1>3, <2>2, <2>3, <2>4 DEF StrictSubsetOrdering
<1>5. \A y \in S : x >= y
  BY <1>4
<1> QED
  BY <1>5 DEF Max

\* A page is of wallets after the cursor; up to the last of them it leaves none out; and it
\* is empty only when no wallet is left.
LEMMA PageTakesAll ==
  ASSUME TypeOK, NEW r \in Requests
  PROVE  /\ Page(r) \subseteq {u \in wallets : u > cursor[r]}
         /\ Page(r) # {} => Max(Page(r)) \in Page(r)
         /\ Page(r) # {} =>
              \A u \in wallets : u > cursor[r] => u \in Page(r) \/ u > Max(Page(r))
         /\ Page(r) = {} => \A u \in wallets : ~(u > cursor[r])
<1> DEFINE rest == {u \in wallets : u > cursor[r]}
           UpTo(u) == {v \in rest : v <= u}
<1>1. Page(r) = {u \in rest : Cardinality(UpTo(u)) <= BatchSize}
  BY DEF Page
<1>2. rest \in SUBSET Nat /\ IsFiniteSet(rest) /\ BatchSize \in Nat \ {0}
  <2>1. rest \in SUBSET Users
    BY DEF TypeOK
  <2> QED
    BY <2>1, CashflowAssumption, FS_Subset
<1>3. \A u : IsFiniteSet(UpTo(u)) /\ Cardinality(UpTo(u)) \in Nat
  BY <1>2, FS_Subset, FS_CardinalityType
<1>4. Page(r) \subseteq rest
  BY <1>1
<1>5. ASSUME Page(r) # {}
      PROVE  /\ Max(Page(r)) \in Page(r)
             /\ \A u \in rest : u \in Page(r) \/ u > Max(Page(r))
  <2>1. Page(r) \in SUBSET Nat /\ IsFiniteSet(Page(r))
    BY <1>2, <1>4, FS_Subset
  <2>2. PICK m : m = Max(Page(r)) /\ m \in Page(r) /\ m \in Nat
    BY <1>5, <2>1, MaxOf
  <2>3. ASSUME NEW u \in rest, ~(u > m) PROVE u \in Page(r)
    <3>1. UpTo(u) \subseteq UpTo(m)
      BY <1>2, <2>2, <2>3
    <3>2. Cardinality(UpTo(u)) <= Cardinality(UpTo(m))
      BY <1>3, <3>1, FS_Subset
    <3>3. Cardinality(UpTo(m)) <= BatchSize
      BY <1>1, <2>2
    <3> HIDE DEF UpTo
    <3>4. Cardinality(UpTo(u)) <= BatchSize
      BY <1>2, <1>3, <3>2, <3>3
    <3> QED
      BY <1>1, <2>3, <3>4
  <2> QED
    BY <2>2, <2>3
<1>6. ASSUME rest # {} PROVE Page(r) # {}
  <2>1. PICK u : u = Min(rest) /\ u \in rest /\ \A v \in rest : u <= v
    BY <1>2, <1>6, MinOf
  <2>2. UpTo(u) = {u}
    BY <1>2, <2>1
  <2>3. Cardinality(UpTo(u)) = 1
    BY <2>2, FS_Singleton
  <2> HIDE DEF UpTo
  <2> QED
    BY <1>1, <1>2, <2>1, <2>3
<1> QED
  BY <1>4, <1>5, <1>6

\* The next row of a payload is its first, and when the loop goes on there is another.
LEMMA NextRow ==
  ASSUME TypeOK, NEW r \in Requests, pc[r] = "insert"
  PROVE  /\ Min(todo[r]) \in todo[r]
         /\ \A row \in todo[r] : Min(todo[r]) <= row
         /\ AfterRow(r) = "insert" => todo[r] \ {Min(todo[r])} # {}
         /\ AfterRow(r) \in {"insert", "commit"}
<1>1. todo[r] \in SUBSET Rows /\ todo[r] # {}
  BY DEF TypeOK
<1>2. todo[r] \in SUBSET Nat /\ IsFiniteSet(todo[r])
  BY <1>1, CashflowAssumption, FS_Subset
<1>3. ASSUME todo[r] \ {Min(todo[r])} = {} PROVE Cardinality(todo[r]) = 1
  <2>1. todo[r] = {Min(todo[r])}
    BY <1>1, <1>3
  <2> QED
    BY <2>1, FS_Singleton
<1> QED
  BY <1>1, <1>2, <1>3, MinOf DEF AfterRow

\* The next wallet of a page is one of it.
LEMMA NextWallet ==
  ASSUME TypeOK, NEW r \in Requests, pc[r] = "look"
  PROVE  Min(batch[r]) \in batch[r]
<1>1. batch[r] \in SUBSET Users /\ batch[r] # {}
  BY DEF TypeOK
<1>2. batch[r] \in SUBSET Nat /\ IsFiniteSet(batch[r])
  BY <1>1, CashflowAssumption, FS_Subset
<1> QED
  BY <1>1, <1>2, MinOf

-----------------------------------------------------------------------------
\* The inductive invariant

Waiting == Scanning \cup {"health"}

\* Rows are taken in the order of the payload: what is flushed is what was created after the
\* last row that failed, and all that is left comes later.  An idle request has nothing.
Payload(r) ==
  /\ flushed[r] = {row \in created[r] : \A bad \in failed[r] : bad < row}
  /\ \A done \in created[r] \cup failed[r], row \in todo[r] : done < row
  /\ pc[r] \in Waiting \cup {"idle"} => created[r] = {} /\ failed[r] = {}
  /\ pc[r] = "idle" => cursor[r] = 0 /\ todo[r] = {}
  /\ pc[r] \in Waiting /\ op[r] # "audit" => todo[r] # {}
  /\ op[r] = "audit" => /\ pc[r] \notin {"health", "insert"}
                        /\ todo[r] = {} /\ created[r] = {} /\ failed[r] = {}

\* A wallet that has been CRITICAL since the request began is found, or it is still in the
\* page or after the cursor; behind the scan of a request that is gated there is none.
Scanned(r) ==
  /\ pc[r] \in Scanning => \A u \in sick[r] : \/ u \in found[r]
                                              \/ u > cursor[r]
                                              \/ pc[r] = "look" /\ u \in batch[r]
  /\ /\ pc[r] \in {"health", "insert", "commit"} /\ op[r] # "audit"
     /\ (todo[r] \cup flushed[r]) \cap Gated # {}
     => sick[r] = {}
  /\ pc[r] = "commit" /\ op[r] = "audit" => sick[r] \subseteq found[r]

\* What holds of a request at any time.
RequestInv(r) == Payload(r) /\ Scanned(r)

\* The inductive invariant.
IInv == TypeOK /\ \A r \in Requests : RequestInv(r)

-----------------------------------------------------------------------------
\* Types

Operations == {"import", "create", "process", "bulk", "audit"}

\* A request is asked for something.
Begins(r) == CreateTransaction(r) \/ ProcessCashflow(r) \/ BulkCreate(r) \/ ReconcileAll(r)

\* What its handler does next.
Moves(r) == Begins(r) \/ Step(r) \/ Abort(r)

\* What others commit.
Elsewhere == DeleteTransaction \/ OpenWallet \/ Drift \/ Mend \/ CloseWallet

\* A request begins with rows that nobody has sent, and scans if one of them needs the gate.
LEMMA BeginsWith ==
  ASSUME TypeOK, NEW r \in Requests, Begins(r)
  PROVE  \E what \in Operations, rows \in SUBSET Rows, at \in {"page", "insert"} :
           /\ Begin(r, what, rows, at)
           /\ what # "audit" => rows # {}
           /\ what = "audit" => rows = {} /\ at = "page"
           /\ at = "insert" => rows \cap Gated = {}
<1>1. Fresh \subseteq Rows
  BY DEF Fresh
<1>2. \A rows : /\ AfterGate(rows) \in {"page", "insert"}
                /\ AfterGate(rows) = "insert" => rows \cap Gated = {}
  BY DEF AfterGate, NeedsGate
<1>3. CASE CreateTransaction(r)
  <2>1. PICK row \in Fresh : Begin(r, "create", {row}, AfterGate({row}))
    BY <1>3 DEF CreateTransaction
  <2>2. {row} \in SUBSET Rows /\ {row} # {}
    BY <1>1, <2>1
  <2> QED
    BY <1>2, <2>1, <2>2 DEF Operations
<1>4. CASE ProcessCashflow(r)
  <2>1. PICK row \in Fresh : Begin(r, "process", {row}, "page")
    BY <1>4 DEF ProcessCashflow
  <2>2. {row} \in SUBSET Rows /\ {row} # {}
    BY <1>1, <2>1
  <2> QED
    BY <2>1, <2>2 DEF Operations
<1>5. CASE BulkCreate(r)
  <2>1. PICK rows \in (SUBSET Fresh) \ {{}} : Begin(r, "bulk", rows, AfterGate(rows))
    BY <1>5 DEF BulkCreate
  <2>2. rows \in SUBSET Rows /\ rows # {}
    BY <1>1, <2>1
  <2> QED
    BY <1>2, <2>1, <2>2 DEF Operations
<1>6. CASE ReconcileAll(r)
  BY <1>6 DEF ReconcileAll, Operations
<1> QED
  BY <1>3, <1>4, <1>5, <1>6 DEF Begins

\* Every step is one of a request or of somebody else.
LEMMA Steps ==
  ASSUME [Next]_vars
  PROVE  UNCHANGED vars \/ Elsewhere \/ \E r \in Requests : Moves(r)
BY DEF Next, Elsewhere, Moves, Begins

\* A request that has ended is blank.
LEMMA EndTyped ==
  ASSUME TypeOK, NEW r \in Requests, End(r), UNCHANGED <<wallets, critical>>,
         stored' \in SUBSET Rows
  PROVE  TypeOK'
BY DEF TypeOK, End, Goto

\* What others commit keeps the types.
LEMMA ElsewhereTyped == ASSUME TypeOK, Elsewhere PROVE TypeOK'
<1>1. CASE DeleteTransaction
  BY <1>1 DEF TypeOK, DeleteTransaction, imports, scans
<1>2. CASE OpenWallet
  BY <1>2 DEF TypeOK, OpenWallet, imports, scans
<1>3. CASE Drift
  <2>1. critical \subseteq critical' /\ critical' \subseteq wallets
    BY <1>3 DEF Drift, TypeOK
  <2> QED
    BY <1>3, <2>1 DEF TypeOK, Drift, imports, scans
<1>4. CASE Mend
  <2>1. sick' \in [Requests -> SUBSET critical'] /\ critical' \subseteq wallets
    BY <1>4 DEF Mend, Forget, TypeOK
  <2> QED
    BY <1>4, <2>1 DEF TypeOK, Mend, imports, scans
<1>5. CASE CloseWallet
  <2>1. sick' \in [Requests -> SUBSET critical'] /\ critical' \subseteq wallets'
    BY <1>5 DEF CloseWallet, Forget, TypeOK
  <2> QED
    BY <1>5, <2>1 DEF TypeOK, CloseWallet, imports, scans
<1> QED
  BY <1>1, <1>2, <1>3, <1>4, <1>5 DEF Elsewhere

\* So does what a request does.
LEMMA MovesTyped ==
  ASSUME TypeOK, NEW r \in Requests, RequestInv(r), Moves(r)
  PROVE  TypeOK'
<1> USE DEF Goto
<1>1. CASE Begins(r)
  <2>1. PICK what \in Operations, rows \in SUBSET Rows, at \in {"page", "insert"} :
           /\ Begin(r, what, rows, at)
           /\ what # "audit" => rows # {}
           /\ what = "audit" => at = "page"
    BY <1>1, BeginsWith
  <2>2. at = "insert" => rows # {}
    BY <2>1
  <2> QED
    BY <2>1, <2>2 DEF TypeOK, Begin, Operations, Scanning, tables, scans
<1>2. CASE NextPage(r)
  <2>1. Page(r) \in SUBSET Users /\ Max(Page(r)) \in Users /\ Users \subseteq Nat
    BY <1>2, PageTakesAll, CashflowAssumption DEF NextPage, TypeOK
  <2> QED
    BY <1>2, <2>1 DEF TypeOK, NextPage, Scanning, tables, imports
<1>3. CASE Look(r)
  <2>1. PICK u : u = Min(batch[r]) /\ u \in batch[r]
    BY <1>3, NextWallet DEF Look
  <2>2. u \in Users
    BY <2>1 DEF TypeOK
  <2>3. /\ pc' = [pc EXCEPT ![r] = IF batch[r] = {u} THEN "page" ELSE "look"]
        /\ batch' = [batch EXCEPT ![r] = @ \ {u}]
        /\ found' \in [Requests -> SUBSET Users]
        /\ UNCHANGED <<tables, op, imports, cursor, sick>>
    BY <1>3, <2>1, <2>2 DEF Look, TypeOK
  <2>4. batch[r] # {u} => batch[r] \ {u} # {}
    BY <2>1
  <2> QED
    BY <2>3, <2>4 DEF TypeOK, Scanning, tables, imports
<1>4. CASE WalletGone(r) \/ Refuse(r) \/ HealthFails(r) \/ Abort(r)
  <2>1. End(r) /\ UNCHANGED tables
    BY <1>4 DEF WalletGone, Refuse, HealthFails, Abort
  <2>2. UNCHANGED <<wallets, critical>> /\ stored' \in SUBSET Rows
    BY <2>1 DEF tables, TypeOK
  <2> QED
    BY <2>1, <2>2, EndTyped
<1>5. CASE Commit(r)
  <2>1. stored' \in SUBSET Rows
    BY <1>5 DEF Commit, TypeOK
  <2> QED
    BY <1>5, <2>1, EndTyped DEF Commit
<1>6. CASE GatePasses(r) \/ HealthPasses(r) \/ AuditEnds(r)
  <2>1. pc[r] \in {"page", "health"}
    BY <1>6 DEF GatePasses, HealthPasses, AuditEnds
  <2>2. pc'[r] = "insert" => todo[r] # {}
    <3>1. pc'[r] = "insert" => op[r] # "audit"
      BY <1>6 DEF GatePasses, HealthPasses, AuditEnds, TypeOK, RequestInv, Payload
    <3> QED
      BY <2>1, <3>1 DEF RequestInv, Payload, Waiting, Scanning
  <2>3. /\ \E at \in {"health", "insert", "commit"} : pc' = [pc EXCEPT ![r] = at]
        /\ UNCHANGED <<tables, op, imports, scans, sick>>
    BY <1>6 DEF GatePasses, HealthPasses, AuditEnds
  <2> QED
    BY <2>2, <2>3 DEF TypeOK, Scanning, tables, imports, scans
<1>7. CASE Insert(r) \/ InsertFails(r)
  <2>1. PICK row : /\ row = Min(todo[r]) /\ row \in todo[r]
                   /\ AfterRow(r) \in {"insert", "commit"}
                   /\ AfterRow(r) = "insert" => todo[r] \ {row} # {}
    BY <1>7, NextRow DEF Insert, InsertFails
  <2>2. row \in Rows
    BY <2>1 DEF TypeOK
  <2>3. /\ todo' = [todo EXCEPT ![r] = @ \ {row}]
        /\ flushed' \in [Requests -> SUBSET Rows]
        /\ created' \in [Requests -> SUBSET Rows]
        /\ failed' \in [Requests -> SUBSET Rows]
        /\ pc' = [pc EXCEPT ![r] = AfterRow(r)]
        /\ UNCHANGED <<tables, op, scans, sick>>
    BY <1>7, <2>1, <2>2 DEF Insert, InsertFails, TypeOK
  <2> QED
    BY <2>1, <2>3 DEF TypeOK, Scanning, tables, scans
<1> QED
  BY <1>1, <1>2, <1>3, <1>4, <1>5, <1>6, <1>7 DEF Moves, Step

-----------------------------------------------------------------------------
\* The invariant of a request

\* Nothing of a request is touched, but that wallets it saw CRITICAL may have been mended.
Kept(q) ==
  /\ pc'[q] = pc[q] /\ op'[q] = op[q]
  /\ todo'[q] = todo[q] /\ flushed'[q] = flushed[q]
  /\ created'[q] = created[q] /\ failed'[q] = failed[q]
  /\ cursor'[q] = cursor[q] /\ batch'[q] = batch[q] /\ found'[q] = found[q]
  /\ sick'[q] \subseteq sick[q]

\* Then its invariant stays true.
LEMMA KeptInv == ASSUME NEW q \in Requests, RequestInv(q), Kept(q) PROVE RequestInv(q)'
<1>1. Payload(q)'
  BY DEF RequestInv, Payload, Kept
<1>2. Scanned(q)'
  BY DEF RequestInv, Scanned, Kept
<1> QED
  BY <1>1, <1>2 DEF RequestInv

\* A step of one request does not touch the others.
LEMMA OthersKept ==
  ASSUME TypeOK, NEW r \in Requests, Moves(r), NEW q \in Requests, q # r
  PROVE  Kept(q)
<1> USE DEF TypeOK, Kept, Goto, tables, imports, scans
<1>1. CASE Begins(r)
  BY <1>1, BeginsWith DEF Begin
<1>2. CASE NextPage(r) \/ Look(r)
  BY <1>2 DEF NextPage, Look
<1>3. CASE End(r)
  BY <1>3 DEF End
<1>4. CASE GatePasses(r) \/ HealthPasses(r) \/ AuditEnds(r)
  BY <1>4 DEF GatePasses, HealthPasses, AuditEnds
<1>5. CASE Insert(r) \/ InsertFails(r)
  BY <1>5 DEF Insert, InsertFails
<1> QED
  BY <1>1, <1>2, <1>3, <1>4, <1>5
  DEF Moves, Step, WalletGone, Refuse, HealthFails, Commit, Abort

\* Nor does what others commit, whether it breaks wallets or mends them.
LEMMA ElsewhereKept ==
  ASSUME TypeOK, Elsewhere, NEW q \in Requests
  PROVE  Kept(q)
BY DEF TypeOK, Kept, Elsewhere, DeleteTransaction, OpenWallet, Drift, Mend, CloseWallet,
       Forget, imports, scans

\* A request that begins has all its rows and all wallets before it.
LEMMA BeginsInv ==
  ASSUME TypeOK, NEW r \in Requests, RequestInv(r), Begins(r)
  PROVE  RequestInv(r)'
<1>1. PICK what \in Operations, rows \in SUBSET Rows, at \in {"page", "insert"} :
         /\ Begin(r, what, rows, at)
         /\ what # "audit" => rows # {}
         /\ what = "audit" => rows = {} /\ at = "page"
         /\ at = "insert" => rows \cap Gated = {}
  BY BeginsWith
<1>2. /\ pc[r] = "idle" /\ pc'[r] = at /\ op'[r] = what /\ todo'[r] = rows /\ sick'[r] = critical
      /\ UNCHANGED <<flushed, created, failed, cursor, batch, found>>
  BY <1>1 DEF Begin, Goto, TypeOK, scans
<1>3. created[r] = {} /\ failed[r] = {} /\ flushed[r] = {} /\ cursor[r] = 0
  BY <1>2 DEF RequestInv, Payload
<1>4. Payload(r)'
  BY <1>1, <1>2, <1>3 DEF Payload, Waiting, Scanning
<1>5. \A u \in critical : u > 0
  BY CashflowAssumption DEF TypeOK
<1>6. Scanned(r)'
  BY <1>1, <1>2, <1>3, <1>5 DEF Scanned, Scanning
<1> QED
  BY <1>4, <1>6 DEF RequestInv

\* A page leaves out no wallet that it passes over.
LEMMA NextPageInv ==
  ASSUME TypeOK, NEW r \in Requests, RequestInv(r), NextPage(r)
  PROVE  RequestInv(r)'
<1>1. /\ pc[r] = "page" /\ pc'[r] = "look" /\ Page(r) # {}
      /\ batch'[r] = Page(r) /\ cursor'[r] = Max(Page(r))
      /\ UNCHANGED <<op, todo, flushed, created, failed, found, sick>>
  BY DEF NextPage, Goto, TypeOK, imports
<1>2. Payload(r)'
  BY <1>1 DEF RequestInv, Payload, Waiting, Scanning
<1>3. sick[r] \subseteq wallets
  BY DEF TypeOK
<1>4. \A u \in sick[r] : u \in found[r] \/ u > Max(Page(r)) \/ u \in Page(r)
  BY <1>1, <1>3, PageTakesAll DEF RequestInv, Scanned, Scanning
<1>5. Scanned(r)'
  BY <1>1, <1>4 DEF Scanned
<1> QED
  BY <1>2, <1>5 DEF RequestInv

\* A wallet that has been CRITICAL all the time is found when it is looked at.
LEMMA LookInv ==
  ASSUME TypeOK, NEW r \in Requests, RequestInv(r), Look(r)
  PROVE  RequestInv(r)'
<1>1. PICK u : u = Min(batch[r])
  OBVIOUS
<1>2. PICK drifts \in {(u \in critical), TRUE} :
         found' = [found EXCEPT ![r] = IF drifts THEN @ \cup {u} ELSE @]
  BY <1>1 DEF Look
<1>3. /\ pc[r] = "look" /\ pc'[r] = IF batch[r] = {u} THEN "page" ELSE "look"
      /\ batch'[r] = batch[r] \ {u}
      /\ UNCHANGED <<op, todo, flushed, created, failed, cursor, sick>>
  BY <1>1 DEF Look, Goto, TypeOK, imports
<1>4. /\ found[r] \subseteq found'[r]
      /\ u \in critical => u \in found'[r]
  BY <1>2 DEF TypeOK
<1>5. Payload(r)'
  BY <1>3 DEF RequestInv, Payload, Waiting, Scanning
<1>6. \A v \in sick[r] : v \in found[r] \/ v > cursor[r] \/ v \in batch[r]
  BY <1>3 DEF RequestInv, Scanned, Scanning
<1>7. sick[r] \subseteq critical
  BY DEF TypeOK
<1>8. \A v \in sick[r] : v \in found'[r] \/ v > cursor[r] \/ v \in batch[r] \ {u}
  BY <1>4, <1>6, <1>7
<1>9. Scanned(r)'
  BY <1>3, <1>8 DEF Scanned
<1> QED
  BY <1>5, <1>9 DEF RequestInv

\* A request that has ended has nothing left to answer for.
LEMMA EndInv ==
  ASSUME TypeOK, NEW r \in Requests, End(r)
  PROVE  RequestInv(r)'
BY DEF End, Goto, TypeOK, RequestInv, Payload, Scanned, Waiting, Scanning

\* When no page is left every wallet has been looked at.
LEMMA ScanEndsInv ==
  ASSUME TypeOK, NEW r \in Requests, RequestInv(r),
         GatePasses(r) \/ HealthPasses(r) \/ AuditEnds(r)
  PROVE  RequestInv(r)'
<1>1. UNCHANGED <<op, todo, flushed, created, failed, cursor, batch, found, sick>>
  BY DEF GatePasses, HealthPasses, AuditEnds, imports, scans
<1>2. CASE HealthPasses(r)
  <2>1. pc[r] = "health" /\ pc'[r] = "insert"
    BY <1>2 DEF HealthPasses, Goto, TypeOK
  <2> QED
    BY <1>1, <2>1 DEF RequestInv, Payload, Scanned, Waiting, Scanning
<1>3. CASE GatePasses(r) \/ AuditEnds(r)
  <2>1. /\ pc[r] = "page" /\ Page(r) = {}
        /\ \/ op[r] # "audit" /\ found[r] = {} /\ pc'[r] \in {"health", "insert"}
           \/ op[r] = "audit" /\ pc'[r] = "commit"
    BY <1>3 DEF GatePasses, AuditEnds, Goto, TypeOK
  <2>2. sick[r] \subseteq wallets
    BY DEF TypeOK
  <2>3. sick[r] \subseteq found[r]
    BY <2>1, <2>2, PageTakesAll DEF RequestInv, Scanned, Scanning
  <2>4. Payload(r)'
    BY <1>1, <2>1 DEF RequestInv, Payload, Waiting, Scanning
  <2>5. Scanned(r)'
    BY <1>1, <2>1, <2>3 DEF Scanned, Scanning
  <2> QED
    BY <2>4, <2>5 DEF RequestInv
<1> QED
  BY <1>2, <1>3

\* The row that is inserted, or fails, comes after all that came before it.
LEMMA InsertInv ==
  ASSUME TypeOK, NEW r \in Requests, RequestInv(r), Insert(r) \/ InsertFails(r)
  PROVE  RequestInv(r)'
<1>1. PICK row : row = Min(todo[r])
  OBVIOUS
<1>2. pc[r] = "insert"
  BY DEF Insert, InsertFails
<1>3. /\ row \in todo[r] /\ \A later \in todo[r] : row <= later
      /\ AfterRow(r) \in {"insert", "commit"}
  BY <1>1, <1>2, NextRow
<1>4. todo[r] \subseteq Nat /\ created[r] \subseteq Nat /\ failed[r] \subseteq Nat
  BY CashflowAssumption DEF TypeOK
<1>5. op[r] # "audit"
  BY <1>2 DEF RequestInv, Payload
<1>6. /\ pc'[r] \in {"insert", "commit"}
      /\ todo'[r] = todo[r] \ {row}
      /\ UNCHANGED <<op, cursor, batch, found, sick>>
  BY <1>1, <1>3 DEF Insert, InsertFails, Goto, TypeOK, scans
<1>7. \A later \in todo[r] \ {row} : row < later
  BY <1>3, <1>4
<1>8. \A done \in created[r] \cup failed[r] : done < row
  BY <1>3 DEF RequestInv, Payload
<1>9. \/ /\ created'[r] = created[r] \cup {row} /\ failed'[r] = failed[r]
         /\ flushed'[r] = flushed[r] \cup {row}
      \/ /\ created'[r] = created[r] /\ failed'[r] = failed[r] \cup {row}
         /\ flushed'[r] = {}
  BY <1>1 DEF Insert, InsertFails, TypeOK
<1>10. flushed[r] = {done \in created[r] : \A bad \in failed[r] : bad < done}
  BY DEF RequestInv, Payload
<1>11. flushed'[r] = {done \in created'[r] : \A bad \in failed'[r] : bad < done}
  <2>1. \A done \in created[r] : ~(row < done)
    BY <1>3, <1>4, <1>8
  <2> QED
    BY <1>8, <1>9, <1>10, <2>1
<1>12. \A done \in created'[r] \cup failed'[r], later \in todo'[r] : done < later
  <2>1. \A done \in created[r] \cup failed[r], later \in todo[r] : done < later
    BY DEF RequestInv, Payload
  <2> QED
    BY <1>6, <1>7, <1>9, <2>1
<1>13. Payload(r)'
  BY <1>5, <1>6, <1>11, <1>12 DEF Payload, Waiting, Scanning
<1>14. (todo'[r] \cup flushed'[r]) \subseteq (todo[r] \cup flushed[r])
  BY <1>3, <1>6, <1>9
<1>15. Scanned(r)'
  <2>1. (todo[r] \cup flushed[r]) \cap Gated # {} => sick[r] = {}
    BY <1>2, <1>5 DEF RequestInv, Scanned
  <2> QED
    BY <1>5, <1>6, <1>14, <2>1 DEF Scanned, Scanning
<1> QED
  BY <1>13, <1>15 DEF RequestInv

-----------------------------------------------------------------------------
\* Theorems

\* The invariant holds at the start, whichever wallets are there and CRITICAL.
LEMMA Initially == ASSUME Init PROVE IInv
<1>1. TypeOK
  BY DEF Init, TypeOK, Scanning
<1>2. \A r \in Requests : RequestInv(r)
  BY DEF Init, RequestInv, Payload, Scanned, Waiting, Scanning
<1> QED
  BY <1>1, <1>2 DEF IInv

\* Every step keeps it.
LEMMA Inductive == ASSUME IInv, [Next]_vars PROVE IInv'
<1>1. TypeOK /\ \A r \in Requests : RequestInv(r)
  BY DEF IInv
<1>2. CASE UNCHANGED vars
  <2>1. TypeOK'
    BY <1>1, <1>2 DEF TypeOK, vars, tables, imports, scans
  <2>2. \A q \in Requests : Kept(q)
    BY <1>2 DEF Kept, vars, tables, imports, scans
  <2> QED
    BY <1>1, <2>1, <2>2, KeptInv DEF IInv
<1>3. CASE Elsewhere
  <2>1. \A q \in Requests : RequestInv(q)'
    BY <1>1, <1>3, ElsewhereKept, KeptInv
  <2> QED
    BY <1>1, <1>3, <2>1, ElsewhereTyped DEF IInv
<1>4. ASSUME NEW r \in Requests, Moves(r) PROVE IInv'
  <2>1. TypeOK'
    BY <1>1, <1>4, MovesTyped
  <2>2. RequestInv(r)'
    <3>1. CASE Begins(r)
      BY <1>1, <3>1, BeginsInv
    <3>2. CASE NextPage(r)
      BY <1>1, <3>2, NextPageInv
    <3>3. CASE Look(r)
      BY <1>1, <3>3, LookInv
    <3>4. CASE WalletGone(r) \/ Refuse(r) \/ HealthFails(r) \/ Commit(r) \/ Abort(r)
      BY <1>1, <3>4, EndInv DEF WalletGone, Refuse, HealthFails, Commit, Abort
    <3>5. CASE GatePasses(r) \/ HealthPasses(r) \/ AuditEnds(r)
      BY <1>1, <3>5, ScanEndsInv
    <3>6. CASE Insert(r) \/ InsertFails(r)
      BY <1>1, <3>6, InsertInv
    <3> QED
      BY <1>4, <3>1, <3>2, <3>3, <3>4, <3>5, <3>6 DEF Moves, Step
  <2>3. \A q \in Requests : q # r => RequestInv(q)'
    BY <1>1, <1>4, OthersKept, KeptInv
  <2> QED
    BY <2>1, <2>2, <2>3 DEF IInv
<1> QED
  BY <1>2, <1>3, <1>4, Steps

\* The invariant holds of every behaviour, whatever wallets come, go, break and are mended.
THEOREM Invariance == Spec => []IInv
<1>1. Init => IInv
  BY Initially
<1>2. IInv /\ [Next]_vars => IInv'
  BY Inductive
<1> QED
  BY <1>1, <1>2, PTL DEF Spec

\* Every value has its type, and a loop over a page or a payload has something to take.
THEOREM TypeCorrect == Spec => []TypeOK
<1>1. IInv => TypeOK
  BY DEF IInv
<1> QED
  BY <1>1, Invariance, PTL

\* For any size of a page and any number of wallets, a wallet that is CRITICAL from the
\* beginning of a request to its COMMIT stops its deposits and withdrawals, and is in an audit.
THEOREM NoDriftMissedAlways == Spec => []NoDriftMissed
<1>1. ASSUME IInv PROVE NoDriftMissed
  <2>1. ASSUME NEW r \in Requests, pc[r] = "commit"
        PROVE  /\ flushed[r] \cap Gated # {} => sick[r] = {}
               /\ op[r] = "audit" => sick[r] \subseteq found[r]
    <3>1. Payload(r) /\ Scanned(r)
      BY <1>1 DEF IInv, RequestInv
    <3>2. op[r] = "audit" => flushed[r] = {}
      BY <3>1 DEF Payload
    <3> QED
      BY <2>1, <3>1, <3>2 DEF Scanned
  <2> QED
    BY <2>1 DEF NoDriftMissed
<1>2. IInv => NoDriftMissed
  BY <1>1
<1> QED
  BY <1>2, Invariance, PTL

\* For any payload and any rows of it that fail, the COMMIT of an import stores all that was
\* created after the last failure, and nothing but what it answers to have created.
THEOREM FailuresAbortNoImportAlways == Spec => FailuresAbortNoImport
<1>1. ASSUME IInv, NEW r \in Requests, Commit(r)
      PROVE  /\ {row \in created[r] : \A bad \in failed[r] : bad < row} \subseteq stored'
             /\ stored' \ stored \subseteq created[r] \ failed[r]
  <2>1. TypeOK /\ Payload(r)
    BY <1>1 DEF IInv, RequestInv
  <2>2. flushed[r] = {row \in created[r] : \A bad \in failed[r] : bad < row}
    BY <2>1 DEF Payload
  <2>3. stored' = stored \cup flushed[r]
    BY <1>1 DEF Commit
  <2>4. failed[r] \subseteq Nat
    BY <2>1, CashflowAssumption DEF TypeOK
  <2>5. flushed[r] \subseteq created[r] \ failed[r]
    BY <2>2, <2>4
  <2> QED
    BY <2>2, <2>3, <2>5
<1>2. IInv => \A r \in Requests : Commit(r) =>
                /\ {row \in created[r] : \A bad \in failed[r] : bad < row} \subseteq stored'
                /\ stored' \ stored \subseteq created[r] \ failed[r]
  BY <1>1
<1> QED
  BY <1>2, Invariance, PTL DEF FailuresAbortNoImport
=============================================================================

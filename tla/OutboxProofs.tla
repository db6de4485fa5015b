---------------------------- MODULE OutboxProofs ----------------------------
(***************************************************************************)
(* Theorems about OutboxDelivery, for any set of workers, any events and   *)
(* any size of a batch: the handler of an event has its effect once, but   *)
(* for the effects that a rollback forgot.                                 *)
(***************************************************************************)
EXTENDS OutboxDelivery, TLAPS

-----------------------------------------------------------------------------
\* The inductive invariant

\* The rows of a batch are locked by its worker and not processed; those it has marked are
\* not those it has still to come to.
Held(w) ==
  /\ pc[w] = "idle" => todo[w] = {} /\ marked[w] = {}
  /\ \A e \in todo[w] \cup marked[w] : lock[e] = w /\ event[e] = "pending"
  /\ todo[w] \cap marked[w] = {}

IInv == TypeOK /\ (\A w \in Workers : Held(w)) /\ EffectsAccounted

LEMMA InitIInv == Init => IInv
BY DEF Init, IInv, TypeOK, Held, EffectsAccounted, Delivered

\* The rows of two workers are different rows.
LEMMA Apart ==
  ASSUME IInv, NEW w \in Workers, NEW v \in Workers, v # w
  PROVE  (todo[w] \cup marked[w]) \cap (todo[v] \cup marked[v]) = {}
BY DEF IInv, Held

-----------------------------------------------------------------------------
\* Steps

LEMMA FetchIInv ==
  ASSUME IInv, NEW w \in Workers, Fetch(w)
  PROVE  IInv'
<1>t. TypeOK /\ EffectsAccounted /\ \A v \in Workers : Held(v)
  BY DEF IInv
<1>1. Batch \subseteq Events /\ \A e \in Batch : event[e] = "pending" /\ lock[e] = NoWorker
  BY DEF Batch, Fetchable, Pending
<1>2. TypeOK'
  BY <1>1, <1>t DEF Fetch, TypeOK
<1>3. ASSUME NEW v \in Workers
      PROVE  Held(v)'
  <2>1. CASE v = w
    <3>1. marked[w] = {} /\ marked' = marked /\ event' = event
      BY <1>t DEF Fetch, Held
    <3>2. todo'[w] = Batch /\ pc'[w] = "deliver" /\ \A e \in Batch : lock'[e] = w
      BY <1>1, <1>t DEF Fetch, TypeOK
    <3> QED
      BY <1>1, <2>1, <3>1, <3>2 DEF Held
  <2>2. CASE v # w
    <3>1. todo'[v] = todo[v] /\ pc'[v] = pc[v] /\ marked' = marked /\ event' = event
      BY <2>2, <1>t DEF Fetch, TypeOK
    <3>2. \A e \in todo[v] \cup marked[v] : e \in Events /\ e \notin Batch
      BY <1>1, <1>t, OutboxAssumption DEF Held, TypeOK
    <3>3. \A e \in todo[v] \cup marked[v] : lock'[e] = lock[e]
      BY <3>2 DEF Fetch
    <3> QED
      BY <1>t, <3>1, <3>3 DEF Held
  <2> QED
    BY <2>1, <2>2
<1>4. EffectsAccounted'
  BY <1>t DEF Fetch, EffectsAccounted, Delivered
<1> QED
  BY <1>2, <1>3, <1>4 DEF IInv

LEMMA DeliverIInv ==
  ASSUME IInv, NEW w \in Workers, Deliver(w)
  PROVE  IInv'
<1>t. TypeOK /\ EffectsAccounted /\ \A v \in Workers : Held(v)
  BY DEF IInv
<1>1. PICK d \in Events :
        /\ Current(w, d)
        /\ calls' = [calls EXCEPT ![d] = @ + 1]
        /\ marked' = [marked EXCEPT ![w] = @ \cup {d}]
        /\ todo' = [todo EXCEPT ![w] = @ \ {d}]
        /\ pc' = [pc EXCEPT ![w] = IF todo[w] = {d} THEN "commit" ELSE "deliver"]
        /\ UNCHANGED <<event, lock, lost, outage>>
  BY DEF Deliver
<1>2. d \in todo[w] /\ pc'[w] \in {"commit", "deliver"}
  BY <1>1, <1>t DEF Current, TypeOK
<1>3. TypeOK'
  BY <1>1, <1>t DEF TypeOK
<1>4. \A v \in Workers : Held(v)'
  BY <1>1, <1>2, <1>t DEF Held, TypeOK
<1>5. d \notin Delivered
  <2>1. event[d] = "pending" /\ d \notin marked[w]
    BY <1>2, <1>t DEF Held
  <2>2. \A v \in Workers : d \notin marked[v]
    BY <1>2, <2>1, Apart
  <2> QED
    BY <2>1, <2>2 DEF Delivered
<1>6. Delivered' = Delivered \cup {d}
  <2>1. \A v \in Workers : marked'[v] = IF v = w THEN marked[v] \cup {d} ELSE marked[v]
    BY <1>1, <1>t DEF TypeOK
  <2> QED
    BY <1>1, <2>1 DEF Delivered
<1>7. EffectsAccounted'
  BY <1>1, <1>5, <1>6, <1>t DEF EffectsAccounted, TypeOK
<1> QED
  BY <1>3, <1>4, <1>7 DEF IInv

\* A transaction that ends leaves the rows of the others to them.
LEMMA EndHeld ==
  ASSUME IInv, NEW w \in Workers, End(w),
         \A e \in Events : e \notin marked[w] => event'[e] = event[e]
  PROVE  \A v \in Workers : Held(v)'
<1>t. TypeOK /\ \A v \in Workers : Held(v)
  BY DEF IInv
<1> SUFFICES ASSUME NEW v \in Workers
             PROVE  Held(v)'
  OBVIOUS
<1>1. CASE v = w
  BY <1>1, <1>t DEF End, Held, TypeOK
<1>2. CASE v # w
  <2>1. todo'[v] = todo[v] /\ marked'[v] = marked[v] /\ pc'[v] = pc[v]
    BY <1>2, <1>t DEF End, TypeOK
  <2>2. \A e \in todo[v] \cup marked[v] : e \in Events /\ e \notin marked[w] /\ lock[e] = v
    BY <1>2, <1>t, Apart DEF TypeOK, Held
  <2>3. \A e \in todo[v] \cup marked[v] : lock'[e] = lock[e] /\ event'[e] = event[e]
    BY <1>2, <2>2 DEF End
  <2> QED
    BY <1>t, <2>1, <2>3 DEF Held
<1> QED
  BY <1>1, <1>2

\* What is marked after a transaction has ended.
LEMMA EndMarked ==
  ASSUME TypeOK, NEW w \in Workers, End(w)
  PROVE  \A v \in Workers : marked'[v] = IF v = w THEN {} ELSE marked[v]
BY DEF End, TypeOK

LEMMA RollbackIInv ==
  ASSUME IInv, NEW w \in Workers, NEW effects \in SUBSET todo[w], Rollback(w, effects)
  PROVE  IInv'
<1>t. TypeOK /\ EffectsAccounted /\ \A v \in Workers : Held(v)
  BY DEF IInv
<1>1. End(w) /\ event' = event /\ outage' = outage
  BY DEF Rollback
<1>2. /\ lost' \in [Events -> Nat]
      /\ calls' \in [Events -> Nat]
  BY <1>t DEF Rollback, TypeOK
<1>3. TypeOK'
  BY <1>1, <1>2, <1>t DEF End, TypeOK
<1>4. \A v \in Workers : Held(v)'
  BY <1>1, EndHeld
<1>5. ASSUME NEW e \in Events
      PROVE  calls'[e] = IF e \in Delivered' THEN lost'[e] + 1 ELSE lost'[e]
  <2>1. \A v \in Workers : v # w /\ e \in todo[w] \cup marked[w] => e \notin marked[v]
    BY Apart
  <2>2. e \in todo[w] \cup marked[w] => event[e] = "pending"
    BY <1>t DEF Held
  <2>3. e \in Delivered' <=> e \in Delivered /\ e \notin marked[w]
    BY <1>1, <1>t, <2>1, <2>2, EndMarked DEF Delivered
  <2>4. e \in effects => e \notin marked[w] /\ e \notin Delivered
    BY <1>t, <2>1, <2>2 DEF Held, Delivered
  <2>5. e \in marked[w] => e \in Delivered
    BY DEF Delivered
  <2>6. /\ lost'[e] = IF e \in marked[w] \cup effects THEN lost[e] + 1 ELSE lost[e]
        /\ calls'[e] = IF e \in effects THEN calls[e] + 1 ELSE calls[e]
        /\ calls[e] = IF e \in Delivered THEN lost[e] + 1 ELSE lost[e]
        /\ lost[e] \in Nat
    BY <1>t DEF Rollback, EffectsAccounted, TypeOK
  <2> QED
    BY <2>3, <2>4, <2>5, <2>6
<1> QED
  BY <1>3, <1>4, <1>5 DEF IInv, EffectsAccounted

LEMMA CommitIInv ==
  ASSUME IInv, NEW w \in Workers, Commit(w)
  PROVE  IInv'
<1>t. TypeOK /\ EffectsAccounted
  BY DEF IInv
<1>1. /\ End(w) /\ UNCHANGED <<calls, lost, outage>>
      /\ event' = [e \in Events |-> IF e \in marked[w] THEN "processed" ELSE event[e]]
  BY DEF Commit
<1>2. TypeOK'
  BY <1>1, <1>t DEF End, TypeOK
<1>3. \A v \in Workers : Held(v)'
  BY <1>1, EndHeld
<1>4. Delivered' = Delivered
  BY <1>1, <1>t, EndMarked DEF Delivered
<1>5. EffectsAccounted'
  BY <1>1, <1>4, <1>t DEF EffectsAccounted
<1> QED
  BY <1>2, <1>3, <1>5 DEF IInv

LEMMA PublishIInv ==
  ASSUME IInv, NEW e \in Events, Publish(e)
  PROVE  IInv'
<1>t. TypeOK /\ EffectsAccounted /\ \A v \in Workers : Held(v)
  BY DEF IInv
<1>1. TypeOK'
  BY <1>t DEF Publish, workers, TypeOK
<1>2. \A v \in Workers : Held(v)'
  BY <1>t DEF Publish, workers, Held, TypeOK
<1>3. Delivered' = Delivered
  BY <1>t DEF Publish, workers, Delivered, TypeOK
<1>4. EffectsAccounted'
  BY <1>3, <1>t DEF Publish, EffectsAccounted
<1> QED
  BY <1>1, <1>2, <1>4 DEF IInv

LEMMA NextIInv == IInv /\ [Next]_vars => IInv'
<1> SUFFICES ASSUME IInv, [Next]_vars
             PROVE  IInv'
  OBVIOUS
<1>1. CASE UNCHANGED <<event, lock, workers, calls, lost>> /\ outage' \in {outage, FALSE}
  BY <1>1 DEF IInv, TypeOK, Held, EffectsAccounted, Delivered, workers
<1>2. CASE \E w \in Workers : HandlerFails(w) \/ Crash(w)
  <2>1. PICK w \in Workers : HandlerFails(w) \/ Crash(w)
    BY <1>2
  <2>2. CASE HandlerFails(w)
    <3>1. PICK e \in Events : Current(w, e) /\ \E effects \in {{}, {e}} : Rollback(w, effects)
      BY <2>2 DEF HandlerFails
    <3> QED
      BY <3>1, RollbackIInv DEF Current
  <2>3. CASE Crash(w)
    BY <2>3, RollbackIInv DEF Crash
  <2> QED
    BY <2>1, <2>2, <2>3
<1> QED
  BY <1>1, <1>2, FetchIInv, DeliverIInv, CommitIInv, PublishIInv DEF Next, Step, Idle, Recover, vars

THEOREM RowsHeld == Spec => []IInv
BY InitIInv, NextIInv, PTL DEF Spec

-----------------------------------------------------------------------------
\* Theorems

\* Every variable has the type the module gives it.
THEOREM TypeCorrect == Spec => []TypeOK
<1>1. IInv => TypeOK
  BY DEF IInv
<1> QED
  BY <1>1, RowsHeld, PTL

\* No two workers deliver one event, none is delivered after it was processed and none is
\* marked without its effect.
THEOREM EffectsAccountedAlways == Spec => []EffectsAccounted
<1>1. IInv => EffectsAccounted
  BY DEF IInv
<1> QED
  BY <1>1, RowsHeld, PTL
=============================================================================

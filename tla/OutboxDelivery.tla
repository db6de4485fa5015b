--------------------------- MODULE OutboxDelivery ---------------------------
(***************************************************************************)
(* Delivery of the outbox: app/services/outbox_worker.py.  Settlement      *)
(* commits the events; workers lock a batch of those not processed, hand   *)
(* each to a handler and mark it, and the caller commits the batch.        *)
(*                                                                         *)
(* The repository has neither the loop that calls run_outbox_batch nor a   *)
(* handler: a worker is taken to commit when the batch returns and to roll *)
(* back when it raises.  A handler that raises may have had its effect.    *)
(* An event is the rank of its created_at; since that is the start of its  *)
(* transaction, events are committed in any order.                         *)
(***************************************************************************)
EXTENDS Naturals, FiniteSets

CONSTANTS
  Workers,
  Events,       \* ranks of the events by created_at
  NoWorker,     \* "the row is not locked"
  Limit,        \* rows that a batch takes
  MaxLost       \* bound of TLC: effects of one event that rollbacks forget

ASSUME OutboxAssumption ==
  /\ Events \subseteq Nat
  /\ NoWorker \notin Workers
  /\ Limit \in Nat \ {0}
  /\ MaxLost \in Nat

VARIABLES
  event,        \* outbox_events: is the row there, and is it processed
  lock,         \* row lock of an event
  pc,           \* worker -> where it stands
  todo,         \* worker -> events of its batch that it has not come to
  marked,       \* worker -> events whose processed_at it has set, not committed
  calls,        \* event -> how often its handler has had its effect
  lost,         \* event -> how many of these a rollback has forgotten
  outage        \* handlers and commits may fail

workers == <<pc, todo, marked>>
vars == <<event, lock, workers, calls, lost, outage>>

Init ==
  /\ event = [e \in Events |-> "absent"]
  /\ lock = [e \in Events |-> NoWorker]
  /\ pc = [w \in Workers |-> "idle"]
  /\ todo = [w \in Workers |-> {}]
  /\ marked = [w \in Workers |-> {}]
  /\ calls = [e \in Events |-> 0]
  /\ lost = [e \in Events |-> 0]
  /\ outage = TRUE

Pending == {e \in Events : event[e] = "pending"}

\* A settlement commits its event.
Publish(e) ==
  /\ event[e] = "absent"
  /\ event' = [event EXCEPT ![e] = "pending"]
  /\ UNCHANGED <<lock, workers, calls, lost, outage>>

\* Mutant: locked rows are taken as well.
FetchableLocked == Pending

\* processed_at IS NULL, SKIP LOCKED
Fetchable == {e \in Pending : lock[e] = NoWorker}

\* ORDER BY created_at LIMIT
Batch == {e \in Fetchable : Cardinality({d \in Fetchable : d <= e}) <= Limit}

\* fetch_pending_outbox_for_update
Fetch(w) ==
  /\ pc[w] = "idle"
  /\ Batch # {}
  /\ lock' = [e \in Events |-> IF e \in Batch THEN w ELSE lock[e]]
  /\ todo' = [todo EXCEPT ![w] = Batch]
  /\ pc' = [pc EXCEPT ![w] = "deliver"]
  /\ UNCHANGED <<event, marked, calls, lost, outage>>

\* The event that the batch has come to.
Current(w, e) ==
  /\ pc[w] = "deliver"
  /\ e \in todo[w]
  /\ \A d \in todo[w] : e <= d

\* deliver_outbox_event: the handler, then processed_at; then the next event or COMMIT.
Deliver(w) ==
  \E e \in Events :
    /\ Current(w, e)
    /\ calls' = [calls EXCEPT ![e] = @ + 1]
    /\ marked' = [marked EXCEPT ![w] = @ \cup {e}]
    /\ todo' = [todo EXCEPT ![w] = @ \ {e}]
    /\ pc' = [pc EXCEPT ![w] = IF todo[w] = {e} THEN "commit" ELSE "deliver"]
    /\ UNCHANGED <<event, lock, lost, outage>>

\* The transaction ends and its locks go.
End(w) ==
  /\ lock' = [e \in Events |-> IF lock[e] = w THEN NoWorker ELSE lock[e]]
  /\ pc' = [pc EXCEPT ![w] = "idle"]
  /\ todo' = [todo EXCEPT ![w] = {}]
  /\ marked' = [marked EXCEPT ![w] = {}]

\* Mutant: the locks outlive a rollback.
RollbackLocked(w, effects) ==
  /\ outage
  /\ \A e \in marked[w] \cup effects : lost[e] < MaxLost
  /\ lost' = [e \in Events |-> IF e \in marked[w] \cup effects THEN lost[e] + 1 ELSE lost[e]]
  /\ calls' = [e \in Events |-> IF e \in effects THEN calls[e] + 1 ELSE calls[e]]
  /\ pc' = [pc EXCEPT ![w] = "idle"]
  /\ todo' = [todo EXCEPT ![w] = {}]
  /\ marked' = [marked EXCEPT ![w] = {}]
  /\ UNCHANGED <<event, lock, outage>>

\* The effects of the batch, and those of a handler that raised, are forgotten.
Rollback(w, effects) ==
  /\ outage
  /\ \A e \in marked[w] \cup effects : lost[e] < MaxLost
  /\ lost' = [e \in Events |-> IF e \in marked[w] \cup effects THEN lost[e] + 1 ELSE lost[e]]
  /\ calls' = [e \in Events |-> IF e \in effects THEN calls[e] + 1 ELSE calls[e]]
  /\ End(w)
  /\ UNCHANGED <<event, outage>>

\* The handler of one event raises: the whole batch is rolled back.
HandlerFails(w) ==
  \E e \in Events : Current(w, e) /\ \E effects \in {{}, {e}} : Rollback(w, effects)

\* A crash, or a COMMIT that fails.
Crash(w) == pc[w] # "idle" /\ Rollback(w, {})

\* Mutant: what is delivered is deleted, not marked.
CommitDeleting(w) ==
  /\ pc[w] = "commit"
  /\ event' = [e \in Events \ marked[w] |-> event[e]]
  /\ End(w)
  /\ UNCHANGED <<calls, lost, outage>>

Commit(w) ==
  /\ pc[w] = "commit"
  /\ event' = [e \in Events |-> IF e \in marked[w] THEN "processed" ELSE event[e]]
  /\ End(w)
  /\ UNCHANGED <<calls, lost, outage>>

\* What makes workers fail is over.
Recover == outage' = FALSE /\ UNCHANGED <<event, lock, workers, calls, lost>>

Step(w) == Fetch(w) \/ Deliver(w) \/ Commit(w)

\* Nothing is left to deliver.
Idle == (\A w \in Workers : pc[w] = "idle") /\ Pending = {} /\ UNCHANGED vars

Next ==
  \/ Idle
  \/ Recover
  \/ \E e \in Events : Publish(e)
  \/ \E w \in Workers : Step(w) \/ HandlerFails(w) \/ Crash(w)

Spec == Init /\ [][Next]_vars

\* Workers are called again and again, and what makes them fail does not go on for ever.
FairSpec == Spec /\ WF_vars(Recover) /\ \A w \in Workers : WF_vars(Step(w))

-----------------------------------------------------------------------------
\* Properties

TypeOK ==
  /\ event \in [Events -> {"absent", "pending", "processed"}]
  /\ lock \in [Events -> Workers \cup {NoWorker}]
  /\ pc \in [Workers -> {"idle", "deliver", "commit"}]
  /\ todo \in [Workers -> SUBSET Events]
  /\ marked \in [Workers -> SUBSET Events]
  /\ calls \in [Events -> Nat]
  /\ lost \in [Events -> Nat]
  /\ outage \in BOOLEAN

\* Events whose handler has run for a commit that is done or may still come.
Delivered == {e \in Events : event[e] = "processed" \/ \E w \in Workers : e \in marked[w]}

\* Side effects happen once, but for those whose batch was rolled back: no two workers
\* deliver one event, none is delivered after it was processed, and none is marked
\* without its effect.
EffectsAccounted ==
  \A e \in Events : calls[e] = IF e \in Delivered THEN lost[e] + 1 ELSE lost[e]

\* Every event that a settlement commits is delivered, once workers stop failing.
EveryEventDelivered == \A e \in Events : event[e] = "pending" ~> event[e] = "processed"
=============================================================================

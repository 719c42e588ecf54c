------------------------------- MODULE Outbox -------------------------------
(***************************************************************************)
(* The transactional outbox: an event is inserted by the transaction whose *)
(* effect it announces, and a worker publishes the rows that are committed *)
(* and not published yet, the oldest first, marking each after it was      *)
(* published.  The first failure ends a batch.                             *)
(*                                                                         *)
(* created_at is set by the insertion, to the millisecond, and             *)
(* transactions commit in any order.  SELECT ... FOR UPDATE SKIP LOCKED is *)
(* a statement of its own: it skips rows that another statement holds at   *)
(* that moment, and its own locks are gone when it returns.                *)
(*                                                                         *)
(* server.ts does not start the worker: Workers is empty in the deployed   *)
(* program.                                                                *)
(***************************************************************************)
EXTENDS Naturals, FiniteSets

CONSTANTS
  Events,       \* events, each with the transaction that records it
  Workers,      \* running instances of OutboxWorker
  None,         \* no event
  BatchSize,    \* LIMIT of the query, 50 in the code
  MaxClock,     \* bound: the last value of the clock
  MaxFailures   \* bound: failures of each worker

ASSUME EventsAreFinite == IsFiniteSet(Events) /\ None \notin Events
ASSUME BoundsAreNat ==
  /\ BatchSize \in Nat \ {0}
  /\ MaxClock \in Nat
  /\ MaxFailures \in [Workers -> Nat]

VARIABLES
  tx,         \* the transaction that records the event
  rows,       \* committed rows of outbox_events
  published,  \* rows whose published_at is set
  createdAt,  \* outbox_events.created_at
  clock,      \* the last created_at
  pc,         \* what a worker does next
  batch,      \* the events a worker has fetched and not published yet
  current,    \* the event a worker has published and not marked yet
  seen,       \* history: what the query of a worker's batch found
  sent,       \* history: how often a worker called the publisher successfully
  failed      \* number of failures of a worker

recorder == <<tx, rows, createdAt, clock>>
worker   == <<pc, batch, current, seen>>
vars     == <<recorder, published, worker, sent, failed>>

\* The types of all variables.
TypeOK ==
  /\ tx        \in [Events -> {"none", "open", "committed", "aborted"}]
  /\ rows      \in SUBSET Events
  /\ published \in SUBSET Events
  /\ createdAt \in [Events -> Nat]
  /\ clock     \in Nat
  /\ pc        \in [Workers -> {"idle", "fetch", "publish", "mark"}]
  /\ batch     \in [Workers -> SUBSET Events]
  /\ current   \in [Workers -> Events \cup {None}]
  /\ seen      \in [Workers -> SUBSET Events]
  /\ sent      \in [Workers -> [Events -> Nat]]
  /\ failed    \in [Workers -> Nat]

Init ==
  /\ tx        = [e \in Events |-> "none"]
  /\ rows      = {}
  /\ published = {}
  /\ createdAt = [e \in Events |-> 0]
  /\ clock     = 0
  /\ pc        = [w \in Workers |-> "idle"]
  /\ batch     = [w \in Workers |-> {}]
  /\ current   = [w \in Workers |-> None]
  /\ seen      = [w \in Workers |-> {}]
  /\ sent      = [w \in Workers |-> [e \in Events |-> 0]]
  /\ failed    = [w \in Workers |-> 0]

-----------------------------------------------------------------------------
(* recordEvent, and the transaction it is part of                          *)

\* Mutation: the event is inserted through the global client.
RecordGlobally(e) ==
  /\ tx[e] = "none"
  /\ tx' = [tx EXCEPT ![e] = "open"]
  /\ rows' = rows \cup {e}
  /\ clock' \in {clock, clock + 1} /\ clock' <= MaxClock
  /\ createdAt' = [createdAt EXCEPT ![e] = clock']
  /\ UNCHANGED <<published, worker, sent, failed>>

Record(e) ==
  /\ tx[e] = "none"
  /\ tx' = [tx EXCEPT ![e] = "open"]
  /\ clock' \in {clock, clock + 1} /\ clock' <= MaxClock
  /\ createdAt' = [createdAt EXCEPT ![e] = clock']
  /\ UNCHANGED <<rows, published, worker, sent, failed>>

Commit(e) ==
  /\ tx[e] = "open"
  /\ tx' = [tx EXCEPT ![e] = "committed"]
  /\ rows' = rows \cup {e}
  /\ UNCHANGED <<createdAt, clock, published, worker, sent, failed>>

Abort(e) ==
  /\ tx[e] = "open"
  /\ tx' = [tx EXCEPT ![e] = "aborted"]
  /\ createdAt' = [createdAt EXCEPT ![e] = 0]
  /\ UNCHANGED <<rows, clock, published, worker, sent, failed>>

-----------------------------------------------------------------------------
(* OutboxWorker.processBatch                                               *)

Pending == rows \ published

Older(S, e) == {d \in S : createdAt[d] < createdAt[e]}

\* ORDER BY created_at LIMIT BatchSize: rows of the same time in any order.
OldestOf(S) ==
  LET size == IF Cardinality(S) < BatchSize THEN Cardinality(S) ELSE BatchSize
  IN  {B \in SUBSET S : /\ Cardinality(B) = size
                        /\ \A e \in B : Older(S, e) \subseteq B}

\* The rows a statement of v holds, or may hold, until it returns.
LockedBy(v) ==
  CASE pc[v] = "fetch" -> batch[v]
    [] pc[v] = "mark"  -> {current[v]}
    [] OTHER           -> {}

\* Rows the query of w finds locked.  Locks are taken row by row, and the
\* fallback of the query looks for none.
Skipped(w) == SUBSET UNION {LockedBy(v) : v \in Workers \ {w}}

Query(w, S) ==
  /\ pc[w] = "idle"
  /\ S # {}
  /\ pc'    = [pc EXCEPT ![w] = "fetch"]
  /\ \E B \in OldestOf(S) : batch' = [batch EXCEPT ![w] = B]
  /\ seen'  = [seen EXCEPT ![w] = S]
  /\ UNCHANGED <<recorder, published, current, sent, failed>>

\* Mutation: the worker goes on after the newest event that is published,
\* instead of looking for rows that are not published.
FetchAfterCursor(w) ==
  \E L \in Skipped(w) :
    Query(w, {e \in Pending \ L :
                \A d \in published : createdAt[d] < createdAt[e]})

\* Nothing is done when nothing is to be published.
Fetch(w) == \E L \in Skipped(w) : Query(w, Pending \ L)

\* The query returns, and its locks are released.
Fetched(w) ==
  /\ pc[w] = "fetch"
  /\ pc' = [pc EXCEPT ![w] = "publish"]
  /\ UNCHANGED <<recorder, published, batch, current, seen, sent, failed>>

\* The worker is about to publish e, the oldest event of its batch.
Next1(w, e) == pc[w] = "publish" /\ e \in batch[w] /\ Older(batch[w], e) = {}

Send(w, e) == sent' = [sent EXCEPT ![w][e] = @ + 1]

\* The loop goes on after e, and ends with the batch.
Drop(w, e) ==
  LET left == batch[w] \ {e}
  IN  /\ batch' = [batch EXCEPT ![w] = left]
      /\ pc'    = [pc EXCEPT ![w] = IF left = {} THEN "idle" ELSE "publish"]
      /\ seen'  = [seen EXCEPT ![w] = IF left = {} THEN {} ELSE @]

\* A failure ends the batch.
Break(w) ==
  /\ failed[w] < MaxFailures[w]
  /\ failed'  = [failed EXCEPT ![w] = @ + 1]
  /\ pc'      = [pc EXCEPT ![w] = "idle"]
  /\ batch'   = [batch EXCEPT ![w] = {}]
  /\ current' = [current EXCEPT ![w] = None]
  /\ seen'    = [seen EXCEPT ![w] = {}]
  /\ UNCHANGED recorder

\* Mutation: the worker does not keep the event it publishes.
PublishForgotten(w, e) ==
  /\ Next1(w, e)
  /\ Send(w, e)
  /\ pc' = [pc EXCEPT ![w] = "mark"]
  /\ UNCHANGED <<recorder, published, batch, current, seen, failed>>

Publish(w, e) ==
  /\ Next1(w, e)
  /\ Send(w, e)
  /\ pc'      = [pc EXCEPT ![w] = "mark"]
  /\ current' = [current EXCEPT ![w] = e]
  /\ UNCHANGED <<recorder, published, batch, seen, failed>>

\* Mutation: the event that could not be published is skipped.
PublishFailsSkipping(w, e) ==
  /\ Next1(w, e)
  /\ failed[w] < MaxFailures[w]
  /\ failed' = [failed EXCEPT ![w] = @ + 1]
  /\ Drop(w, e)
  /\ UNCHANGED <<recorder, published, current, sent>>

\* The publisher throws, before or after the event has reached the queue, or
\* the process dies.
PublishFails(w, e) ==
  /\ Next1(w, e)
  /\ Break(w)
  /\ Send(w, e) \/ UNCHANGED sent
  /\ UNCHANGED published

\* Mutation: published_at is not written.
MarkNothing(w) ==
  /\ pc[w] = "mark"
  /\ Drop(w, current[w])
  /\ current' = [current EXCEPT ![w] = None]
  /\ UNCHANGED <<recorder, published, sent, failed>>

\* markPublished
Mark(w) ==
  /\ pc[w] = "mark"
  /\ published' = published \cup {current[w]}
  /\ Drop(w, current[w])
  /\ current' = [current EXCEPT ![w] = None]
  /\ UNCHANGED <<recorder, sent, failed>>

\* Mutation: a batch is marked as a whole, also after a failure.
MarkFailsMarkingAll(w) ==
  /\ pc[w] = "mark"
  /\ Break(w)
  /\ published' = published \cup batch[w]
  /\ UNCHANGED sent

\* The update fails, before or after it took effect, or the process dies.
MarkFails(w) ==
  /\ pc[w] = "mark"
  /\ Break(w)
  /\ published' = published \cup {current[w]} \/ UNCHANGED published
  /\ UNCHANGED sent

-----------------------------------------------------------------------------
Recorder == \E e \in Events : Record(e) \/ Commit(e) \/ Abort(e)

Work(w) ==
  \/ Fetch(w)
  \/ Fetched(w)
  \/ \E e \in Events : Publish(w, e)
  \/ Mark(w)

Failure(w) == (\E e \in Events : PublishFails(w, e)) \/ MarkFails(w)

Next == Recorder \/ \E w \in Workers : Work(w) \/ Failure(w)

Spec == Init /\ [][Next]_vars

\* A worker polls again and again.
Fairness == \A w \in Workers : WF_vars(Work(w))

FairSpec == Spec /\ Fairness
-----------------------------------------------------------------------------
(* Properties that hold                                                    *)

\* recordEvent: an event gets out if and only if the surrounding transaction
\* commits.  This is the "only if"; EventPublished is the "if".
OnlyCommittedSent ==
  \A w \in Workers, e \in Events : sent[w][e] > 0 => tx[e] = "committed"

\* An event is never marked published without having been published, whatever
\* fails and however the batches of several workers overlap.
MarkedWasSent ==
  \A e \in published : \E w \in Workers : sent[w][e] > 0

\* A worker publishes an event again only after a failure: at most once more
\* for each.
RepeatedOnlyAfterFailure ==
  \A w \in Workers, e \in Events : sent[w][e] <= 1 + failed[w]

\* "Ordering matters for downstream consumers" (outbox.worker.test.ts): when a
\* worker has published an event, it has published every older one its query
\* found, whatever failed in between.
NothingSkipped ==
  \A w \in Workers : pc[w] = "mark" =>
    \A d \in seen[w] : createdAt[d] < createdAt[current[w]] => sent[w][d] > 0

\* Where a worker runs, every committed event is published and marked in the
\* end, also when it commits after younger events were published.
EventPublished ==
  \A e \in Events : tx[e] = "committed" ~> e \in published
=============================================================================

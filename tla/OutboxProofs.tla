---------------------------- MODULE OutboxProofs ----------------------------
(***************************************************************************)
(* Proofs of the safety properties of module Outbox, for any events,       *)
(* workers, batch size and failures.                                       *)
(***************************************************************************)
EXTENDS Outbox, TLAPS

Marking(w, e) == pc[w] = "mark" /\ current[w] = e

\* What workers and the table hold are events of committed transactions.
Committed ==
  /\ \A e \in rows : tx[e] = "committed"
  /\ published \subseteq rows
  /\ \A w \in Workers : batch[w] \subseteq rows /\ seen[w] \subseteq rows

\* An event that is to be marked is in the batch and was published.
MarkingWasSent ==
  \A w \in Workers : pc[w] = "mark" =>
    current[w] \in batch[w] /\ sent[w][current[w]] > 0

\* A worker has published an event that it may publish (again) at most as
\* often as it has failed.
UnmarkedNotRepeated ==
  \A w \in Workers, e \in Events :
    (e \notin published \/ e \in batch[w]) /\ ~Marking(w, e)
      => sent[w][e] <= failed[w]

\* A batch is a prefix, by age, of what is left of what the query found.
BatchIsPrefix ==
  \A w \in Workers : \A e \in batch[w], d \in seen[w] :
    createdAt[d] < createdAt[e] => d \in batch[w] \/ sent[w][d] > 0

IInv ==
  /\ TypeOK
  /\ Committed
  /\ OnlyCommittedSent
  /\ MarkingWasSent
  /\ MarkedWasSent
  /\ RepeatedOnlyAfterFailure
  /\ UnmarkedNotRepeated
  /\ BatchIsPrefix
  /\ NothingSkipped

-----------------------------------------------------------------------------
(* One lemma for each action                                               *)

LEMMA InitIInv == Init => IInv
BY EventsAreFinite DEF Init, IInv, TypeOK, Committed, OnlyCommittedSent,
  MarkingWasSent, MarkedWasSent, RepeatedOnlyAfterFailure,
  UnmarkedNotRepeated, BatchIsPrefix, NothingSkipped

LEMMA RecordIInv ==
  ASSUME IInv, NEW e \in Events, Record(e)
  PROVE  IInv'
<1> USE DEF IInv, Record, worker
<1>1. e \notin rows /\ \A d \in rows : createdAt'[d] = createdAt[d]
  BY DEF TypeOK, Committed
<1>2. TypeOK'
  BY DEF TypeOK
<1>3. Committed'
  BY <1>1 DEF TypeOK, Committed
<1>4. OnlyCommittedSent'
  BY DEF TypeOK, OnlyCommittedSent
<1>5. MarkingWasSent' /\ MarkedWasSent' /\ RepeatedOnlyAfterFailure'
  BY DEF MarkingWasSent, MarkedWasSent, RepeatedOnlyAfterFailure
<1>6. UnmarkedNotRepeated'
  BY DEF UnmarkedNotRepeated, Marking
<1>7. BatchIsPrefix'
  BY <1>1 DEF BatchIsPrefix, Committed
<1>8. NothingSkipped'
  BY <1>1 DEF NothingSkipped, Committed, MarkingWasSent
<1> QED BY <1>2, <1>3, <1>4, <1>5, <1>6, <1>7, <1>8

LEMMA CommitIInv ==
  ASSUME IInv, NEW e \in Events, Commit(e)
  PROVE  IInv'
<1> USE DEF IInv, Commit, worker
<1>1. TypeOK'
  BY DEF TypeOK
<1>2. Committed'
  BY DEF TypeOK, Committed
<1>3. OnlyCommittedSent'
  BY DEF TypeOK, OnlyCommittedSent
<1>4. MarkingWasSent' /\ MarkedWasSent' /\ RepeatedOnlyAfterFailure'
  BY DEF MarkingWasSent, MarkedWasSent, RepeatedOnlyAfterFailure
<1>5. UnmarkedNotRepeated' /\ BatchIsPrefix' /\ NothingSkipped'
  BY DEF UnmarkedNotRepeated, Marking, BatchIsPrefix, NothingSkipped
<1> QED BY <1>1, <1>2, <1>3, <1>4, <1>5

LEMMA AbortIInv ==
  ASSUME IInv, NEW e \in Events, Abort(e)
  PROVE  IInv'
<1> USE DEF IInv, Abort, worker
<1>1. e \notin rows /\ \A d \in rows : createdAt'[d] = createdAt[d]
  BY DEF TypeOK, Committed
<1>2. TypeOK'
  BY DEF TypeOK
<1>3. Committed'
  BY DEF TypeOK, Committed
<1>4. OnlyCommittedSent'
  BY DEF TypeOK, OnlyCommittedSent
<1>5. MarkingWasSent' /\ MarkedWasSent' /\ RepeatedOnlyAfterFailure'
  BY DEF MarkingWasSent, MarkedWasSent, RepeatedOnlyAfterFailure
<1>6. UnmarkedNotRepeated'
  BY DEF UnmarkedNotRepeated, Marking
<1>7. BatchIsPrefix'
  BY <1>1 DEF BatchIsPrefix, Committed
<1>8. NothingSkipped'
  BY <1>1 DEF NothingSkipped, Committed, MarkingWasSent
<1> QED BY <1>2, <1>3, <1>4, <1>5, <1>6, <1>7, <1>8

LEMMA FetchIInv ==
  ASSUME IInv, NEW w \in Workers, Fetch(w)
  PROVE  IInv'
<1> USE DEF IInv, recorder
<1>1. PICK S \in SUBSET Pending : Query(w, S)
  <2>1. PICK L \in Skipped(w) : Query(w, Pending \ L)
    BY DEF Fetch
  <2> QED BY <2>1
<1>2. S \subseteq Events /\ S \subseteq rows /\ S \cap published = {}
  BY DEF TypeOK, Pending
<1>3. PICK B \in SUBSET S :
        /\ batch' = [batch EXCEPT ![w] = B]
        /\ \A e \in B : Older(S, e) \subseteq B
  BY <1>1 DEF Query, OldestOf
<1>4. \A v \in Workers :
        /\ v # w => /\ batch'[v] = batch[v]
                    /\ seen'[v] = seen[v]
                    /\ pc'[v] = pc[v]
        /\ v = w => /\ batch'[v] = B
                    /\ seen'[v] = S
                    /\ pc'[v] = "fetch"
                    /\ pc[v] = "idle"
  BY <1>1, <1>3 DEF Query, TypeOK
<1>5. UNCHANGED <<tx, rows, createdAt, published, current, sent, failed>>
  BY <1>1 DEF Query
<1>6. TypeOK'
  BY <1>1, <1>2, <1>3 DEF TypeOK, Query
<1>7. Committed'
  BY <1>2, <1>3, <1>4, <1>5 DEF Committed
<1>8. OnlyCommittedSent' /\ MarkedWasSent' /\ RepeatedOnlyAfterFailure'
  BY <1>5 DEF OnlyCommittedSent, MarkedWasSent, RepeatedOnlyAfterFailure
<1>9. MarkingWasSent'
  BY <1>4, <1>5 DEF MarkingWasSent
<1>10. UnmarkedNotRepeated'
  BY <1>2, <1>3, <1>4, <1>5 DEF UnmarkedNotRepeated, Marking
<1>11. BatchIsPrefix'
  <2>1. SUFFICES ASSUME NEW v \in Workers,
                        NEW e \in batch'[v], NEW d \in seen'[v],
                        createdAt[d] < createdAt[e]
                 PROVE  d \in batch'[v] \/ sent[v][d] > 0
    BY <1>5 DEF BatchIsPrefix
  <2>2. CASE v = w
    BY <2>1, <2>2, <1>3, <1>4 DEF Older
  <2>3. CASE v # w
    BY <2>1, <2>3, <1>4 DEF BatchIsPrefix
  <2> QED BY <2>2, <2>3
<1>12. NothingSkipped'
  BY <1>4, <1>5 DEF NothingSkipped
<1> QED BY <1>6, <1>7, <1>8, <1>9, <1>10, <1>11, <1>12

LEMMA FetchedIInv ==
  ASSUME IInv, NEW w \in Workers, Fetched(w)
  PROVE  IInv'
<1> USE DEF IInv, Fetched, recorder
<1>1. TypeOK'
  BY DEF TypeOK
<1>2. \A v \in Workers : pc'[v] = "mark" <=> pc[v] = "mark"
  BY DEF TypeOK
<1>3. Committed' /\ OnlyCommittedSent' /\ MarkedWasSent'
  BY DEF Committed, OnlyCommittedSent, MarkedWasSent
<1>4. MarkingWasSent' /\ RepeatedOnlyAfterFailure'
  BY <1>2 DEF MarkingWasSent, RepeatedOnlyAfterFailure
<1>5. UnmarkedNotRepeated'
  BY <1>2 DEF UnmarkedNotRepeated, Marking
<1>6. BatchIsPrefix' /\ NothingSkipped'
  BY <1>2 DEF BatchIsPrefix, NothingSkipped
<1> QED BY <1>1, <1>3, <1>4, <1>5, <1>6

LEMMA PublishIInv ==
  ASSUME IInv, NEW w \in Workers, NEW e \in Events, Publish(w, e)
  PROVE  IInv'
<1> USE DEF IInv, Publish, recorder
<1>1. /\ pc[w] = "publish" /\ e \in batch[w]
      /\ \A d \in batch[w] : ~(createdAt[d] < createdAt[e])
  BY DEF Next1, Older
<1>2. UNCHANGED <<tx, rows, createdAt, published, batch, seen, failed>>
  OBVIOUS
<1>3. \A v \in Workers : v # w => pc'[v] = pc[v] /\ current'[v] = current[v]
  BY DEF TypeOK
<1>4. pc'[w] = "mark" /\ current'[w] = e
  BY DEF TypeOK
<1>5. \A v \in Workers, d \in Events :
        sent'[v][d] = IF v = w /\ d = e THEN sent[v][d] + 1 ELSE sent[v][d]
  BY DEF Send, TypeOK
<1>6. \A v \in Workers, d \in Events : sent[v][d] \in Nat /\ failed[v] \in Nat
  BY DEF TypeOK
<1>7. TypeOK'
  BY <1>6 DEF TypeOK, Send
<1>8. Committed'
  BY <1>2 DEF Committed
<1>9. OnlyCommittedSent'
  BY <1>1, <1>2, <1>5 DEF OnlyCommittedSent, Committed
<1>10. MarkingWasSent'
  <2>1. sent'[w][e] > 0
    BY <1>5, <1>6
  <2>2. ASSUME NEW v \in Workers, v # w, pc'[v] = "mark"
        PROVE  current'[v] \in batch'[v] /\ sent'[v][current'[v]] > 0
    <3>1. /\ current'[v] = current[v] /\ current[v] \in batch[v]
          /\ sent[v][current[v]] > 0
      BY <2>2, <1>3 DEF MarkingWasSent
    <3>2. current[v] \in Events
      BY <3>1 DEF TypeOK
    <3> QED BY <3>1, <3>2, <2>2, <1>2, <1>5
  <2> QED BY <2>1, <2>2, <1>1, <1>2, <1>4 DEF MarkingWasSent
<1>11. MarkedWasSent'
  <2>1. \A v \in Workers, d \in Events : sent[v][d] > 0 => sent'[v][d] > 0
    BY <1>5, <1>6
  <2> QED BY <2>1, <1>2 DEF MarkedWasSent, TypeOK
<1>12. RepeatedOnlyAfterFailure'
  <2>1. sent[w][e] <= failed[w]
    BY <1>1 DEF UnmarkedNotRepeated, Marking
  <2> QED BY <2>1, <1>2, <1>5, <1>6 DEF RepeatedOnlyAfterFailure
<1>13. UnmarkedNotRepeated'
  BY <1>1, <1>2, <1>3, <1>4, <1>5, <1>6 DEF UnmarkedNotRepeated, Marking
<1>14. BatchIsPrefix'
  <2>1. \A v \in Workers : seen[v] \subseteq Events
    BY DEF TypeOK
  <2> QED BY <2>1, <1>2, <1>5, <1>6 DEF BatchIsPrefix
<1>15. NothingSkipped'
  <2>1. SUFFICES ASSUME NEW v \in Workers, pc'[v] = "mark",
                        NEW d \in seen[v],
                        createdAt[d] < createdAt[current'[v]]
                 PROVE  sent'[v][d] > 0
    BY <1>2 DEF NothingSkipped
  <2>2. d \in Events
    BY DEF TypeOK
  <2>3. sent[v][d] > 0
    BY <2>1, <1>1, <1>3, <1>4 DEF NothingSkipped, BatchIsPrefix
  <2> QED BY <2>2, <2>3, <1>5, <1>6
<1> QED BY <1>7, <1>8, <1>9, <1>10, <1>11, <1>12, <1>13, <1>14, <1>15

(* The two failures end the batch of a worker; one may have published an   *)
(* event once more, the other may have marked the current one.             *)
LEMMA BreakIInv ==
  ASSUME IInv, NEW w \in Workers, Break(w),
         published' \in SUBSET Events, sent' \in [Workers -> [Events -> Nat]],
         \A e \in published' : e \in published \/ Marking(w, e),
         published \subseteq published',
         \A v \in Workers, e \in Events :
           sent'[v][e] = sent[v][e]
             \/ /\ v = w /\ e \in batch[w] /\ pc[w] = "publish"
                /\ sent'[v][e] = sent[v][e] + 1
  PROVE  IInv'
<1> USE DEF IInv, Break, recorder
<1>1. UNCHANGED <<tx, rows, createdAt>>
  OBVIOUS
<1>2. \A v \in Workers : v # w => /\ pc'[v] = pc[v] /\ current'[v] = current[v]
                                  /\ batch'[v] = batch[v]
                                  /\ seen'[v] = seen[v]
                                  /\ failed'[v] = failed[v]
  BY DEF TypeOK
<1>3. /\ pc'[w] = "idle" /\ batch'[w] = {} /\ seen'[w] = {}
      /\ failed'[w] = failed[w] + 1
  BY DEF TypeOK
<1>4. \A v \in Workers, e \in Events :
        sent[v][e] \in Nat /\ failed[v] \in Nat /\ sent'[v][e] >= sent[v][e]
  BY DEF TypeOK
<1>5. TypeOK'
  <2>1. failed' \in [Workers -> Nat]
    BY DEF TypeOK
  <2>2. pc' \in [Workers -> {"idle", "fetch", "publish", "mark"}]
    BY DEF TypeOK
  <2>3. batch' \in [Workers -> SUBSET Events]
    BY DEF TypeOK
  <2>4. current' \in [Workers -> Events \cup {None}]
    BY DEF TypeOK
  <2>5. seen' \in [Workers -> SUBSET Events]
    BY DEF TypeOK
  <2> QED BY <2>1, <2>2, <2>3, <2>4, <2>5 DEF TypeOK
<1>6. Committed'
  <2>1. \A e \in published' : e \in rows
    BY DEF Committed, MarkingWasSent, Marking
  <2> QED BY <2>1, <1>1, <1>2, <1>3 DEF Committed
<1>7. OnlyCommittedSent'
  BY <1>1, <1>4 DEF OnlyCommittedSent, Committed
<1>8. MarkingWasSent'
  <2>1. SUFFICES ASSUME NEW v \in Workers, pc'[v] = "mark"
                 PROVE  current'[v] \in batch'[v] /\ sent'[v][current'[v]] > 0
    BY DEF MarkingWasSent
  <2>2. /\ v # w /\ current'[v] = current[v] /\ batch'[v] = batch[v]
        /\ current[v] \in batch[v] /\ sent[v][current[v]] > 0
    BY <2>1, <1>2, <1>3 DEF MarkingWasSent
  <2>3. current[v] \in Events
    BY <2>2 DEF TypeOK
  <2> QED BY <2>2, <2>3, <1>4
<1>9. MarkedWasSent'
  <2>1. SUFFICES ASSUME NEW e \in published'
                 PROVE  \E v \in Workers : sent'[v][e] > 0
    BY DEF MarkedWasSent
  <2>2. \E v \in Workers : sent[v][e] > 0
    BY <2>1 DEF MarkedWasSent, MarkingWasSent, Marking
  <2> QED BY <2>2, <1>4
<1>10. RepeatedOnlyAfterFailure' /\ UnmarkedNotRepeated'
  <2>1. \A e \in Events : sent'[w][e] <= failed'[w]
    <3>1. TAKE e \in Events
    <3>2. CASE e \in batch[w] /\ pc[w] = "publish"
      BY <3>2, <1>3, <1>4 DEF UnmarkedNotRepeated, Marking
    <3>3. CASE ~(e \in batch[w] /\ pc[w] = "publish")
      BY <3>3, <1>3, <1>4 DEF RepeatedOnlyAfterFailure
    <3> QED BY <3>2, <3>3
  <2>2. failed'[w] \in Nat /\ \A e \in Events : sent'[w][e] \in Nat
    BY <1>5 DEF TypeOK
  <2>3. RepeatedOnlyAfterFailure'
    BY <2>1, <2>2, <1>2 DEF RepeatedOnlyAfterFailure
  <2>4. UnmarkedNotRepeated'
    BY <2>1, <1>2 DEF UnmarkedNotRepeated, Marking
  <2> QED BY <2>3, <2>4
<1>11. BatchIsPrefix'
  <2>1. SUFFICES ASSUME NEW v \in Workers,
                        NEW e \in batch'[v], NEW d \in seen'[v],
                        createdAt[d] < createdAt[e]
                 PROVE  d \in batch'[v] \/ sent'[v][d] > 0
    BY <1>1 DEF BatchIsPrefix
  <2>2. d \in Events /\ v # w /\ batch'[v] = batch[v] /\ seen'[v] = seen[v]
    BY <1>2, <1>3 DEF TypeOK
  <2> QED BY <2>1, <2>2, <1>4 DEF BatchIsPrefix
<1>12. NothingSkipped'
  <2>1. SUFFICES ASSUME NEW v \in Workers, pc'[v] = "mark",
                        NEW d \in seen'[v],
                        createdAt[d] < createdAt[current'[v]]
                 PROVE  sent'[v][d] > 0
    BY <1>1 DEF NothingSkipped
  <2>2. /\ d \in Events /\ pc[v] = "mark" /\ current'[v] = current[v]
        /\ seen'[v] = seen[v]
    BY <2>1, <1>2, <1>3 DEF TypeOK
  <2> QED BY <2>1, <2>2, <1>4 DEF NothingSkipped
<1> QED BY <1>5, <1>6, <1>7, <1>8, <1>9, <1>10, <1>11, <1>12

LEMMA PublishFailsIInv ==
  ASSUME IInv, NEW w \in Workers, NEW e \in Events, PublishFails(w, e)
  PROVE  IInv'
<1>1. pc[w] = "publish" /\ e \in batch[w]
  BY DEF PublishFails, Next1
<1>2. Break(w) /\ published' = published /\ published \in SUBSET Events
  BY DEF PublishFails, IInv, TypeOK
<1>3. /\ sent' \in [Workers -> [Events -> Nat]]
      /\ \A v \in Workers, d \in Events :
           sent'[v][d] = sent[v][d]
             \/ (v = w /\ d = e /\ sent'[v][d] = sent[v][d] + 1)
  <2>1. sent \in [Workers -> [Events -> Nat]]
    BY DEF IInv, TypeOK
  <2>2. CASE Send(w, e)
    BY <2>1, <2>2 DEF Send
  <2>3. CASE UNCHANGED sent
    BY <2>1, <2>3
  <2> QED BY <2>2, <2>3 DEF PublishFails
<1> QED BY <1>1, <1>2, <1>3, BreakIInv

LEMMA MarkFailsIInv ==
  ASSUME IInv, NEW w \in Workers, MarkFails(w)
  PROVE  IInv'
<1>1. pc[w] = "mark" /\ Break(w) /\ UNCHANGED sent
  BY DEF MarkFails
<1>2. current[w] \in Events
  BY <1>1 DEF IInv, MarkingWasSent, TypeOK
<1>3. sent \in [Workers -> [Events -> Nat]] /\ published \in SUBSET Events
  BY DEF IInv, TypeOK
<1>4. /\ published' \in SUBSET Events /\ published \subseteq published'
      /\ \A e \in published' : e \in published \/ Marking(w, e)
  BY <1>1, <1>2, <1>3 DEF MarkFails, Marking
<1> QED BY <1>1, <1>3, <1>4, BreakIInv

LEMMA MarkIInv ==
  ASSUME IInv, NEW w \in Workers, Mark(w)
  PROVE  IInv'
<1> USE DEF IInv, Mark, Drop, recorder
<1>1. /\ current[w] \in batch[w] /\ current[w] \in Events
      /\ sent[w][current[w]] > 0
  BY DEF MarkingWasSent, TypeOK
<1>2. UNCHANGED <<tx, rows, createdAt, sent, failed>>
  OBVIOUS
<1>3. \A v \in Workers : v # w => /\ pc'[v] = pc[v] /\ current'[v] = current[v]
                                  /\ batch'[v] = batch[v]
                                  /\ seen'[v] = seen[v]
  BY DEF TypeOK
<1>4. /\ pc[w] = "mark" /\ pc'[w] # "mark"
      /\ batch'[w] = batch[w] \ {current[w]}
      /\ seen'[w] = seen[w] \/ seen'[w] = {}
      /\ published' = published \cup {current[w]}
  BY DEF TypeOK
<1>5. TypeOK'
  <2>1. pc' \in [Workers -> {"idle", "fetch", "publish", "mark"}]
    BY DEF TypeOK
  <2>2. batch' \in [Workers -> SUBSET Events]
    BY DEF TypeOK
  <2>3. current' \in [Workers -> Events \cup {None}]
    BY DEF TypeOK
  <2>4. seen' \in [Workers -> SUBSET Events]
    BY DEF TypeOK
  <2> QED BY <2>1, <2>2, <2>3, <2>4, <1>1, <1>4 DEF TypeOK
<1>6. Committed'
  BY <1>1, <1>2, <1>3, <1>4 DEF Committed
<1>7. OnlyCommittedSent' /\ RepeatedOnlyAfterFailure'
  BY <1>2 DEF OnlyCommittedSent, RepeatedOnlyAfterFailure
<1>8. MarkingWasSent'
  BY <1>2, <1>3, <1>4 DEF MarkingWasSent
<1>9. MarkedWasSent'
  BY <1>1, <1>2, <1>4 DEF MarkedWasSent
<1>10. UnmarkedNotRepeated'
  BY <1>2, <1>3, <1>4 DEF UnmarkedNotRepeated, Marking
<1>11. BatchIsPrefix'
  BY <1>1, <1>2, <1>3, <1>4 DEF BatchIsPrefix
<1>12. NothingSkipped'
  BY <1>2, <1>3, <1>4 DEF NothingSkipped
<1> QED BY <1>5, <1>6, <1>7, <1>8, <1>9, <1>10, <1>11, <1>12

-----------------------------------------------------------------------------
(* The invariant and what follows from it                                  *)

LEMMA StepIInv == IInv /\ [Next]_vars => IInv'
<1> SUFFICES ASSUME IInv, [Next]_vars
             PROVE  IInv'
  OBVIOUS
<1>1. CASE Recorder
  BY <1>1, RecordIInv, CommitIInv, AbortIInv DEF Recorder
<1>2. ASSUME NEW w \in Workers, Work(w)
      PROVE  IInv'
  BY <1>2, FetchIInv, FetchedIInv, PublishIInv, MarkIInv DEF Work
<1>3. ASSUME NEW w \in Workers, Failure(w)
      PROVE  IInv'
  BY <1>3, PublishFailsIInv, MarkFailsIInv DEF Failure
<1>4. CASE UNCHANGED vars
  <2> USE <1>4 DEF vars, recorder, worker, IInv
  <2>1. TypeOK' /\ Committed' /\ OnlyCommittedSent'
    BY DEF TypeOK, Committed, OnlyCommittedSent
  <2>2. MarkingWasSent' /\ MarkedWasSent' /\ RepeatedOnlyAfterFailure'
    BY DEF MarkingWasSent, MarkedWasSent, RepeatedOnlyAfterFailure
  <2>3. UnmarkedNotRepeated' /\ BatchIsPrefix' /\ NothingSkipped'
    BY DEF UnmarkedNotRepeated, Marking, BatchIsPrefix, NothingSkipped
  <2> QED BY <2>1, <2>2, <2>3
<1> QED BY <1>1, <1>2, <1>3, <1>4 DEF Next

\* The inductive invariant holds in every state: the other theorems follow
\* from it.
THEOREM Invariance == Spec => []IInv
BY InitIInv, StepIInv, PTL DEF Spec

\* Every variable keeps its type.
THEOREM TypeCorrect == Spec => []TypeOK
<1>1. IInv => TypeOK
  BY DEF IInv
<1> QED BY <1>1, Invariance, PTL

\* recordEvent: only events of committed transactions reach the publisher.
THEOREM OnlyCommittedGetsOut == Spec => []OnlyCommittedSent
<1>1. IInv => OnlyCommittedSent
  BY DEF IInv
<1> QED BY <1>1, Invariance, PTL

\* markPublished: an event that is marked was published by some worker, so
\* that no failure and no overlap of batches loses it.
THEOREM NoEventIsLost == Spec => []MarkedWasSent
<1>1. IInv => MarkedWasSent
  BY DEF IInv
<1> QED BY <1>1, Invariance, PTL

\* processBatch: a worker publishes an event once, and once more at most for
\* each of its failures.
THEOREM RepetitionIsBounded == Spec => []RepeatedOnlyAfterFailure
<1>1. IInv => RepeatedOnlyAfterFailure
  BY DEF IInv
<1> QED BY <1>1, Invariance, PTL

\* processBatch: the events a query found are published in the order of their
\* age, a failure never lets a younger one overtake an older one.
THEOREM OldestFirst == Spec => []NothingSkipped
<1>1. IInv => NothingSkipped
  BY DEF IInv
<1> QED BY <1>1, Invariance, PTL
=============================================================================

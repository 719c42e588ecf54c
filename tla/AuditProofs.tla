---------------------------- MODULE AuditProofs ----------------------------
(***************************************************************************)
(* Proofs of the safety properties of module Audit, for any calls of       *)
(* log(), users, programs and bounds.                                      *)
(***************************************************************************)
EXTENDS Audit, Integers, TLAPS

\* The link to the entry that was the latest of the first n.
ChainedTo(n) == IF n = 0 THEN Genesis ELSE [kind |-> "link", id |-> n]

\* A call that has read the latest entry knows what it is about, and is chained
\* to that entry, unless it was unfinished.
CallsAreChained ==
  \A p \in Requests : pc[p] # "idle" =>
    /\ call[p].entity \in Entities /\ call[p].actor \in Actors
    /\ seen.calls[p] <= Len(entries)
    /\ call[p].previous = Pending \/ call[p].previous = ChainedTo(seen.calls[p])

\* A call whose row is inserted agrees with it.
CallsMatchRows ==
  \A p \in Requests : pc[p] = "hash" =>
    /\ call[p].id \in DOMAIN entries
    /\ entries[call[p].id].previous = call[p].previous
    /\ call[p].actor \in Users => entries[call[p].id].actor = call[p].actor

\* Each row is chained to the entry its call had found, an earlier one.
RowsAreChained ==
  \A i \in DOMAIN entries :
    /\ seen.rows[i] < i
    /\ entries[i].previous = Pending \/ entries[i].previous = ChainedTo(seen.rows[i])

\* The hash of a finished row was computed from what the row holds.
HashesMatchRows ==
  \A i \in DOMAIN entries : LET hash == entries[i].hash IN
    hash # Pending =>
      /\ hash = PayloadHash(i, entries[i].previous, hash.exact, hash.actor, entries[i].at)
      /\ hash.actor \in Actors
      /\ hash.actor \in Users => entries[i].actor = hash.actor

IInv ==
  /\ TypeOK
  /\ CallsAreChained
  /\ CallsMatchRows
  /\ RowsAreChained
  /\ HashesMatchRows

-----------------------------------------------------------------------------
(* Rows and links                                                          *)

LEMMA RowIsRow ==
  ASSUME TypeOK, NEW i \in DOMAIN entries
  PROVE  /\ entries[i] \in Row /\ i \in Nat \ {0}
         /\ entries[i].hash \in Hashes /\ entries[i].at \in Nat
<1>1. entries[i] \in Row /\ i \in Nat \ {0}
  BY DEF TypeOK
<1>2. QED
  BY <1>1 DEF Row

LEMMA GenesisIsLink == Genesis \in Links /\ Pending \in Links
BY DEF Links

LEMMA LinkIsLink ==
  ASSUME NEW hash \in Hashes
  PROVE  Link(hash) \in Links
BY DEF Link, Links, Hashes, Pending

\* The link to a finished row names it.
LEMMA LinkNamesRow ==
  ASSUME IInv, NEW i \in DOMAIN entries
  PROVE  Link(entries[i].hash) = Pending \/ Link(entries[i].hash) = ChainedTo(i)
<1>1. i # 0
  BY RowIsRow DEF IInv
<1>2. CASE entries[i].hash = Pending
  BY <1>2 DEF Link, Pending
<1>3. CASE entries[i].hash # Pending
  <2>1. PICK exact, actor, at :
          entries[i].hash = PayloadHash(i, entries[i].previous, exact, actor, at)
    BY <1>3 DEF IInv, HashesMatchRows
  <2>2. QED
    BY <1>1, <2>1 DEF Link, ChainedTo, PayloadHash
<1>4. QED
  BY <1>2, <1>3

-----------------------------------------------------------------------------
(* One lemma for each action                                               *)

LEMMA InitIInv == Init => IInv
<1> SUFFICES ASSUME Init PROVE IInv
  OBVIOUS
<1>1. TypeOK
  BY GenesisIsLink, NatBounds DEF Init, TypeOK, Call
<1>2. QED
  BY <1>1 DEF Init, IInv, CallsAreChained, CallsMatchRows, RowsAreChained,
    HashesMatchRows

LEMMA FindLatestIInv ==
  ASSUME IInv, NEW p \in Requests, NEW entity \in Entities, NEW exact \in BOOLEAN,
         NEW actor \in Actors, FindLatest(p, entity, exact, actor)
  PROVE  IInv'
<1> USE DEF IInv, FindLatest
<1> DEFINE previous == IF entries = <<>> THEN Genesis ELSE Link(entries[Len(entries)].hash)
<1>1. Len(entries) \in Nat /\ (entries # <<>> => Len(entries) \in DOMAIN entries)
  BY DEF TypeOK
<1>2. previous \in Links
  <2>1. CASE entries = <<>>
    BY <2>1, GenesisIsLink
  <2>2. CASE entries # <<>>
    <3>1. entries[Len(entries)].hash \in Hashes
      BY <1>1, <2>2, RowIsRow
    <3>2. QED
      BY <3>1, <2>2, LinkIsLink
  <2>3. QED
    BY <2>1, <2>2
<1>3. previous = Pending \/ previous = ChainedTo(Len(entries))
  <2>1. CASE entries = <<>>
    BY <2>1 DEF ChainedTo
  <2>2. CASE entries # <<>>
    BY <1>1, <2>2, LinkNamesRow
  <2>3. QED
    BY <2>1, <2>2
<1>4. call' = [call EXCEPT ![p] = [entity |-> entity, exact |-> exact, actor |-> actor,
                                   at |-> clock, id |-> 0, previous |-> previous]]
  OBVIOUS
<1> HIDE DEF previous
<1>5. TypeOK'
  <2>1. [entity |-> entity, exact |-> exact, actor |-> actor, at |-> clock, id |-> 0,
         previous |-> previous] \in Call
    BY <1>2 DEF TypeOK, Call
  <2>2. QED
    BY <1>1, <1>4, <2>1 DEF TypeOK
<1>6. CallsAreChained'
  BY <1>1, <1>3, <1>4 DEF TypeOK, CallsAreChained
<1>7. CallsMatchRows'
  BY <1>4 DEF TypeOK, CallsMatchRows
<1>8. RowsAreChained' /\ HashesMatchRows'
  BY DEF TypeOK, RowsAreChained, HashesMatchRows
<1>9. QED
  BY <1>5, <1>6, <1>7, <1>8

LEMMA InsertIInv ==
  ASSUME IInv, NEW p \in Requests, Insert(p)
  PROVE  IInv'
<1> USE DEF IInv, Insert
<1> DEFINE n   == Len(entries)
           row == [entity   |-> call[p].entity,
                   actor    |-> IF call[p].actor \in Users THEN call[p].actor ELSE None,
                   hash     |-> Pending,
                   previous |-> call[p].previous,
                   at       |-> clock]
<1>1. row \in Row
  BY DEF TypeOK, Row, Call, Hashes, CallsAreChained
<1>2. n \in Nat /\ entries \in Seq(Row) /\ seen.rows \in Seq(Nat) /\ Len(seen.rows) = n
  BY DEF TypeOK
<1>3. entries' = Append(entries, row)
  OBVIOUS
<1>4. /\ entries' \in Seq(Row) /\ Len(entries') = n + 1 /\ entries'[n + 1] = row
      /\ \A i \in DOMAIN entries : i \in 1 .. n /\ entries'[i] = entries[i]
      /\ DOMAIN entries' = 1 .. n + 1 /\ DOMAIN entries = 1 .. n
  BY <1>1, <1>2, <1>3
<1>5. seen.calls[p] \in Nat /\ seen.calls[p] <= n
  BY <1>2 DEF TypeOK, CallsAreChained
<1>6. /\ seen'.rows \in Seq(Nat) /\ Len(seen'.rows) = n + 1
      /\ seen'.rows[n + 1] = seen.calls[p] /\ seen'.calls = seen.calls
      /\ \A i \in 1 .. n : seen'.rows[i] = seen.rows[i]
  BY <1>2, <1>5
<1>7. call' = [call EXCEPT ![p].id = n + 1]
  OBVIOUS
<1> HIDE DEF n, row
<1>8. TypeOK'
  <2>1. ASSUME NEW c \in Call, NEW k \in Nat
        PROVE  [c EXCEPT !.id = k] \in Call
    <3>1. [c EXCEPT !.id = k] =
            [entity |-> c.entity, exact |-> c.exact, actor |-> c.actor,
             previous |-> c.previous, at |-> c.at, id |-> k]
      BY DEF Call
    <3>2. QED
      BY <3>1 DEF Call
  <2>2. call' \in [Requests -> Call]
    <3>1. call \in [Requests -> Call] /\ n + 1 \in Nat
      BY <1>2 DEF TypeOK
    <3>2. [call[p] EXCEPT !.id = n + 1] \in Call
      BY <2>1, <3>1
    <3>3. QED
      BY <1>7, <3>1, <3>2
  <2>3. QED
    BY <1>2, <1>4, <1>6, <2>2 DEF TypeOK
<1>9. CallsAreChained'
  BY <1>2, <1>4, <1>6, <1>7 DEF TypeOK, CallsAreChained, n
<1>10. CallsMatchRows'
  BY <1>2, <1>4, <1>7 DEF TypeOK, CallsMatchRows, row, Call
<1>11. RowsAreChained'
  <2> SUFFICES ASSUME NEW i \in DOMAIN entries'
               PROVE  /\ seen'.rows[i] < i
                      /\ \/ entries'[i].previous = Pending
                         \/ entries'[i].previous = ChainedTo(seen'.rows[i])
    BY DEF RowsAreChained, ChainedTo
  <2>1. CASE i = n + 1
    BY <1>2, <1>4, <1>5, <1>6, <2>1 DEF CallsAreChained, row
  <2>2. CASE i # n + 1
    BY <1>2, <1>4, <1>6, <2>2 DEF RowsAreChained
  <2>3. QED
    BY <2>1, <2>2
<1>12. HashesMatchRows'
  BY <1>2, <1>4 DEF HashesMatchRows, row, Pending, PayloadHash
<1>13. QED
  BY <1>8, <1>9, <1>10, <1>11, <1>12

LEMMA SetHashIInv ==
  ASSUME IInv, NEW p \in Requests, SetHash(p)
  PROVE  IInv'
<1> USE DEF IInv, SetHash
<1> DEFINE k    == call[p].id
           hash == PayloadHash(k, call[p].previous, call[p].exact, call[p].actor,
                               entries[k].at)
<1>1. k \in DOMAIN entries /\ call[p].actor \in Actors /\ k \in Nat
  BY DEF CallsMatchRows, CallsAreChained, TypeOK, Call
<1>2. hash \in Hashes
  <2>1. call[p] \in Call
    BY DEF TypeOK
  <2>2. call[p].previous \in Links /\ call[p].exact \in BOOLEAN
    BY <2>1 DEF Call
  <2>3. entries[k].at \in Nat
    BY <1>1, RowIsRow
  <2>4. QED
    BY <1>1, <2>2, <2>3 DEF Hashes, PayloadHash
<1>3. entries' = [entries EXCEPT ![k].hash = hash]
  OBVIOUS
<1> HIDE DEF hash
<1>4. /\ DOMAIN entries' = DOMAIN entries /\ Len(entries') = Len(entries)
      /\ \A i \in DOMAIN entries :
           /\ entries'[i] = [entries[i] EXCEPT !.hash = IF i = k THEN hash ELSE @]
           /\ entries'[i] \in Row
  <2>1. entries \in Seq(Row) /\ entries[k] \in Row
    BY <1>1, RowIsRow DEF TypeOK
  <2>2. [entries[k] EXCEPT !.hash = hash] \in Row
    BY <1>2, <2>1 DEF Row
  <2>3. entries' = [entries EXCEPT ![k] = [entries[k] EXCEPT !.hash = hash]]
    BY <1>3
  <2>4. /\ DOMAIN entries' = DOMAIN entries /\ Len(entries') = Len(entries)
        /\ entries'[k] = [entries[k] EXCEPT !.hash = hash]
        /\ \A i \in DOMAIN entries : i # k => entries'[i] = entries[i]
    BY <1>1, <2>1, <2>3
  <2>5. QED
    BY <1>1, <1>2, <2>1, <2>2, <2>4, RowIsRow DEF Row
<1>5. TypeOK'
  BY <1>1, <1>2, <1>3, <1>4 DEF TypeOK
<1>6. \A i \in DOMAIN entries :
        /\ entries'[i].previous = entries[i].previous /\ entries'[i].at = entries[i].at
        /\ entries'[i].actor = entries[i].actor
        /\ entries'[i].hash = IF i = k THEN hash ELSE entries[i].hash
  BY <1>4 DEF TypeOK, Row
<1>7. CallsAreChained'
  BY <1>4 DEF TypeOK, CallsAreChained
<1>8. CallsMatchRows'
  BY <1>4, <1>6 DEF TypeOK, CallsMatchRows
<1>9. RowsAreChained'
  BY <1>4, <1>6 DEF RowsAreChained
<1>10. HashesMatchRows'
  <2>1. /\ hash.actor = call[p].actor
        /\ hash = PayloadHash(k, entries[k].previous, hash.exact, hash.actor, entries[k].at)
        /\ hash.actor \in Users => entries[k].actor = hash.actor
    BY <1>1 DEF hash, PayloadHash, CallsMatchRows
  <2>2. QED
    BY <1>1, <1>4, <1>6, <2>1 DEF HashesMatchRows
<1>11. QED
  BY <1>5, <1>7, <1>8, <1>9, <1>10

LEMMA NextIInv == IInv /\ [Next]_vars => IInv'
<1> SUFFICES ASSUME IInv, [Next]_vars PROVE IInv'
  OBVIOUS
<1>1. CASE \E p \in Requests, entity \in Entities, exact \in BOOLEAN, actor \in Actors :
             FindLatest(p, entity, exact, actor)
  BY <1>1, FindLatestIInv
<1>2. CASE \E p \in Requests : Insert(p)
  BY <1>2, InsertIInv
<1>3. CASE \E p \in Requests : SetHash(p)
  BY <1>3, SetHashIInv
<1>4. CASE \E p \in Requests : Fail(p)
  BY <1>4 DEF Fail, IInv, TypeOK, CallsAreChained, CallsMatchRows, RowsAreChained,
    HashesMatchRows
<1>5. CASE Tick
  BY <1>5 DEF Tick, IInv, TypeOK, CallsAreChained, CallsMatchRows, RowsAreChained,
    HashesMatchRows
<1>6. CASE UNCHANGED vars
  BY <1>6 DEF vars, IInv, TypeOK, CallsAreChained, CallsMatchRows, RowsAreChained,
    HashesMatchRows, ChainedTo
<1>7. QED
  BY <1>1, <1>2, <1>3, <1>4, <1>5, <1>6 DEF Next

-----------------------------------------------------------------------------
(* Theorems                                                                *)

THEOREM Invariance == Spec => []IInv
BY InitIInv, NextIInv, PTL DEF Spec

\* Type correctness: rows, hashes and links have the shapes the repository reads
\* and writes, and what a call found goes with each row.
THEOREM TypeCorrect == Spec => []TypeOK
BY Invariance, PTL DEF IInv

\* What IInv says of one finished entry of a user is that it verifies, if the
\* id of the entity was spelt as it is stored.
LEMMA FinishedVerifies ==
  ASSUME IInv, NEW i \in DOMAIN entries,
         entries[i].hash # Pending, entries[i].hash.actor \in Users, entries[i].hash.exact
  PROVE  Verifies(i)
<1>1. entries[i].actor = entries[i].hash.actor /\ entries[i].actor # None
  BY ActorsDiffer DEF IInv, HashesMatchRows
<1>2. QED
  <2>1. entries[i].hash.exact = TRUE
    <3>1. entries[i].hash \in Hashes /\ entries[i].hash # Pending
      BY RowIsRow DEF IInv
    <3>2. QED
      BY <3>1 DEF Hashes
  <2>2. QED
    BY <1>1, <2>1 DEF IInv, HashesMatchRows, Verifies, ActorOf

\* verifyChainForEntity accepts every entry of a user whose log() has finished and
\* was given the entity's id as it is stored, however many calls ran at the same
\* time or stopped half-way.
THEOREM FinishedIsNotBlamed == Spec => []OnlyUnfinishedIsBlamed
<1>1. IInv => OnlyUnfinishedIsBlamed
  BY FinishedVerifies DEF OnlyUnfinishedIsBlamed, Broken, IInv, HashesMatchRows, Actors
<1>2. QED
  BY <1>1, Invariance, PTL

\* Two finished calls of log() chain to the same entry only when they overlapped:
\* the later one had read the latest entry before the other was inserted.
THEOREM ForkNeedsOverlap == Spec => []ForkedOnlyByOverlap
<1>1. IInv => ForkedOnlyByOverlap
  <2> SUFFICES ASSUME IInv, NEW i \in DOMAIN entries, NEW j \in DOMAIN entries, i < j,
                      entries[i].previous = entries[j].previous,
                      entries[j].previous # Pending
               PROVE  seen.rows[j] < i
    BY DEF ForkedOnlyByOverlap
  <2>1. ChainedTo(seen.rows[i]) = ChainedTo(seen.rows[j]) /\ seen.rows[i] < i
    BY DEF IInv, RowsAreChained
  <2>2. seen.rows[i] \in Nat /\ seen.rows[j] \in Nat
    BY DEF IInv, TypeOK
  <2>3. seen.rows[i] = seen.rows[j]
    BY <2>1, <2>2 DEF ChainedTo, Genesis
  <2>4. QED
    BY <2>1, <2>3
<1>2. QED
  BY <1>1, Invariance, PTL

-----------------------------------------------------------------------------
(* The pages                                                               *)

LEMMA Monotone ==
  ASSUME NEW m \in Int, NEW n \in Int, NEW size \in Nat, m <= n
  PROVE  m * size <= n * size
<1>1. (n - m) \in Nat
  OBVIOUS
<1>2. (n - m) * size \in Nat
  BY <1>1
<1>3. (n - m) * size = n * size - m * size
  OBVIOUS
<1>4. m * size \in Int /\ n * size \in Int
  OBVIOUS
<1>5. QED
  BY <1>2, <1>3, <1>4

LEMMA Quotient ==
  ASSUME NEW r \in Nat, NEW size \in Nat \ {0}
  PROVE  /\ r \div size \in Nat /\ r \div size <= r
         /\ (r \div size) * size <= r /\ r < (r \div size + 1) * size
OBVIOUS

\* Row r from the end is on one page of a given size.
LEMMA OnePage ==
  ASSUME NEW r \in Nat, NEW size \in Nat \ {0}, NEW m \in Nat \ {0}
  PROVE  (m - 1) * size <= r /\ r < m * size <=> m = r \div size + 1
<1> DEFINE q == r \div size
<1>1. q \in Nat /\ q * size <= r /\ r < (q + 1) * size
  BY Quotient
<1> HIDE DEF q
<1>2. CASE m = q + 1
  BY <1>1, <1>2
<1>3. CASE m <= q
  <2>1. m * size <= q * size
    BY <1>1, <1>3, Monotone
  <2>2. m * size \in Int /\ q * size \in Int
    BY <1>1
  <2>3. QED
    BY <1>1, <1>3, <2>1, <2>2
<1>4. CASE q + 1 <= m - 1
  <2>1. (q + 1) * size <= (m - 1) * size
    BY <1>1, <1>4, Monotone
  <2>2. (q + 1) * size \in Int /\ (m - 1) * size \in Int
    BY <1>1
  <2>3. QED
    BY <1>1, <1>4, <2>1, <2>2
<1>5. QED
  BY <1>1, <1>2, <1>3, <1>4 DEF q

\* Every page shows other entries, and every entry is on a page, whatever limit
\* an administrator asks for.
THEOREM PagesPartition == Spec => []PagesPartitionTrail
<1>1. TypeOK => PagesPartitionTrail
  <2> SUFFICES ASSUME TypeOK, NEW limit \in 1 .. PageCap + 1, NEW i \in DOMAIN entries
               PROVE  \E k \in 1 .. Len(entries) : \A m \in 1 .. Len(entries) :
                        i \in Page(m, limit) <=> m = k
    BY DEF PagesPartitionTrail
  <2> DEFINE size == Smaller(limit, PageCap)
             r    == Len(entries) - i
             k    == r \div size + 1
  <2>1. size \in Nat \ {0} /\ Smaller(size, PageCap) = size
    BY NatBounds DEF Smaller
  <2>2. r \in Nat /\ r + 1 <= Len(entries) /\ Len(entries) \in Nat
    BY DEF TypeOK
  <2> HIDE DEF size, r
  <2>3. k \in 1 .. Len(entries)
    BY <2>1, <2>2, Quotient
  <2>4. ASSUME NEW m \in 1 .. Len(entries)
        PROVE  i \in Page(m, limit) <=> m = k
    <3>1. i \in Page(m, limit) <=> r \in (m - 1) * size .. (m - 1) * size + size - 1
      BY <2>1 DEF Page, Found, size, r
    <3>2. (m - 1) * size \in Int /\ (m - 1) * size + size = m * size
      BY <2>1, <2>2
    <3>3. m \in Nat \ {0}
      BY <2>2
    <3>4. r \in (m - 1) * size .. (m - 1) * size + size - 1
            <=> (m - 1) * size <= r /\ r < m * size
      BY <2>1, <2>2, <3>2
    <3>5. QED
      BY <2>1, <2>2, <3>1, <3>3, <3>4, OnePage
  <2>5. QED
    BY <2>3, <2>4
<1>2. QED
  BY <1>1, TypeCorrect, PTL
=============================================================================

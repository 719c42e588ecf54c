------------------------------- MODULE Audit -------------------------------
(***************************************************************************)
(* The audit trail: a table of entries, each with a hash over its contents *)
(* and over the hash of the entry before it.  log() is three statements of *)
(* the global client, whatever transaction its caller is in: read the      *)
(* latest entry, insert a row whose hash is the text PENDING, and replace  *)
(* that text by the hash computed with the time the database gave the row. *)
(* A handler may fail or the server may stop between any two of them.      *)
(*                                                                         *)
(* SHA-256 is modelled as injective: a hash is the contents it was         *)
(* computed from.  Event type and payload are written and hashed by the    *)
(* same log() and never change, so that the entry's id stands for them.    *)
(* The id of the entity is hashed as it was given, in capitals if a path   *)
(* or a body had it so, but the column gives it back in small letters.     *)
(* An actor that is not a UUID ('driver-timeout-worker', 'cli-script') is  *)
(* hashed but stored as NULL, which is read as 'SYSTEM'.                   *)
(***************************************************************************)
EXTENDS Naturals, Sequences

CONSTANTS
  Requests,    \* calls of log() that run at the same time
  Entities,    \* the orders, listings and users entries are about
  Users,       \* actors with a UUID
  Programs,    \* actors named otherwise
  System,      \* 'SYSTEM', the actor a stored NULL is read as
  None,        \* no entity, no actor
  MaxEntries,  \* bound: entries of the trail
  MaxClock,    \* bound: the last second of the clock
  PageCap      \* rows of the largest page, 50 in the code

ASSUME ActorsDiffer ==
  /\ System \notin Users \cup Programs /\ Users \cap Programs = {}
  /\ None \notin Users
ASSUME NatBounds == MaxEntries \in Nat /\ MaxClock \in Nat /\ PageCap \in Nat \ {0}

VARIABLES
  entries,  \* rows of audit_trail in the order of their ids
  clock,    \* seconds, as truncateToSeconds leaves them
  pc,       \* the statement a call of log() has come to
  call,     \* the arguments and local variables of a call of log()
  seen      \* history: entries a call found, and those the call of each entry had found

vars == <<entries, clock, pc, call, seen>>

Actors == Users \cup Programs

Pending == [kind |-> "pending"]
Genesis == [kind |-> "genesis"]

\* computePayloadHash: id stands for the event, the entity and the payload, and
\* exact says whether the entity's id is spelt as the column gives it back.
PayloadHash(id, previous, exact, actor, at) ==
  [kind |-> "hash", id |-> id, previous |-> previous, exact |-> exact, actor |-> actor, at |-> at]

\* The hashes an entry may name: the contents of the entry it is chained to
\* are those of its id, which is all that is kept of them.
Link(hash) == IF hash.kind = "hash" THEN [kind |-> "link", id |-> hash.id] ELSE hash

Init ==
  /\ entries = <<>>
  /\ clock   = 0
  /\ pc      = [p \in Requests |-> "idle"]
  /\ call    = [p \in Requests |-> [entity |-> None, exact |-> TRUE, actor |-> None,
                                    previous |-> Genesis, at |-> 0, id |-> 0]]
  /\ seen  = [calls |-> [p \in Requests |-> 0], rows |-> <<>>]

-----------------------------------------------------------------------------
(* AuditService.log and PrismaAuditRepository.create                       *)

\* Mutation: the first entry instead of the last one.
FindFirst(p, entity, exact, actor) ==
  /\ pc[p] = "idle" /\ Len(entries) < MaxEntries
  /\ call' = [call EXCEPT ![p] =
         [entity |-> entity, exact |-> exact, actor |-> actor, at |-> clock, id |-> 0,
          previous |-> IF entries = <<>> THEN Genesis ELSE Link(entries[1].hash)]]
  /\ seen' = [seen EXCEPT !.calls[p] = Len(entries)]
  /\ pc' = [pc EXCEPT ![p] = "insert"]
  /\ UNCHANGED <<entries, clock>>

FindLatest(p, entity, exact, actor) ==
  /\ pc[p] = "idle" /\ Len(entries) < MaxEntries
  /\ call' = [call EXCEPT ![p] =
         [entity |-> entity, exact |-> exact, actor |-> actor, at |-> clock, id |-> 0,
          previous |-> IF entries = <<>> THEN Genesis ELSE Link(entries[Len(entries)].hash)]]
  /\ seen' = [seen EXCEPT !.calls[p] = Len(entries)]
  /\ pc' = [pc EXCEPT ![p] = "insert"]
  /\ UNCHANGED <<entries, clock>>

\* Mutation: an actor that is not a UUID is stored.
InsertAnyActor(p) ==
  /\ pc[p] = "insert" /\ Len(entries) < MaxEntries
  /\ entries' = Append(entries,
         [entity |-> call[p].entity, actor |-> call[p].actor, hash |-> Pending,
          previous |-> call[p].previous, at |-> clock])
  /\ seen' = [seen EXCEPT !.rows = Append(@, seen.calls[p])]
  /\ call' = [call EXCEPT ![p].id = Len(entries) + 1]
  /\ pc' = [pc EXCEPT ![p] = "hash"]
  /\ UNCHANGED clock

Insert(p) ==
  /\ pc[p] = "insert" /\ Len(entries) < MaxEntries
  /\ entries' = Append(entries,
         [entity   |-> call[p].entity,
          actor    |-> IF call[p].actor \in Users THEN call[p].actor ELSE None,
          hash     |-> Pending,
          previous |-> call[p].previous,
          at       |-> clock])
  /\ seen' = [seen EXCEPT !.rows = Append(@, seen.calls[p])]
  /\ call' = [call EXCEPT ![p].id = Len(entries) + 1]
  /\ pc' = [pc EXCEPT ![p] = "hash"]
  /\ UNCHANGED clock

\* Mutation: the hash of log(), with the time of the server, is kept.
SetHashOfCall(p) ==
  /\ pc[p] = "hash"
  /\ LET c == call[p]
     IN  entries' = [entries EXCEPT ![c.id].hash =
                         PayloadHash(c.id, c.previous, c.exact, c.actor, c.at)]
  /\ pc' = [pc EXCEPT ![p] = "idle"]
  /\ UNCHANGED <<clock, call, seen>>

SetHash(p) ==
  /\ pc[p] = "hash"
  /\ LET c == call[p]
     IN  entries' = [entries EXCEPT ![c.id].hash =
                         PayloadHash(c.id, c.previous, c.exact, c.actor, entries[c.id].at)]
  /\ pc' = [pc EXCEPT ![p] = "idle"]
  /\ UNCHANGED <<clock, call, seen>>

\* A statement fails or the server stops: the call is not resumed.
Fail(p) ==
  /\ pc[p] \in {"insert", "hash"}
  /\ pc' = [pc EXCEPT ![p] = "idle"]
  /\ UNCHANGED <<entries, clock, call, seen>>

Tick ==
  /\ clock < MaxClock
  /\ clock' = clock + 1
  /\ UNCHANGED <<entries, pc, call, seen>>

Next ==
  \/ \E p \in Requests, entity \in Entities, exact \in BOOLEAN, actor \in Actors :
       FindLatest(p, entity, exact, actor)
  \/ \E p \in Requests : Insert(p) \/ SetHash(p) \/ Fail(p)
  \/ Tick

Spec == Init /\ [][Next]_vars

-----------------------------------------------------------------------------
(* What an administrator reads                                             *)

\* mapPrismaToAuditEntry: the actor of a row.
ActorOf(i) == IF entries[i].actor = None THEN System ELSE entries[i].actor

\* verifyChainForEntity: the entries whose hash is not the one recomputed from
\* the row, oldest first.  Neighbours are not compared with each other.
Verifies(i) ==
  entries[i].hash = PayloadHash(i, entries[i].previous, TRUE, ActorOf(i), entries[i].at)

Broken(entity) == {i \in DOMAIN entries : entries[i].entity = entity /\ ~Verifies(i)}

Smaller(m, n) == IF m < n THEN m ELSE n

\* findFiltered: the ids it returns, newest first.  It takes no more than a full
\* page, but skips as many as it was asked for.
Found(page, limit) ==
  LET skip == (page - 1) * limit
  IN  {i \in DOMAIN entries : Len(entries) - i \in skip .. skip + Smaller(limit, PageCap) - 1}

\* Mutation: the handler leaves the limit to the repository.
PageHalfCapped(page, limit) == Found(page, limit)

\* getAuditLogsHandler: the limit is capped before it is passed on.
Page(page, limit) == Found(page, Smaller(limit, PageCap))

-----------------------------------------------------------------------------
(* Properties                                                              *)

Links  == {Genesis, Pending} \cup [kind : {"link"}, id : Nat]
Hashes == {Pending} \cup
  [kind : {"hash"}, id : Nat, previous : Links, exact : BOOLEAN, actor : Actors, at : Nat]
Row    == [entity : Entities, actor : Users \cup {None}, hash : Hashes,
           previous : Links, at : Nat]
Call   == [entity : Entities \cup {None}, exact : BOOLEAN, actor : Actors \cup {None},
           previous : Links, at : Nat, id : Nat]

\* The types of all variables.
TypeOK ==
  /\ entries      \in Seq(Row)
  /\ clock        \in Nat
  /\ pc           \in [Requests -> {"idle", "insert", "hash"}]
  /\ call         \in [Requests -> Call]
  /\ seen.calls \in [Requests -> Nat]
  /\ seen.rows  \in Seq(Nat)
  /\ Len(seen.rows) = Len(entries)

\* The verification reports an entry as tampered with only when its log() has
\* not finished, or never will, when its actor was not a UUID, or when the id of
\* its entity was not spelt as the column gives it back: it accepts every other
\* finished entry of a user, whatever second it was computed in.
OnlyUnfinishedIsBlamed ==
  \A entity \in Entities : \A i \in Broken(entity) :
    \/ entries[i].hash = Pending
    \/ entries[i].hash.actor \in Programs
    \/ ~entries[i].hash.exact

\* Two entries are chained to the same one, or to nothing, only when their
\* calls overlapped: the later one had read the latest entry before the other
\* was inserted.  Entries chained to unfinished ones all carry PENDING.
ForkedOnlyByOverlap ==
  \A i, j \in DOMAIN entries :
    (i < j /\ entries[i].previous = entries[j].previous /\ entries[j].previous # Pending)
      => seen.rows[j] < i

\* Whatever limit is asked for, the pages show every entry once: the repository
\* alone would leave entries out, the handler's cap agrees with its own.
PagesPartitionTrail ==
  \A limit \in 1 .. PageCap + 1 : \A i \in DOMAIN entries :
    \E k \in 1 .. Len(entries) : \A m \in 1 .. Len(entries) :
      i \in Page(m, limit) <=> m = k

=============================================================================

------------------------------ MODULE Profiles ------------------------------
(***************************************************************************)
(* What users keep about themselves: delivery addresses, one of which is   *)
(* the default, the tokens of their devices, and the Mobile Money account  *)
(* they are paid to, whose number is encrypted with the key the server was *)
(* started with.  Handlers are several statements without a transaction.   *)
(*                                                                         *)
(* AES-GCM is modelled by what it does: a number that was encrypted comes  *)
(* back under the same key and fails under another one, or none.  Labels,  *)
(* regions, pictures and preferences are left out; the availability of a   *)
(* driver, which the profile form also writes, is in module Dispatch.      *)
(***************************************************************************)
EXTENDS Naturals, FiniteSets

CONSTANTS
  Requests,    \* handlers that run at the same time
  Users,
  Tokens,      \* push tokens of devices, which change hands
  Keys,        \* values of FIELD_ENCRYPTION_KEY
  NoKey,       \* FIELD_ENCRYPTION_KEY is not set
  None,        \* no user, no token
  MaxHandlers, \* bound: handlers started
  MaxRestarts, \* bound: restarts with another key
  MaxFailures  \* bound: handlers that fail

ASSUME ConstantsDiffer == NoKey \notin Keys /\ None \notin Users \cup Tokens
ASSUME NatBounds == MaxHandlers \in Nat /\ MaxRestarts \in Nat /\ MaxFailures \in Nat

VARIABLES
  book,      \* rows of delivery_addresses of a user
  created,   \* addresses created; numbers them in the order of created_at
  device,    \* rows of user_device_tokens: the user of an active token, or None
  legacy,    \* users.fcm_token, which nothing writes any more
  payout,    \* momo_number and momo_network of a user; history: alone, whether one of
             \* them has come without the other since a form gave both
  gives,     \* which of them the form of a handler gives
  key,       \* the key of the running server
  pc,        \* the statement a handler has come to
  req,       \* the arguments and local variables of a handler
  disturbed, \* history: what may have cost a user the one default address
  holder,    \* history: who registered a token last and has not removed it
  started,   \* handlers started; numbers payout details
  restarts,
  failures

addresses == <<book, created, disturbed>>
tokens    == <<device, legacy, holder>>
money     == <<payout, gives>>
counts    == <<restarts, failures>>
vars      == <<addresses, tokens, money, key, pc, req, started, counts>>

Parts    == {"number", "network"}
NoNumber == [under |-> NoKey, of |-> 0]
Idle == [user |-> None, id |-> 0, default |-> "unsaid"]

Init ==
  /\ book      = [u \in Users |-> {}]
  /\ created   = 0
  /\ device    = [t \in Tokens |-> None]
  /\ legacy    \in [Users -> Tokens \cup {None}]
  /\ payout    = [u \in Users |-> [number |-> NoNumber, network |-> 0, alone |-> FALSE]]
  /\ gives     = [p \in Requests |-> {}]
  /\ key       \in Keys \cup {NoKey}
  /\ pc        = [p \in Requests |-> "idle"]
  /\ req       = [p \in Requests |-> Idle]
  /\ disturbed = [u \in Users |-> {}]
  /\ holder    = [t \in Tokens |-> None]
  /\ started   = 0
  /\ restarts  = 0
  /\ failures  = 0

-----------------------------------------------------------------------------
(* AddressService                                                          *)

AddressSteps == {"clear_new", "insert", "clear", "write", "delete", "remaining", "promote"}

\* Of some rows, those that are marked as the default.
Marked(rows)  == {a \in rows : a.default}
Defaults(u)   == Marked(book[u])
Has(rows, id) == \E a \in rows : a.id = id

\* Requests that are at work on the addresses of a user.
Working(u) == {p \in Requests : pc[p] \in AddressSteps /\ req[p].user = u}

Start(p, u, id, default, step) ==
  /\ pc[p] = "idle" /\ started < MaxHandlers
  /\ started' = started + 1
  /\ pc' = [pc EXCEPT ![p] = step]
  /\ req' = [req EXCEPT ![p] = [user |-> u, id |-> id, default |-> default]]

StartAddress(p, u, id, default, step) ==
  /\ Start(p, u, id, default, step)
  /\ disturbed' = [disturbed EXCEPT ![u] = @ \cup IF Working(u) = {} THEN {} ELSE {"overlap"}]
  /\ UNCHANGED <<book, created, tokens, money, key, counts>>

\* Whether nobody has to set a default, now that handler p has left the rows of u so.
Settled(p, u, rows) ==
  /\ Working(u) \subseteq {p}
  /\ rows = {} \/ \E a \in rows : Marked(rows) = {a}

Leave(p) ==
  /\ pc' = [pc EXCEPT ![p] = "idle"] /\ req' = [req EXCEPT ![p] = Idle]
  /\ gives' = [gives EXCEPT ![p] = {}]

\* Handler p has written the rows of u, and returns, or throws.
Finish(p, u, rows, why) ==
  /\ Leave(p)
  /\ book' = [book EXCEPT ![u] = rows]
  /\ disturbed' = [disturbed EXCEPT ![u] = IF Settled(p, u, rows) THEN {} ELSE @ \cup why]
  /\ UNCHANGED <<tokens, payout, key, started, counts>>

Set(rows, id, default) ==
  {IF a.id = id THEN [a EXCEPT !.default = default] ELSE a : a \in rows}

\* Mutation: the first address is the default only if asked for.
CreateAddressAsAsked(p, u, default) ==
  StartAddress(p, u, 0, default, IF default = "yes" /\ book[u] # {} THEN "clear_new" ELSE "insert")

\* createAddress: the first address is the default whatever was asked for.
CreateAddress(p, u, default) ==
  LET first == book[u] = {}
  IN  StartAddress(p, u, 0, IF first THEN "yes" ELSE default,
                   IF default = "yes" /\ ~first THEN "clear_new" ELSE "insert")

\* updateAddress of an address of one's own
UpdateAddress(p, u, a, default) ==
  StartAddress(p, u, a.id, default, IF default = "yes" THEN "clear" ELSE "write")

\* deleteAddress keeps the row it has read.
DeleteAddress(p, u, a) ==
  StartAddress(p, u, a.id, IF a.default THEN "yes" ELSE "no", "delete")

ClearDefault(p) ==
  LET u == req[p].user
  IN  /\ pc[p] \in {"clear_new", "clear"}
      /\ book' = [book EXCEPT ![u] = {[a EXCEPT !.default = FALSE] : a \in @}]
      /\ pc' = [pc EXCEPT ![p] = IF @ = "clear" THEN "write" ELSE "insert"]
      /\ UNCHANGED <<created, disturbed, tokens, money, key, req, started, counts>>

InsertAddress(p) ==
  LET u   == req[p].user
      row == [id |-> created + 1, default |-> req[p].default = "yes"]
  IN  /\ pc[p] = "insert"
      /\ created' = created + 1
      /\ Finish(p, u, book[u] \cup {row}, {})

\* An update of a row that is gone throws.
WriteAddress(p) ==
  LET u == req[p].user
      r == req[p]
  IN  /\ pc[p] = "write"
      /\ Finish(p, u,
                IF r.default = "unsaid" THEN book[u] ELSE Set(book[u], r.id, r.default = "yes"),
                IF r.default = "no" THEN {"unset"} ELSE {})
      /\ UNCHANGED created

\* So does the removal of one.
RemoveAddress(p) ==
  LET u    == req[p].user
      rows == {a \in book[u] : a.id # req[p].id}
  IN  /\ pc[p] = "delete"
      /\ UNCHANGED created
      /\ IF Has(book[u], req[p].id) /\ req[p].default = "yes"
         THEN /\ book' = [book EXCEPT ![u] = rows]
              /\ pc' = [pc EXCEPT ![p] = "remaining"]
              /\ UNCHANGED <<disturbed, tokens, money, key, req, started, counts>>
         ELSE Finish(p, u, rows, {})

\* findManyByUser: the default first, then the oldest.
First(rows) ==
  LET best == IF Marked(rows) = {} THEN rows ELSE Marked(rows)
  IN  CHOOSE a \in best : \A b \in best : a.id <= b.id

FindRemaining(p) ==
  LET u == req[p].user
  IN  /\ pc[p] = "remaining"
      /\ IF book[u] = {} THEN Finish(p, u, {}, {}) /\ UNCHANGED created
         ELSE /\ pc' = [pc EXCEPT ![p] = "promote"]
              /\ req' = [req EXCEPT ![p].id = First(book[u]).id]
              /\ UNCHANGED <<addresses, tokens, money, key, started, counts>>

Promote(p) ==
  LET u == req[p].user
  IN  /\ pc[p] = "promote"
      /\ Finish(p, u, Set(book[u], req[p].id, TRUE), {})
      /\ UNCHANGED created

-----------------------------------------------------------------------------
(* Device tokens                                                           *)

\* The upsert by token, which hands a device over to another user.
RegisterToken(u, t) ==
  /\ started < MaxHandlers
  /\ started' = started + 1
  /\ device' = [device EXCEPT ![t] = u]
  /\ holder' = [holder EXCEPT ![t] = u]
  /\ UNCHANGED <<addresses, legacy, money, key, pc, req, counts>>

\* Mutation: the token is deactivated whoever has it.
RemoveAnyToken(u, t) ==
  /\ started < MaxHandlers
  /\ started' = started + 1
  /\ device' = [device EXCEPT ![t] = None]
  /\ holder' = [holder EXCEPT ![t] = IF @ = u THEN None ELSE @]
  /\ UNCHANGED <<addresses, legacy, money, key, pc, req, counts>>

RemoveToken(u, t) ==
  /\ started < MaxHandlers
  /\ started' = started + 1
  /\ device' = [device EXCEPT ![t] = IF @ = u THEN None ELSE @]
  /\ holder' = [holder EXCEPT ![t] = IF @ = u THEN None ELSE @]
  /\ UNCHANGED <<addresses, legacy, money, key, pc, req, counts>>

\* findActiveDeviceTokens
ActiveTokens(u) == {t \in Tokens : device[t] = u} \cup ({legacy[u]} \ {None})

-----------------------------------------------------------------------------
(* UserService.updateProfile and the encryption of the payout number       *)

Error    == [is |-> "error"]
Envelope == [is |-> "envelope"]
Number(n) == [is |-> "number", of |-> n]

\* Mutation: without a key nothing takes the place of the key.
EncryptAnyway(n) == [under |-> IF key = NoKey THEN None ELSE key, of |-> n]

\* A number never looks like an envelope: the form takes +233 and nine digits only.
Encrypt(n) == [under |-> key, of |-> n]

\* Mutation: without a key an envelope is returned as it is.
DecryptOrPass(stored) ==
  IF stored.under = NoKey \/ stored.under = key THEN Number(stored.of)
  ELSE IF key = NoKey THEN Envelope ELSE Error

Decrypt(stored) ==
  IF stored.under \in {NoKey, key} THEN Number(stored.of) ELSE Error

\* mapPrismaToUser, which every read of a user goes through; a number that
\* cannot be decrypted makes the whole row unreadable.
Readable(u) == Decrypt(payout[u].number) # Error

\* Name, number and network are each given or not.
PatchProfile(p, u, named, parts) ==
  /\ Start(p, u, started + 1, "unsaid", IF named THEN "name" ELSE "columns")
  /\ gives' = [gives EXCEPT ![p] = parts]
  /\ UNCHANGED <<addresses, tokens, payout, key, counts>>

\* update({name}) ends with a read of the user.
WriteName(p) ==
  /\ pc[p] = "name"
  /\ IF Readable(req[p].user)
     THEN pc' = [pc EXCEPT ![p] = "columns"] /\ UNCHANGED <<req, gives>>
     ELSE Leave(p)
  /\ UNCHANGED <<addresses, tokens, payout, key, started, counts>>

\* One statement for all columns of the form; the others stay as they are.
WriteColumns(p) ==
  LET u   == req[p].user
      old == payout[u]
      row == [number  |-> IF "number" \in gives[p] THEN Encrypt(req[p].id) ELSE old.number,
              network |-> IF "network" \in gives[p] THEN req[p].id ELSE old.network,
              alone   |-> gives[p] # Parts /\ (old.alone \/ gives[p] # {})]
  IN  /\ pc[p] = "columns"
      /\ payout' = [payout EXCEPT ![u] = row]
      /\ Leave(p)
      /\ UNCHANGED <<addresses, tokens, key, started, counts>>

-----------------------------------------------------------------------------
(* Failures and restarts                                                   *)

Fail(p) ==
  /\ pc[p] # "idle" /\ failures < MaxFailures
  /\ failures' = failures + 1
  /\ disturbed' = [disturbed EXCEPT ![req[p].user] =
                     IF pc[p] \in AddressSteps THEN @ \cup {"failure"} ELSE @]
  /\ Leave(p)
  /\ UNCHANGED <<book, created, tokens, payout, key, started, restarts>>

\* The server stops, with what it was doing, and starts with another key.
Restart(k) ==
  /\ restarts < MaxRestarts
  /\ restarts' = restarts + 1
  /\ key' = k
  /\ disturbed' = [u \in Users |-> disturbed[u] \cup IF Working(u) = {} THEN {} ELSE {"failure"}]
  /\ pc' = [p \in Requests |-> "idle"]
  /\ req' = [p \in Requests |-> Idle]
  /\ gives' = [p \in Requests |-> {}]
  /\ UNCHANGED <<book, created, tokens, payout, started, failures>>

Handle(p) ==
  \/ ClearDefault(p) \/ InsertAddress(p) \/ WriteAddress(p)
  \/ RemoveAddress(p) \/ FindRemaining(p) \/ Promote(p)
  \/ WriteName(p) \/ WriteColumns(p)

Next ==
  \/ \E p \in Requests, u \in Users :
       \/ \E default \in {"yes", "no"} : CreateAddress(p, u, default)
       \/ \E a \in book[u] :
            \/ \E default \in {"yes", "no", "unsaid"} : UpdateAddress(p, u, a, default)
            \/ DeleteAddress(p, u, a)
       \/ \E named \in BOOLEAN, parts \in SUBSET Parts : PatchProfile(p, u, named, parts)
  \/ \E u \in Users, t \in Tokens : RegisterToken(u, t) \/ RemoveToken(u, t)
  \/ \E p \in Requests : Handle(p) \/ Fail(p)
  \/ \E k \in Keys \cup {NoKey} : Restart(k)

Spec == Init /\ [][Next]_vars

-----------------------------------------------------------------------------
(* Properties                                                              *)

\* The types of all variables, and whose handlers are at work.
TypeOK ==
  /\ book \in [Users -> SUBSET [id : Nat \ {0}, default : BOOLEAN]]
  /\ created \in Nat
  /\ device \in [Tokens -> Users \cup {None}] /\ holder \in [Tokens -> Users \cup {None}]
  /\ legacy \in [Users -> Tokens \cup {None}]
  /\ payout \in [Users -> [number  : [under : Keys \cup {NoKey}, of : Nat],
                           network : Nat, alone : BOOLEAN]]
  /\ gives \in [Requests -> SUBSET Parts]
  /\ key \in Keys \cup {NoKey}
  /\ pc \in [Requests -> AddressSteps \cup {"idle", "name", "columns"}]
  /\ req \in [Requests -> [user : Users \cup {None}, id : Nat, default : {"yes", "no", "unsaid"}]]
  /\ \A p \in Requests : pc[p] # "idle" => req[p].user \in Users
  /\ disturbed \in [Users -> SUBSET {"overlap", "failure", "unset"}]
  /\ started \in 0 .. MaxHandlers /\ restarts \in 0 .. MaxRestarts
  /\ failures \in 0 .. MaxFailures

\* Of a user's addresses one is the default ("there is no meaningful not
\* default state", createAddress).  Two are only after requests that
\* overlapped, and none is only after such requests, after one that failed
\* half-way, or after the user took the mark away from the default itself.
DefaultIsKept ==
  \A u \in Users :
    /\ Cardinality(Defaults(u)) > 1 => "overlap" \in disturbed[u]
    /\ (Working(u) = {} /\ book[u] # {} /\ Defaults(u) = {}) => disturbed[u] # {}

\* A device gets the messages of the user who registered it last, also when
\* the removal by the one before him arrives late; the legacy column, which a
\* removal does not reach, is the only exception.
TokenFollowsDevice ==
  \A u \in Users, t \in Tokens :
    /\ holder[t] = u => t \in ActiveTokens(u)
    /\ t \in ActiveTokens(u) => (holder[t] = u \/ legacy[u] = t)

\* A payout is made to a number and a network of one and the same form, unless
\* the user has since given one of them without the other, or he cannot be read
\* at all: never to a mixture of two whole forms that were sent at once, nor to
\* an envelope, whatever keys the server was started with.
PayoutIsOfOneForm ==
  \A u \in Users :
    LET shown == Decrypt(payout[u].number)
    IN  \/ shown \in {Error, Number(payout[u].network)}
        \/ payout[u].alone /\ shown = Number(payout[u].number.of)
=============================================================================

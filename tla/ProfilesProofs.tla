--------------------------- MODULE ProfilesProofs ---------------------------
(***************************************************************************)
(* Proofs of the safety properties of module Profiles, for any users,      *)
(* handlers, tokens, keys and bounds.                                      *)
(***************************************************************************)
EXTENDS Profiles, Integers, FiniteSetTheorems, TLAPS

\* What a handler that is alone at work on the rows of a user has seen to: before
\* it marks a row no other is, and the row it removes was the marked one.
AloneAt(rows, r, step) ==
  /\ step = "insert" /\ r.default = "yes" => Marked(rows) = {}
  /\ step = "write" /\ r.default = "yes" => Marked(rows) = {}
  /\ step \in {"remaining", "promote"} => Marked(rows) = {}
  /\ step = "delete" /\ r.default = "yes" => \A a \in Marked(rows) : a.id = r.id

\* Where nothing has disturbed it there is a row for it to mark, or a marked one
\* it leaves alone.
SettlesAt(rows, r, step) ==
  /\ step = "insert" /\ r.default # "yes" => Marked(rows) # {}
  /\ step = "write" /\ r.default = "yes" => Has(rows, r.id)
  /\ step = "write" /\ r.default = "unsaid" => Marked(rows) # {}
  /\ step = "clear" => Has(rows, r.id)
  /\ step = "promote" => Has(rows, r.id)
  /\ step = "delete" /\ r.default = "yes" => Has(rows, r.id)
  /\ step = "delete" /\ r.default # "yes" => \E a \in Marked(rows) : a.id # r.id

\* At most one row of some is marked.
AtMostOne(rows) == \A a, b \in Marked(rows) : a = b

\* Without an overlap a handler works alone, and there are never two defaults.
CalmInv(u) ==
  "overlap" \notin disturbed[u] =>
    /\ AtMostOne(book[u])
    /\ \A p \in Working(u) : Working(u) = {p} /\ AloneAt(book[u], req[p], pc[p])

\* Undisturbed, the handlers see to it that there is a default in the end.
SettledInv(u) ==
  disturbed[u] = {} =>
    /\ Working(u) = {} /\ book[u] # {} => Marked(book[u]) # {}
    /\ \A p \in Working(u) : SettlesAt(book[u], req[p], pc[p])

\* What a handler that clears the marks does it for.
ClearInv == \A p \in Requests : pc[p] \in {"clear_new", "clear"} => req[p].default = "yes"

\* Numbers of addresses are not used twice.
NumberInv ==
  \A u \in Users :
    /\ \A a \in book[u] : a.id <= created
    /\ \A a, b \in book[u] : a.id = b.id => a = b

DefaultInv == \A u \in Users : CalmInv(u) /\ SettledInv(u)

\* An active token is that of the user who registered it last.
TokenInv == \A t \in Tokens : device[t] = holder[t]

\* Number and network are of one form, or one came without the other since.
FormInv ==
  \A u \in Users : payout[u].alone \/ payout[u].number.of = payout[u].network

IInv ==
  /\ TypeOK
  /\ ClearInv
  /\ NumberInv
  /\ DefaultInv
  /\ TokenInv
  /\ FormInv

-----------------------------------------------------------------------------
(* Rows                                                                    *)

Addresses == [id : Nat \ {0}, default : BOOLEAN]

\* Rows of one user, of which n have been created at most.
Numbered(rows, n) ==
  /\ rows \in SUBSET Addresses
  /\ \A a \in rows : a.id <= n
  /\ \A a, b \in rows : a.id = b.id => a = b

LEMMA NumberedRows == TypeOK /\ NumberInv => \A u \in Users : Numbered(book[u], created)
BY DEF TypeOK, NumberInv, Numbered, Addresses

\* clearDefaultForUser: no row is marked, and none is added or lost.
LEMMA ClearedRows ==
  ASSUME NEW n \in Nat, NEW rows, Numbered(rows, n), NEW cleared,
         cleared = {[a EXCEPT !.default = FALSE] : a \in rows}
  PROVE  /\ Numbered(cleared, n) /\ Marked(cleared) = {}
         /\ \A id : Has(rows, id) => Has(cleared, id)
<1>1. \A a \in rows : /\ [a EXCEPT !.default = FALSE] \in Addresses
                      /\ [a EXCEPT !.default = FALSE].id = a.id
                      /\ [a EXCEPT !.default = FALSE].default = FALSE
  BY DEF Numbered, Addresses
<1>2. \A x \in cleared : \E a \in rows : x = [a EXCEPT !.default = FALSE]
  OBVIOUS
<1>3. cleared \in SUBSET Addresses /\ \A x \in cleared : x.id <= n /\ x.default = FALSE
  <2> SUFFICES ASSUME NEW x \in cleared
               PROVE  x \in Addresses /\ x.id <= n /\ x.default = FALSE
    OBVIOUS
  <2>1. PICK a \in rows : x = [a EXCEPT !.default = FALSE]
    BY <1>2
  <2>2. a.id <= n
    BY DEF Numbered
  <2>3. QED
    BY <1>1, <2>1, <2>2
<1>4. \A x, y \in cleared : x.id = y.id => x = y
  <2> SUFFICES ASSUME NEW x \in cleared, NEW y \in cleared, x.id = y.id PROVE x = y
    OBVIOUS
  <2>1. PICK a \in rows : x = [a EXCEPT !.default = FALSE]
    BY <1>2
  <2>2. PICK b \in rows : y = [b EXCEPT !.default = FALSE]
    BY <1>2
  <2>3. a = b
    BY <1>1, <2>1, <2>2 DEF Numbered
  <2>4. QED
    BY <2>1, <2>2, <2>3
<1>5. ASSUME NEW id, Has(rows, id) PROVE Has(cleared, id)
  <2>1. PICK a \in rows : a.id = id
    BY <1>5 DEF Has
  <2>2. [a EXCEPT !.default = FALSE] \in cleared
    OBVIOUS
  <2>3. QED
    BY <1>1, <2>1, <2>2 DEF Has
<1>6. QED
  BY <1>3, <1>4, <1>5 DEF Numbered, Marked

\* update: the row of that number is marked, or is not.
LEMMA SetRows ==
  ASSUME NEW n \in Nat, NEW rows, Numbered(rows, n), NEW id, NEW default \in BOOLEAN
  PROVE  /\ Numbered(Set(rows, id, default), n)
         /\ AtMostOne(rows) /\ ~ default => AtMostOne(Set(rows, id, default))
         /\ Marked(rows) = {} => AtMostOne(Set(rows, id, default))
         /\ Has(rows, id) /\ default => Marked(Set(rows, id, default)) # {}
<1> DEFINE new(a) == IF a.id = id THEN [a EXCEPT !.default = default] ELSE a
           S == Set(rows, id, default)
<1>1. \A a \in rows : /\ new(a) \in Addresses /\ new(a).id = a.id
                      /\ a.id = id => new(a).default = default
                      /\ a.id # id => new(a) = a
  BY DEF Numbered, Addresses
<1>2. S = {new(a) : a \in rows}
  BY DEF Set
<1> HIDE DEF new, S
<1>3. \A x \in S : \E a \in rows : x = new(a)
  BY <1>2
<1>4. S \in SUBSET Addresses /\ \A x \in S : x.id <= n
  BY <1>1, <1>3 DEF Numbered
<1>5. \A x, y \in S : x.id = y.id => x = y
  <2> SUFFICES ASSUME NEW x \in S, NEW y \in S, x.id = y.id PROVE x = y
    OBVIOUS
  <2>1. PICK a \in rows : x = new(a)
    BY <1>3
  <2>2. PICK b \in rows : y = new(b)
    BY <1>3
  <2>3. a = b
    BY <1>1, <2>1, <2>2 DEF Numbered
  <2>4. QED
    BY <2>1, <2>2, <2>3
<1>6. ASSUME AtMostOne(rows), ~ default PROVE AtMostOne(S)
  <2> SUFFICES ASSUME NEW x \in Marked(S), NEW y \in Marked(S) PROVE x = y
    BY DEF AtMostOne
  <2>1. PICK a \in rows : x = new(a)
    BY <1>3 DEF Marked
  <2>2. PICK b \in rows : y = new(b)
    BY <1>3 DEF Marked
  <2>3. a.id # id /\ b.id # id
    BY <1>1, <1>6, <2>1, <2>2 DEF Marked
  <2>4. a \in Marked(rows) /\ b \in Marked(rows) /\ x = a /\ y = b
    BY <1>1, <2>1, <2>2, <2>3 DEF Marked
  <2>5. QED
    BY <1>6, <2>4 DEF AtMostOne
<1>7. ASSUME Marked(rows) = {} PROVE AtMostOne(S)
  <2> SUFFICES ASSUME NEW x \in Marked(S), NEW y \in Marked(S) PROVE x = y
    BY DEF AtMostOne
  <2>1. \A z \in Marked(S) : z.id = id
    BY <1>1, <1>3, <1>7 DEF Marked
  <2>2. QED
    BY <1>5, <2>1 DEF Marked
<1>8. ASSUME Has(rows, id), default PROVE Marked(S) # {}
  <2>1. PICK a \in rows : a.id = id
    BY <1>8 DEF Has
  <2>2. new(a) \in S /\ new(a).default = TRUE
    BY <1>1, <1>2, <1>8, <2>1
  <2>3. QED
    BY <2>2 DEF Marked
<1>9. QED
  BY <1>4, <1>5, <1>6, <1>7, <1>8 DEF S, Numbered

\* create: a row of a new number.
LEMMA AddedRow ==
  ASSUME NEW n \in Nat, NEW rows, Numbered(rows, n), NEW default \in BOOLEAN, NEW all,
         all = rows \cup {[id |-> n + 1, default |-> default]}
  PROVE  /\ Numbered(all, n + 1)
         /\ Marked(rows) = {} => AtMostOne(all)
         /\ ~ default => Marked(all) = Marked(rows)
         /\ default \/ Marked(rows) # {} => Marked(all) # {}
<1> DEFINE x == [id |-> n + 1, default |-> default]
<1>1. x \in Addresses /\ x.id = n + 1 /\ x.default = default
  BY DEF Addresses
<1> HIDE DEF x
<1>2. all = rows \cup {x}
  BY DEF x
<1>3. \A a \in rows : a \in Addresses /\ a.id \in Nat /\ a.id <= n /\ a.id # x.id
  BY <1>1 DEF Numbered, Addresses
<1>4. Numbered(all, n + 1)
  BY <1>1, <1>2, <1>3 DEF Numbered
<1>5. QED
  BY <1>1, <1>2, <1>4 DEF Marked, AtMostOne

LEMMA FewerRows ==
  ASSUME NEW n, NEW rows, Numbered(rows, n), NEW fewer \in SUBSET rows
  PROVE  Numbered(fewer, n) /\ Marked(fewer) \subseteq Marked(rows)
         /\ (AtMostOne(rows) => AtMostOne(fewer))
BY DEF Numbered, Marked, AtMostOne

\* Every set of numbers that is not empty has a least one: the intervals below
\* its members are ordered as they are.
LEMMA Least ==
  ASSUME NEW S \in SUBSET Nat, S # {}
  PROVE  \E x \in S : \A y \in S : x <= y
<1> DEFINE Below == {0 .. x : x \in S}
<1>1. Below \subseteq FiniteSubsetsOf(Nat)
  <2> SUFFICES ASSUME NEW x \in S PROVE 0 .. x \in FiniteSubsetsOf(Nat)
    OBVIOUS
  <2>1. x \in Int /\ 0 \in Int
    OBVIOUS
  <2>2. IsFiniteSet(0 .. x)
    BY <2>1, FS_Interval
  <2>3. QED
    BY <2>2 DEF FiniteSubsetsOf
<1>2. Below # {}
  OBVIOUS
<1>3. PICK b \in Below : \A c \in Below : <<c, b>> \notin StrictSubsetOrdering(Nat)
  <2> HIDE DEF Below
  <2>1. QED
    BY <1>1, <1>2, FS_StrictSubsetOrderingWellFounded, WFMin
<1>4. PICK x \in S : b = 0 .. x
  BY <1>3
<1>5. \A y \in S : x <= y
  <2> SUFFICES ASSUME NEW y \in S, y < x PROVE FALSE
    OBVIOUS
  <2>1. 0 .. y \in SUBSET Nat /\ 0 .. x \in SUBSET Nat /\ 0 .. y \subseteq 0 .. x
    OBVIOUS
  <2>2. x \in 0 .. x /\ x \notin 0 .. y
    OBVIOUS
  <2>3. <<0 .. y, 0 .. x>> \in StrictSubsetOrdering(Nat)
    BY <2>1, <2>2 DEF StrictSubsetOrdering
  <2>4. QED
    BY <1>3, <1>4, <2>3
<1>6. QED
  BY <1>5

LEMMA FirstIsRow ==
  ASSUME NEW n, NEW rows, Numbered(rows, n), rows # {}
  PROVE  First(rows) \in rows
<1> DEFINE best == IF Marked(rows) = {} THEN rows ELSE Marked(rows)
           ids  == {a.id : a \in best}
<1>1. best \in SUBSET rows /\ best # {}
  BY DEF Marked
<1> HIDE DEF best
<1>2. ids \in SUBSET Nat /\ ids # {}
  BY <1>1 DEF Numbered, Addresses
<1>3. PICK id \in ids : \A other \in ids : id <= other
  <2> HIDE DEF ids
  <2>1. QED
    BY <1>2, Least
<1>4. PICK a \in best : a.id = id
  BY <1>3
<1>5. \A b \in best : a.id <= b.id
  BY <1>3, <1>4
<1>6. \E c \in best : \A b \in best : c.id <= b.id
  BY <1>5
<1>7. (CHOOSE c \in best : \A b \in best : c.id <= b.id) \in best
  BY <1>6
<1>8. QED
  BY <1>1, <1>7 DEF First, best

LEMMA OneOrNone ==
  ASSUME NEW S, \A x, y \in S : x = y
  PROVE  ~ (Cardinality(S) > 1)
<1>1. CASE S = {}
  BY <1>1, FS_EmptySet
<1>2. CASE S # {}
  <2>1. PICK x \in S : TRUE
    BY <1>2
  <2>2. S = {x} /\ Cardinality({x}) = 1
    BY <2>1, FS_Singleton
  <2>3. QED
    BY <2>2
<1>3. QED
  BY <1>1, <1>2

-----------------------------------------------------------------------------
(* Handlers of addresses                                                   *)

\* A user whose rows and handlers stay as they are.
LEMMA SameUser ==
  ASSUME NEW u \in Users, CalmInv(u), SettledInv(u), book'[u] = book[u],
         disturbed'[u] = disturbed[u], Working(u)' = Working(u),
         \A q \in Working(u) : req'[q] = req[q] /\ pc'[q] = pc[q]
  PROVE  CalmInv(u)' /\ SettledInv(u)'
BY DEF CalmInv, SettledInv

LEMMA OthersWork ==
  ASSUME TypeOK, NEW p \in Requests, NEW v \in Users,
         \A q \in Requests \ {p} : req'[q] = req[q] /\ pc'[q] = pc[q],
         pc[p] \in AddressSteps => req[p].user # v,
         pc'[p] \in AddressSteps => req'[p].user # v
  PROVE  Working(v)' = Working(v) /\ \A q \in Working(v) : req'[q] = req[q] /\ pc'[q] = pc[q]
BY DEF Working

\* What the handlers of addresses leave alone.
Apart == UNCHANGED <<tokens, payout, key, counts>>

LEMMA ApartStays ==
  ASSUME IInv, Apart
  PROVE  TokenInv' /\ FormInv'
BY DEF IInv, Apart, tokens, TokenInv, FormInv

LEMMA IdleType ==
  Idle \in [user : Users \cup {None}, id : Nat, default : {"yes", "no", "unsaid"}]
BY DEF Idle

\* A handler returns, having written the rows of its user.
LEMMA FinishIInv ==
  ASSUME IInv, NEW p \in Requests, pc[p] \in AddressSteps, NEW u \in Users, u = req[p].user,
         NEW rows, NEW why \in SUBSET {"unset"}, Finish(p, u, rows, why),
         created' \in Nat, created <= created', Numbered(rows, created'),
         "overlap" \notin disturbed[u] => AtMostOne(rows),
         (disturbed[u] = {} /\ why = {} /\ rows # {}) => Marked(rows) # {}
  PROVE  IInv'
<1>1. /\ pc' = [pc EXCEPT ![p] = "idle"] /\ req' = [req EXCEPT ![p] = Idle]
      /\ gives' = [gives EXCEPT ![p] = {}]
      /\ book' = [book EXCEPT ![u] = rows]
      /\ disturbed' = [disturbed EXCEPT ![u] = IF Settled(p, u, rows) THEN {} ELSE @ \cup why]
      /\ UNCHANGED <<tokens, payout, key, started, counts>>
  BY DEF Finish, Leave
<1>2. TypeOK /\ NumberInv /\ DefaultInv
  BY DEF IInv
<1>3. TypeOK'
  <2>1. book' \in [Users -> SUBSET [id : Nat \ {0}, default : BOOLEAN]]
    BY <1>1, <1>2 DEF TypeOK, Numbered, Addresses
  <2>2. disturbed' \in [Users -> SUBSET {"overlap", "failure", "unset"}]
    BY <1>1, <1>2 DEF TypeOK
  <2>3. req' \in [Requests -> [user : Users \cup {None}, id : Nat,
                               default : {"yes", "no", "unsaid"}]]
    BY <1>1, <1>2, IdleType DEF TypeOK
  <2>4. pc' \in [Requests -> AddressSteps \cup {"idle", "name", "columns"}]
        /\ \A q \in Requests : pc'[q] # "idle" => req'[q].user \in Users
    BY <1>1, <1>2 DEF TypeOK
  <2>5. gives' \in [Requests -> SUBSET Parts]
    BY <1>1, <1>2 DEF TypeOK
  <2>6. QED
    BY <1>1, <1>2, <2>1, <2>2, <2>3, <2>4, <2>5 DEF TypeOK, tokens, counts
<1>4. ClearInv'
  BY <1>1, <1>2 DEF IInv, TypeOK, ClearInv
<1>5. NumberInv'
  <2> SUFFICES ASSUME NEW v \in Users PROVE Numbered(book'[v], created')
    BY DEF NumberInv, Numbered
  <2>1. CASE v = u
    BY <1>1, <1>2, <2>1 DEF TypeOK
  <2>2. CASE v # u
    <3>1. book'[v] = book[v] /\ Numbered(book[v], created) /\ created \in Nat
      BY <1>1, <1>2, <2>2, NumberedRows DEF TypeOK
    <3>2. \A a \in book[v] : a.id \in Nat /\ a.id <= created'
      BY <3>1 DEF Numbered, Addresses
    <3>3. QED
      BY <3>1, <3>2 DEF Numbered
  <2>3. QED
    BY <2>1, <2>2
<1>6. \A q \in Requests \ {p} : req'[q] = req[q] /\ pc'[q] = pc[q]
  BY <1>1, <1>2 DEF TypeOK
<1>7. pc'[p] = "idle" /\ "idle" \notin AddressSteps
  BY <1>1, <1>2 DEF TypeOK, AddressSteps
<1>8. DefaultInv'
  <2> SUFFICES ASSUME NEW v \in Users PROVE CalmInv(v)' /\ SettledInv(v)'
    BY DEF DefaultInv
  <2>1. CASE v # u
    <3>1. Working(v)' = Working(v)
          /\ \A q \in Working(v) : req'[q] = req[q] /\ pc'[q] = pc[q]
      BY <1>2, <1>6, <1>7, <2>1, OthersWork
    <3>2. book'[v] = book[v] /\ disturbed'[v] = disturbed[v]
      BY <1>1, <1>2, <2>1 DEF TypeOK
    <3>3. QED
      BY <1>2, <3>1, <3>2, SameUser DEF DefaultInv
  <2>2. CASE v = u
    <3>1. Working(u)' = Working(u) \ {p} /\ p \in Working(u)
      BY <1>6, <1>7 DEF Working
    <3>2. book'[u] = rows
          /\ disturbed'[u] = IF Settled(p, u, rows) THEN {} ELSE disturbed[u] \cup why
      BY <1>1, <1>2 DEF TypeOK
    <3>3. CASE Settled(p, u, rows)
      <4>1. Working(u)' = {} /\ disturbed'[u] = {}
            /\ (rows = {} \/ \E a \in rows : Marked(rows) = {a})
        BY <3>1, <3>2, <3>3 DEF Settled
      <4>2. AtMostOne(rows) /\ (rows # {} => Marked(rows) # {})
        BY <4>1 DEF AtMostOne, Marked
      <4>3. QED
        BY <2>2, <3>2, <4>1, <4>2 DEF CalmInv, SettledInv
    <3>4. CASE ~ Settled(p, u, rows)
      <4>1. disturbed'[u] = disturbed[u] \cup why
        BY <3>2, <3>4
      <4>2. "overlap" \notin disturbed[u] => Working(u)' = {}
        BY <1>2, <3>1 DEF DefaultInv, CalmInv
      <4>3. QED
        BY <2>2, <3>2, <4>1, <4>2 DEF CalmInv, SettledInv
    <3>5. QED
      BY <3>3, <3>4
  <2>3. QED
    BY <2>1, <2>2
<1>9. TokenInv' /\ FormInv'
  BY <1>1, ApartStays DEF Apart
<1>10. QED
  BY <1>3, <1>4, <1>5, <1>8, <1>9 DEF IInv

\* A handler goes on, and may have written the rows of its user.
LEMMA GoOnIInv ==
  ASSUME IInv, NEW p \in Requests, pc[p] \in AddressSteps, NEW u \in Users, u = req[p].user,
         NEW rows, NEW step \in AddressSteps \ {"clear_new", "clear"}, NEW id \in Nat,
         pc' = [pc EXCEPT ![p] = step], req' = [req EXCEPT ![p].id = id],
         book' = [book EXCEPT ![u] = rows], Numbered(rows, created),
         UNCHANGED <<created, disturbed, tokens, money, key, started, counts>>,
         "overlap" \notin disturbed[u] => AtMostOne(rows) /\ AloneAt(rows, req'[p], step),
         disturbed[u] = {} => SettlesAt(rows, req'[p], step)
  PROVE  IInv'
<1>1. TypeOK /\ NumberInv /\ DefaultInv
  BY DEF IInv
<1>2. req'[p].user = u /\ pc'[p] = step
      /\ \A q \in Requests \ {p} : req'[q] = req[q] /\ pc'[q] = pc[q]
  BY <1>1 DEF TypeOK
<1>3. TypeOK'
  <2>1. book' \in [Users -> SUBSET [id : Nat \ {0}, default : BOOLEAN]]
    BY <1>1 DEF TypeOK, Numbered, Addresses
  <2>2. req' \in [Requests -> [user : Users \cup {None}, id : Nat,
                               default : {"yes", "no", "unsaid"}]]
    <3> DEFINE Args == [user : Users \cup {None}, id : Nat, default : {"yes", "no", "unsaid"}]
               row  == [req[p] EXCEPT !.id = id]
    <3>1. req \in [Requests -> Args]
      BY <1>1 DEF TypeOK
    <3>2. row \in Args
      BY <3>1
    <3>3. req' = [req EXCEPT ![p] = row]
      OBVIOUS
    <3> HIDE DEF Args, row
    <3>4. req' \in [Requests -> Args]
      BY <3>1, <3>2, <3>3
    <3>5. QED
      BY <3>4 DEF Args
  <2>3. pc' \in [Requests -> AddressSteps \cup {"idle", "name", "columns"}]
        /\ \A q \in Requests : pc'[q] # "idle" => req'[q].user \in Users
    BY <1>1, <1>2 DEF TypeOK
  <2>4. QED
    BY <1>1, <2>1, <2>2, <2>3 DEF TypeOK, tokens, money, counts
<1>4. ClearInv'
  BY <1>2 DEF IInv, ClearInv
<1>5. NumberInv'
  <2> SUFFICES ASSUME NEW v \in Users PROVE Numbered(book'[v], created)
    BY DEF NumberInv, Numbered
  <2>1. QED
    BY <1>1, NumberedRows DEF TypeOK
<1>6. DefaultInv'
  <2> SUFFICES ASSUME NEW v \in Users PROVE CalmInv(v)' /\ SettledInv(v)'
    BY DEF DefaultInv
  <2>1. CASE v # u
    <3>1. Working(v)' = Working(v)
          /\ \A q \in Working(v) : req'[q] = req[q] /\ pc'[q] = pc[q]
      BY <1>1, <1>2, <2>1, OthersWork
    <3>2. book'[v] = book[v] /\ disturbed'[v] = disturbed[v]
      BY <1>1, <2>1 DEF TypeOK
    <3>3. QED
      BY <1>1, <3>1, <3>2, SameUser DEF DefaultInv
  <2>2. CASE v = u
    <3>1. Working(u)' = Working(u) /\ p \in Working(u)
      BY <1>2 DEF Working
    <3>2. book'[u] = rows /\ disturbed'[u] = disturbed[u]
      BY <1>1 DEF TypeOK
    <3>3. "overlap" \notin disturbed[u] => Working(u) = {p}
      BY <1>1, <3>1 DEF DefaultInv, CalmInv
    <3>4. CalmInv(u)'
      BY <1>2, <3>1, <3>2, <3>3 DEF CalmInv
    <3>5. SettledInv(u)'
      BY <1>2, <3>1, <3>2, <3>3 DEF SettledInv
    <3>6. QED
      BY <2>2, <3>4, <3>5
  <2>3. QED
    BY <2>1, <2>2
<1>7. TokenInv' /\ FormInv'
  BY ApartStays DEF Apart, money
<1>8. QED
  BY <1>3, <1>4, <1>5, <1>6, <1>7 DEF IInv

\* A handler of addresses starts.
LEMMA StartIInv ==
  ASSUME IInv, NEW p \in Requests, NEW u \in Users, NEW id \in Nat,
         NEW default \in {"yes", "no", "unsaid"}, NEW step \in AddressSteps,
         StartAddress(p, u, id, default, step),
         step \in {"clear_new", "clear"} => default = "yes",
         "overlap" \notin disturbed[u] /\ Working(u) = {} =>
           AloneAt(book[u], [user |-> u, id |-> id, default |-> default], step),
         disturbed[u] = {} /\ Working(u) = {} =>
           SettlesAt(book[u], [user |-> u, id |-> id, default |-> default], step)
  PROVE  IInv'
<1> DEFINE r == [user |-> u, id |-> id, default |-> default]
<1>1. TypeOK /\ NumberInv /\ DefaultInv
  BY DEF IInv
<1>2. r.user = u /\ r.default = default
      /\ r \in [user : Users \cup {None}, id : Nat, default : {"yes", "no", "unsaid"}]
  OBVIOUS
<1>3. /\ pc[p] = "idle" /\ started < MaxHandlers /\ started' = started + 1
      /\ pc' = [pc EXCEPT ![p] = step] /\ req' = [req EXCEPT ![p] = r]
      /\ disturbed' = [disturbed EXCEPT ![u] = @ \cup IF Working(u) = {} THEN {} ELSE {"overlap"}]
      /\ UNCHANGED <<book, created, tokens, money, key, counts>>
  BY DEF StartAddress, Start
<1>4. AloneAt(book[u], r, step) \/ "overlap" \in disturbed[u] \/ Working(u) # {}
  OBVIOUS
<1>5. SettlesAt(book[u], r, step) \/ disturbed[u] # {} \/ Working(u) # {}
  OBVIOUS
<1> HIDE DEF r
<1>6. req'[p] = r /\ pc'[p] = step
      /\ \A q \in Requests \ {p} : req'[q] = req[q] /\ pc'[q] = pc[q]
  BY <1>1, <1>3 DEF TypeOK
<1>7. TypeOK'
  <2>1. started' \in 0 .. MaxHandlers
    BY <1>1, <1>3, NatBounds DEF TypeOK
  <2>2. disturbed' \in [Users -> SUBSET {"overlap", "failure", "unset"}]
    BY <1>1, <1>3 DEF TypeOK
  <2>3. req' \in [Requests -> [user : Users \cup {None}, id : Nat,
                               default : {"yes", "no", "unsaid"}]]
    BY <1>1, <1>2, <1>3 DEF TypeOK
  <2>4. pc' \in [Requests -> AddressSteps \cup {"idle", "name", "columns"}]
        /\ \A q \in Requests : pc'[q] # "idle" => req'[q].user \in Users
    BY <1>1, <1>2, <1>3, <1>6 DEF TypeOK
  <2>5. QED
    BY <1>1, <1>3, <2>1, <2>2, <2>3, <2>4 DEF TypeOK, tokens, money, counts
<1>8. ClearInv'
  BY <1>2, <1>6 DEF IInv, ClearInv
<1>9. NumberInv'
  BY <1>1, <1>3 DEF NumberInv
<1>10. DefaultInv'
  <2> SUFFICES ASSUME NEW v \in Users PROVE CalmInv(v)' /\ SettledInv(v)'
    BY DEF DefaultInv
  <2>1. "idle" \notin AddressSteps
    BY DEF AddressSteps
  <2>2. CASE v # u
    <3>1. Working(v)' = Working(v)
          /\ \A q \in Working(v) : req'[q] = req[q] /\ pc'[q] = pc[q]
      BY <1>1, <1>2, <1>3, <1>6, <2>1, <2>2, OthersWork
    <3>2. book'[v] = book[v] /\ disturbed'[v] = disturbed[v]
      BY <1>1, <1>3, <2>2 DEF TypeOK
    <3>3. QED
      BY <1>1, <3>1, <3>2, SameUser DEF DefaultInv
  <2>3. CASE v = u
    <3>1. disturbed'[u] = disturbed[u] \cup IF Working(u) = {} THEN {} ELSE {"overlap"}
      BY <1>1, <1>3 DEF TypeOK
    <3>2. CASE Working(u) # {}
      <4>1. "overlap" \in disturbed'[u]
        BY <3>1, <3>2
      <4>2. QED
        BY <2>3, <4>1 DEF CalmInv, SettledInv
    <3>3. CASE Working(u) = {}
      <4>1. Working(u)' = {p}
        BY <1>2, <1>6, <3>3 DEF Working
      <4>2. disturbed'[u] = disturbed[u] /\ book'[u] = book[u]
        BY <1>3, <3>1, <3>3
      <4>3. "overlap" \notin disturbed[u] => AtMostOne(book[u])
        BY <1>1 DEF DefaultInv, CalmInv
      <4>4. CalmInv(u)'
        BY <1>4, <1>6, <3>3, <4>1, <4>2, <4>3 DEF CalmInv
      <4>5. SettledInv(u)'
        BY <1>5, <1>6, <3>3, <4>1, <4>2 DEF SettledInv
      <4>6. QED
        BY <2>3, <4>4, <4>5
    <3>4. QED
      BY <3>2, <3>3
  <2>4. QED
    BY <2>2, <2>3
<1>11. TokenInv' /\ FormInv'
  BY <1>3, ApartStays DEF Apart, money
<1>12. QED
  BY <1>7, <1>8, <1>9, <1>10, <1>11 DEF IInv

-----------------------------------------------------------------------------
(* The statements of AddressService                                        *)

\* What is known when a handler works on addresses.
LEMMA AtWork ==
  ASSUME IInv, NEW p \in Requests, pc[p] \in AddressSteps
  PROVE  /\ req[p].user \in Users /\ req[p].id \in Nat /\ created \in Nat
         /\ req[p].default \in {"yes", "no", "unsaid"}
         /\ Numbered(book[req[p].user], created)
         /\ "overlap" \notin disturbed[req[p].user] =>
              AtMostOne(book[req[p].user]) /\ AloneAt(book[req[p].user], req[p], pc[p])
         /\ disturbed[req[p].user] = {} => SettlesAt(book[req[p].user], req[p], pc[p])
         /\ disturbed[req[p].user] = {} => "overlap" \notin disturbed[req[p].user]
<1>1. req[p].user \in Users /\ req[p].id \in Nat /\ created \in Nat
      /\ req[p].default \in {"yes", "no", "unsaid"}
  BY DEF IInv, TypeOK, AddressSteps
<1>2. p \in Working(req[p].user)
  BY DEF Working
<1>3. Numbered(book[req[p].user], created)
  BY <1>1, NumberedRows DEF IInv
<1>4. QED
  BY <1>1, <1>2, <1>3 DEF IInv, DefaultInv, CalmInv, SettledInv

LEMMA CreateIInv ==
  ASSUME IInv, NEW p \in Requests, NEW u \in Users, NEW default \in {"yes", "no"},
         CreateAddress(p, u, default)
  PROVE  IInv'
<1> DEFINE d == IF book[u] = {} THEN "yes" ELSE default
           step == IF default = "yes" /\ book[u] # {} THEN "clear_new" ELSE "insert"
           r == [user |-> u, id |-> 0, default |-> d]
<1>1. StartAddress(p, u, 0, d, step)
  BY DEF CreateAddress
<1>2. d \in {"yes", "no", "unsaid"} /\ step \in AddressSteps /\ r.default = d
      /\ (step = "clear_new" => d = "yes") /\ step # "clear"
  BY DEF AddressSteps
<1>3. AloneAt(book[u], r, step)
  BY DEF AloneAt, Marked
<1>4. disturbed[u] = {} /\ Working(u) = {} => SettlesAt(book[u], r, step)
  <2>1. disturbed[u] = {} /\ Working(u) = {} /\ book[u] # {} => Marked(book[u]) # {}
    BY DEF IInv, DefaultInv, SettledInv
  <2>2. QED
    BY <2>1 DEF SettlesAt
<1> HIDE DEF d, step
<1>5. QED
  BY <1>1, <1>2, <1>3, <1>4, StartIInv

LEMMA UpdateIInv ==
  ASSUME IInv, NEW p \in Requests, NEW u \in Users, NEW a \in book[u],
         NEW default \in {"yes", "no", "unsaid"}, UpdateAddress(p, u, a, default)
  PROVE  IInv'
<1> DEFINE step == IF default = "yes" THEN "clear" ELSE "write"
           r == [user |-> u, id |-> a.id, default |-> default]
<1>1. StartAddress(p, u, a.id, default, step)
  BY DEF UpdateAddress
<1>2. step \in AddressSteps /\ a.id \in Nat /\ r.default = default /\ r.id = a.id
      /\ (step = "clear" => default = "yes") /\ step # "clear_new"
  BY DEF AddressSteps, IInv, TypeOK
<1>3. AloneAt(book[u], r, step)
  BY DEF AloneAt
<1>4. disturbed[u] = {} /\ Working(u) = {} => SettlesAt(book[u], r, step)
  <2>1. disturbed[u] = {} /\ Working(u) = {} /\ book[u] # {} => Marked(book[u]) # {}
    BY DEF IInv, DefaultInv, SettledInv
  <2>2. book[u] # {} /\ Has(book[u], a.id)
    BY DEF Has
  <2>3. QED
    BY <2>1, <2>2 DEF SettlesAt
<1> HIDE DEF step
<1>5. QED
  BY <1>1, <1>2, <1>3, <1>4, StartIInv

LEMMA DeleteIInv ==
  ASSUME IInv, NEW p \in Requests, NEW u \in Users, NEW a \in book[u], DeleteAddress(p, u, a)
  PROVE  IInv'
<1> DEFINE d == IF a.default THEN "yes" ELSE "no"
           r == [user |-> u, id |-> a.id, default |-> d]
<1>1. StartAddress(p, u, a.id, d, "delete")
  BY DEF DeleteAddress
<1>2. "delete" \in AddressSteps /\ a.id \in Nat /\ d \in {"yes", "no", "unsaid"}
      /\ r.default = d /\ r.id = a.id /\ a.default \in BOOLEAN
  BY DEF AddressSteps, IInv, TypeOK
<1>3. "overlap" \notin disturbed[u] => AloneAt(book[u], r, "delete")
  <2>1. "overlap" \notin disturbed[u] => AtMostOne(book[u])
    BY DEF IInv, DefaultInv, CalmInv
  <2>2. QED
    BY <1>2, <2>1 DEF AloneAt, AtMostOne, Marked
<1>4. disturbed[u] = {} /\ Working(u) = {} => SettlesAt(book[u], r, "delete")
  <2>1. disturbed[u] = {} /\ Working(u) = {} /\ book[u] # {} => Marked(book[u]) # {}
    BY DEF IInv, DefaultInv, SettledInv
  <2>2. \A b \in book[u] : b.id = a.id => b = a
    BY DEF IInv, NumberInv
  <2>3. Has(book[u], a.id)
    BY DEF Has
  <2>4. QED
    BY <1>2, <2>1, <2>2, <2>3 DEF SettlesAt, Marked
<1> HIDE DEF d
<1>5. QED
  BY <1>1, <1>2, <1>3, <1>4, StartIInv

LEMMA ClearIInv ==
  ASSUME IInv, NEW p \in Requests, ClearDefault(p)
  PROVE  IInv'
<1>1. pc[p] \in {"clear_new", "clear"} /\ pc[p] \in AddressSteps
  BY DEF ClearDefault, AddressSteps
<1> PICK u, r : u = req[p].user /\ r = req[p]
  OBVIOUS
<1> PICK rows : rows = {[a EXCEPT !.default = FALSE] : a \in book[u]}
  OBVIOUS
<1> DEFINE step == IF pc[p] = "clear" THEN "write" ELSE "insert"
<1>2. /\ book' = [book EXCEPT ![u] = rows] /\ pc' = [pc EXCEPT ![p] = step]
      /\ UNCHANGED <<created, disturbed, tokens, money, key, req, started, counts>>
  <2>1. u \in Users /\ book = [v \in Users |-> book[v]] /\ pc = [q \in Requests |-> pc[q]]
    BY <1>1, AtWork DEF IInv, TypeOK
  <2>2. QED
    BY <2>1 DEF ClearDefault
<1>3. /\ u \in Users /\ r.id \in Nat /\ created \in Nat /\ Numbered(book[u], created)
      /\ disturbed[u] = {} => SettlesAt(book[u], r, pc[p])
  BY <1>1, AtWork
<1>4. Numbered(rows, created) /\ Marked(rows) = {}
      /\ (Has(book[u], r.id) => Has(rows, r.id))
  BY <1>3, ClearedRows
<1>5. r.default = "yes"
  BY <1>1 DEF IInv, ClearInv
<1>6. step \in AddressSteps \ {"clear_new", "clear"} /\ step \in {"write", "insert"}
      /\ (step = "write" => pc[p] = "clear")
  BY DEF AddressSteps
<1>7. req' = [req EXCEPT ![p].id = r.id] /\ req'[p] = r
  BY <1>2 DEF IInv, TypeOK
<1> HIDE DEF step
<1>8. AtMostOne(rows) /\ AloneAt(rows, r, step)
  BY <1>4, <1>6 DEF AtMostOne, AloneAt
<1>9. disturbed[u] = {} => SettlesAt(rows, r, step)
  BY <1>3, <1>4, <1>5, <1>6 DEF SettlesAt
<1>10. /\ UNCHANGED <<created, disturbed, tokens, money, key, started, counts>>
       /\ "overlap" \notin disturbed[u] => AtMostOne(rows) /\ AloneAt(rows, req'[p], step)
       /\ disturbed[u] = {} => SettlesAt(rows, req'[p], step)
  BY <1>2, <1>7, <1>8, <1>9
<1>11. QED
  BY <1>1, <1>2, <1>3, <1>4, <1>6, <1>7, <1>10, GoOnIInv

LEMMA InsertIInv ==
  ASSUME IInv, NEW p \in Requests, InsertAddress(p)
  PROVE  IInv'
<1>1. pc[p] = "insert" /\ pc[p] \in AddressSteps
  BY DEF InsertAddress, AddressSteps
<1> PICK u, r : u = req[p].user /\ r = req[p]
  OBVIOUS
<1> DEFINE mark == r.default = "yes"
<1> PICK rows : rows = book[u] \cup {[id |-> created + 1, default |-> mark]}
  OBVIOUS
<1>2. Finish(p, u, rows, {}) /\ created' = created + 1
  BY DEF InsertAddress
<1>3. /\ u \in Users /\ created \in Nat /\ Numbered(book[u], created)
      /\ "overlap" \notin disturbed[u] => AtMostOne(book[u]) /\ AloneAt(book[u], r, "insert")
      /\ disturbed[u] = {} => SettlesAt(book[u], r, "insert")
  BY <1>1, AtWork
<1>4. mark \in BOOLEAN
  OBVIOUS
<1>5. "overlap" \notin disturbed[u] /\ mark => Marked(book[u]) = {}
  BY <1>3 DEF AloneAt
<1>6. disturbed[u] = {} /\ ~ mark => Marked(book[u]) # {}
  BY <1>3 DEF SettlesAt
<1> HIDE DEF mark
<1>7. /\ Numbered(rows, created + 1)
      /\ Marked(book[u]) = {} => AtMostOne(rows)
      /\ ~ mark => Marked(rows) = Marked(book[u])
      /\ mark \/ Marked(book[u]) # {} => Marked(rows) # {}
  BY <1>3, <1>4, AddedRow
<1>8. "overlap" \notin disturbed[u] => AtMostOne(rows)
  BY <1>3, <1>5, <1>7 DEF AtMostOne
<1>9. disturbed[u] = {} => Marked(rows) # {}
  BY <1>6, <1>7
<1>10. created' \in Nat /\ created <= created' /\ Numbered(rows, created')
       /\ {} \in SUBSET {"unset"}
  BY <1>2, <1>3, <1>7
<1>11. QED
  BY <1>1, <1>2, <1>3, <1>8, <1>9, <1>10, FinishIInv

LEMMA WriteIInv ==
  ASSUME IInv, NEW p \in Requests, WriteAddress(p)
  PROVE  IInv'
<1>1. pc[p] = "write" /\ pc[p] \in AddressSteps
  BY DEF WriteAddress, AddressSteps
<1> PICK u, r : u = req[p].user /\ r = req[p]
  OBVIOUS
<1> DEFINE mark == r.default = "yes"
<1> PICK rows, why :
      /\ rows = IF r.default = "unsaid" THEN book[u] ELSE Set(book[u], r.id, mark)
      /\ why = IF r.default = "no" THEN {"unset"} ELSE {}
  OBVIOUS
<1>2. Finish(p, u, rows, why) /\ created' = created
  BY DEF WriteAddress
<1>3. /\ u \in Users /\ created \in Nat /\ Numbered(book[u], created)
      /\ r.default \in {"yes", "no", "unsaid"}
      /\ "overlap" \notin disturbed[u] => AtMostOne(book[u]) /\ AloneAt(book[u], r, "write")
      /\ disturbed[u] = {} => SettlesAt(book[u], r, "write")
  BY <1>1, AtWork
<1>4. mark \in BOOLEAN /\ why \in SUBSET {"unset"} /\ (why = {} => r.default # "no")
  OBVIOUS
<1>5. "overlap" \notin disturbed[u] /\ mark => Marked(book[u]) = {}
  BY <1>3 DEF AloneAt
<1>6. disturbed[u] = {} /\ mark => Has(book[u], r.id)
  BY <1>3 DEF SettlesAt
<1>7. disturbed[u] = {} /\ r.default = "unsaid" => Marked(book[u]) # {}
  BY <1>3 DEF SettlesAt
<1>8. r.default = "no" => ~ mark
  OBVIOUS
<1>9. r.default \in {"no", "unsaid"} \/ mark
  BY <1>3
<1> HIDE DEF mark
<1>10. /\ Numbered(Set(book[u], r.id, mark), created)
       /\ AtMostOne(book[u]) /\ ~ mark => AtMostOne(Set(book[u], r.id, mark))
       /\ Marked(book[u]) = {} => AtMostOne(Set(book[u], r.id, mark))
       /\ Has(book[u], r.id) /\ mark => Marked(Set(book[u], r.id, mark)) # {}
  BY <1>3, <1>4, SetRows
<1>11. Numbered(rows, created)
  BY <1>3, <1>10
<1>12. "overlap" \notin disturbed[u] => AtMostOne(rows)
  BY <1>3, <1>4, <1>5, <1>10
<1>13. disturbed[u] = {} /\ why = {} => Marked(rows) # {}
  BY <1>4, <1>6, <1>7, <1>9, <1>10
<1>14. created' \in Nat /\ created <= created'
  BY <1>2, <1>3
<1>15. QED
  BY <1>1, <1>2, <1>3, <1>4, <1>11, <1>12, <1>13, <1>14, FinishIInv

\* A handler that keeps its row has the arguments it had.
LEMMA SameArguments ==
  ASSUME TypeOK, NEW p \in Requests
  PROVE  req = [req EXCEPT ![p].id = req[p].id]
<1> DEFINE Args == [user : Users \cup {None}, id : Nat, default : {"yes", "no", "unsaid"}]
           row  == [req[p] EXCEPT !.id = req[p].id]
<1>1. req \in [Requests -> Args]
  BY DEF TypeOK
<1>2. row = req[p]
  BY <1>1
<1>3. [req EXCEPT ![p].id = req[p].id] = [req EXCEPT ![p] = row]
  OBVIOUS
<1> HIDE DEF Args, row
<1>4. QED
  BY <1>1, <1>2, <1>3

LEMMA RemoveIInv ==
  ASSUME IInv, NEW p \in Requests, RemoveAddress(p)
  PROVE  IInv'
<1>1. pc[p] = "delete" /\ pc[p] \in AddressSteps /\ created' = created
  BY DEF RemoveAddress, AddressSteps
<1> PICK u, r : u = req[p].user /\ r = req[p]
  OBVIOUS
<1> PICK rows : rows = {a \in book[u] : a.id # r.id}
  OBVIOUS
<1>2. /\ u \in Users /\ created \in Nat /\ Numbered(book[u], created) /\ r.id \in Nat
      /\ "overlap" \notin disturbed[u] => AtMostOne(book[u]) /\ AloneAt(book[u], r, "delete")
      /\ disturbed[u] = {} => SettlesAt(book[u], r, "delete")
      /\ disturbed[u] = {} => "overlap" \notin disturbed[u]
  BY <1>1, AtWork
<1>3. rows \in SUBSET book[u] /\ Numbered(rows, created)
      /\ (AtMostOne(book[u]) => AtMostOne(rows))
  BY <1>2, FewerRows
<1>4. CASE Has(book[u], r.id) /\ r.default = "yes"
  <2>1. /\ book' = [book EXCEPT ![u] = rows] /\ pc' = [pc EXCEPT ![p] = "remaining"]
        /\ UNCHANGED <<created, disturbed, tokens, money, key, req, started, counts>>
    BY <1>1, <1>4 DEF RemoveAddress
  <2>2. "overlap" \notin disturbed[u] => Marked(rows) = {}
    BY <1>2, <1>4 DEF AloneAt, Marked
  <2>3. "overlap" \notin disturbed[u] => AtMostOne(rows) /\ AloneAt(rows, r, "remaining")
    BY <1>2, <1>3, <2>2 DEF AloneAt
  <2>4. SettlesAt(rows, r, "remaining")
    BY DEF SettlesAt
  <2>5. req' = [req EXCEPT ![p].id = r.id] /\ req'[p] = r
    <3>1. TypeOK
      BY DEF IInv
    <3>2. QED
      BY <2>1, <3>1, SameArguments
  <2>6. "remaining" \in AddressSteps \ {"clear_new", "clear"}
    BY DEF AddressSteps
  <2>7. /\ "overlap" \notin disturbed[u] =>
             AtMostOne(rows) /\ AloneAt(rows, req'[p], "remaining")
        /\ disturbed[u] = {} => SettlesAt(rows, req'[p], "remaining")
    BY <2>3, <2>4, <2>5
  <2>8. pc[p] \in AddressSteps /\ u \in Users /\ r.id \in Nat /\ Numbered(rows, created)
        /\ UNCHANGED <<created, disturbed, tokens, money, key, started, counts>>
    BY <1>1, <1>2, <1>3, <2>1
  <2>9. QED
    BY <2>1, <2>5, <2>6, <2>7, <2>8, GoOnIInv
<1>5. CASE ~ (Has(book[u], r.id) /\ r.default = "yes")
  <2>1. Finish(p, u, rows, {})
    BY <1>5 DEF RemoveAddress
  <2>2. disturbed[u] = {} => Marked(rows) # {}
    <3>1. disturbed[u] = {} => r.default # "yes"
      BY <1>2, <1>5 DEF SettlesAt
    <3>2. disturbed[u] = {} => \E a \in Marked(book[u]) : a.id # r.id
      BY <1>2, <3>1 DEF SettlesAt
    <3>3. QED
      BY <3>2 DEF Marked
  <2>3. created' \in Nat /\ created <= created' /\ Numbered(rows, created')
        /\ {} \in SUBSET {"unset"}
    BY <1>1, <1>2, <1>3
  <2>4. "overlap" \notin disturbed[u] => AtMostOne(rows)
    BY <1>2, <1>3
  <2>5. QED
    BY <1>1, <1>2, <2>1, <2>2, <2>3, <2>4, FinishIInv
<1>6. QED
  BY <1>4, <1>5

LEMMA RemainingIInv ==
  ASSUME IInv, NEW p \in Requests, FindRemaining(p)
  PROVE  IInv'
<1>1. pc[p] = "remaining" /\ pc[p] \in AddressSteps
  BY DEF FindRemaining, AddressSteps
<1> PICK u, rows, id : u = req[p].user /\ rows = book[u] /\ id = First(rows).id
  OBVIOUS
<1>2. /\ u \in Users /\ created \in Nat /\ Numbered(rows, created)
      /\ "overlap" \notin disturbed[u] => AtMostOne(rows) /\ AloneAt(rows, req[p], "remaining")
  BY <1>1, AtWork
<1>3. CASE rows = {}
  <2>1. Finish(p, u, rows, {}) /\ created' = created
    BY <1>3 DEF FindRemaining
  <2>2. created' \in Nat /\ created <= created' /\ Numbered(rows, created')
    BY <1>2, <2>1
  <2>3. QED
    BY <1>1, <1>2, <1>3, <2>1, <2>2, FinishIInv
<1>4. CASE rows # {}
  <2>1. /\ pc' = [pc EXCEPT ![p] = "promote"] /\ req' = [req EXCEPT ![p].id = id]
        /\ UNCHANGED <<addresses, tokens, money, key, started, counts>>
    BY <1>4 DEF FindRemaining
  <2>2. First(rows) \in rows
    BY <1>2, <1>4, FirstIsRow
  <2>3. id \in Nat /\ Has(rows, id)
    BY <1>2, <2>2 DEF Numbered, Addresses, Has
  <2>4. req'[p].id = id
    BY <2>1 DEF IInv, TypeOK
  <2>5. "overlap" \notin disturbed[u] => AtMostOne(rows) /\ AloneAt(rows, req'[p], "promote")
    BY <1>2 DEF AloneAt
  <2>6. SettlesAt(rows, req'[p], "promote")
    BY <2>3, <2>4 DEF SettlesAt
  <2>7. book' = [book EXCEPT ![u] = rows] /\ UNCHANGED <<created, disturbed>>
    BY <1>2, <2>1 DEF addresses, IInv, TypeOK
  <2>8. "promote" \in AddressSteps \ {"clear_new", "clear"}
    BY DEF AddressSteps
  <2>9. QED
    BY <1>1, <1>2, <2>1, <2>3, <2>5, <2>6, <2>7, <2>8, GoOnIInv
<1>5. QED
  BY <1>3, <1>4

LEMMA PromoteIInv ==
  ASSUME IInv, NEW p \in Requests, Promote(p)
  PROVE  IInv'
<1>1. pc[p] = "promote" /\ pc[p] \in AddressSteps
  BY DEF Promote, AddressSteps
<1> PICK u, r : u = req[p].user /\ r = req[p]
  OBVIOUS
<1> PICK rows : rows = Set(book[u], r.id, TRUE)
  OBVIOUS
<1>2. Finish(p, u, rows, {}) /\ created' = created
  BY DEF Promote
<1>3. /\ u \in Users /\ created \in Nat /\ Numbered(book[u], created)
      /\ "overlap" \notin disturbed[u] => AloneAt(book[u], r, "promote")
      /\ disturbed[u] = {} => SettlesAt(book[u], r, "promote")
  BY <1>1, AtWork
<1>4. /\ Numbered(rows, created)
      /\ Marked(book[u]) = {} => AtMostOne(rows)
      /\ Has(book[u], r.id) => Marked(rows) # {}
  BY <1>3, SetRows
<1>5. "overlap" \notin disturbed[u] => AtMostOne(rows)
  BY <1>3, <1>4 DEF AloneAt
<1>6. disturbed[u] = {} => Marked(rows) # {}
  BY <1>3, <1>4 DEF SettlesAt
<1>7. created' \in Nat /\ created <= created' /\ Numbered(rows, created')
      /\ {} \in SUBSET {"unset"}
  <2>1. created' = created /\ created \in Nat
    BY <1>2, <1>3
  <2>2. created' \in Nat /\ created <= created'
    BY <2>1
  <2>3. Numbered(rows, created')
    BY <1>4, <2>1
  <2>4. QED
    BY <2>2, <2>3
<1>8. QED
  BY <1>1, <1>2, <1>3, <1>5, <1>6, <1>7, FinishIInv

-----------------------------------------------------------------------------
(* Tokens, payout details, failures and restarts                           *)

\* Where nothing happens to addresses and the handlers that work on them.
LEMMA AddressesStay ==
  ASSUME IInv, UNCHANGED addresses,
         \A q \in Requests : pc[q] \in AddressSteps \/ pc'[q] \in AddressSteps =>
                               pc'[q] = pc[q] /\ req'[q] = req[q]
  PROVE  ClearInv' /\ NumberInv' /\ DefaultInv'
<1>1. book' = book /\ created' = created /\ disturbed' = disturbed
  BY DEF addresses
<1>2. ClearInv'
  BY DEF IInv, ClearInv, AddressSteps
<1>3. NumberInv'
  BY <1>1 DEF IInv, NumberInv
<1>4. DefaultInv'
  <2> SUFFICES ASSUME NEW u \in Users PROVE CalmInv(u)' /\ SettledInv(u)'
    BY DEF DefaultInv
  <2>1. Working(u)' = Working(u)
        /\ \A q \in Working(u) : req'[q] = req[q] /\ pc'[q] = pc[q]
    BY DEF Working
  <2>2. QED
    BY <1>1, <2>1, SameUser DEF IInv, DefaultInv
<1>5. QED
  BY <1>2, <1>3, <1>4

LEMMA TokenIInv ==
  ASSUME IInv, NEW u \in Users, NEW t \in Tokens, RegisterToken(u, t) \/ RemoveToken(u, t)
  PROVE  IInv'
<1>1. UNCHANGED <<addresses, legacy, money, key, pc, req, counts>>
      /\ started < MaxHandlers /\ started' = started + 1
  BY DEF RegisterToken, RemoveToken
<1>2. device' \in [Tokens -> Users \cup {None}] /\ holder' \in [Tokens -> Users \cup {None}]
  <2>1. device \in [Tokens -> Users \cup {None}] /\ holder \in [Tokens -> Users \cup {None}]
    BY DEF IInv, TypeOK
  <2>2. CASE RegisterToken(u, t)
    BY <2>1, <2>2 DEF RegisterToken
  <2>3. CASE RemoveToken(u, t)
    BY <2>1, <2>3 DEF RemoveToken
  <2>4. QED
    BY <2>2, <2>3
<1>3. started' \in 0 .. MaxHandlers
  BY <1>1, NatBounds DEF IInv, TypeOK
<1>4. TypeOK'
  BY <1>1, <1>2, <1>3 DEF IInv, TypeOK, addresses, money, counts
<1>5. ClearInv' /\ NumberInv' /\ DefaultInv'
  BY <1>1, AddressesStay
<1>6. TokenInv'
  BY DEF RegisterToken, RemoveToken, IInv, TypeOK, TokenInv
<1>7. FormInv'
  BY <1>1 DEF IInv, FormInv, money
<1>8. QED
  BY <1>4, <1>5, <1>6, <1>7 DEF IInv

LEMMA PatchIInv ==
  ASSUME IInv, NEW p \in Requests, NEW u \in Users, NEW named \in BOOLEAN,
         NEW parts \in SUBSET Parts, PatchProfile(p, u, named, parts)
  PROVE  IInv'
<1> DEFINE step == IF named THEN "name" ELSE "columns"
           r == [user |-> u, id |-> started + 1, default |-> "unsaid"]
<1>1. /\ pc[p] = "idle" /\ started < MaxHandlers /\ started' = started + 1
      /\ pc' = [pc EXCEPT ![p] = step] /\ req' = [req EXCEPT ![p] = r]
      /\ gives' = [gives EXCEPT ![p] = parts]
      /\ UNCHANGED <<addresses, tokens, payout, key, counts>>
  BY DEF PatchProfile, Start
<1>2. started' \in 0 .. MaxHandlers /\ started + 1 \in Nat
  BY <1>1, NatBounds DEF IInv, TypeOK
<1>3. r \in [user : Users \cup {None}, id : Nat, default : {"yes", "no", "unsaid"}]
      /\ r.user = u /\ step \in {"name", "columns"} /\ step \notin AddressSteps
      /\ "idle" \notin AddressSteps
  BY <1>2 DEF AddressSteps
<1> HIDE DEF step, r
<1>4. TypeOK'
  <2>1. req' \in [Requests -> [user : Users \cup {None}, id : Nat,
                               default : {"yes", "no", "unsaid"}]]
    BY <1>1, <1>3 DEF IInv, TypeOK
  <2>2. pc' \in [Requests -> AddressSteps \cup {"idle", "name", "columns"}]
        /\ \A q \in Requests : pc'[q] # "idle" => req'[q].user \in Users
    BY <1>1, <1>3 DEF IInv, TypeOK
  <2>3. gives' \in [Requests -> SUBSET Parts]
    BY <1>1 DEF IInv, TypeOK
  <2>4. QED
    BY <1>1, <1>2, <2>1, <2>2, <2>3 DEF IInv, TypeOK, addresses, tokens, counts
<1>5. ClearInv' /\ NumberInv' /\ DefaultInv'
  <2>1. pc'[p] = step /\ \A q \in Requests \ {p} : pc'[q] = pc[q] /\ req'[q] = req[q]
    BY <1>1 DEF IInv, TypeOK
  <2>2. QED
    BY <1>1, <1>3, <2>1, AddressesStay
<1>6. TokenInv' /\ FormInv'
  BY <1>1 DEF IInv, TokenInv, FormInv, tokens
<1>7. QED
  BY <1>4, <1>5, <1>6 DEF IInv

\* A handler of the profile goes on, or returns.
LEMMA ProfileHandler ==
  ASSUME IInv, NEW p \in Requests, pc[p] \in {"name", "columns"},
         \/ Leave(p)
         \/ pc' = [pc EXCEPT ![p] = "columns"] /\ UNCHANGED <<req, gives>>,
         UNCHANGED <<addresses, tokens, key, started, counts>>
  PROVE  /\ req' \in [Requests -> [user : Users \cup {None}, id : Nat,
                                   default : {"yes", "no", "unsaid"}]]
         /\ pc' \in [Requests -> AddressSteps \cup {"idle", "name", "columns"}]
         /\ \A q \in Requests : pc'[q] # "idle" => req'[q].user \in Users
         /\ gives' \in [Requests -> SUBSET Parts]
         /\ ClearInv' /\ NumberInv' /\ DefaultInv' /\ TokenInv'
<1>1. pc[p] \notin AddressSteps /\ pc[p] # "idle"
      /\ "idle" \notin AddressSteps /\ "columns" \notin AddressSteps
  BY DEF AddressSteps
<1>2. /\ req' \in [Requests -> [user : Users \cup {None}, id : Nat,
                                default : {"yes", "no", "unsaid"}]]
      /\ pc' \in [Requests -> AddressSteps \cup {"idle", "name", "columns"}]
      /\ pc'[p] \in {"idle", "columns"}
  <2>1. Idle \in [user : Users \cup {None}, id : Nat, default : {"yes", "no", "unsaid"}]
    BY IdleType
  <2>2. /\ req \in [Requests -> [user : Users \cup {None}, id : Nat,
                                 default : {"yes", "no", "unsaid"}]]
        /\ pc \in [Requests -> AddressSteps \cup {"idle", "name", "columns"}]
    BY DEF IInv, TypeOK
  <2>3. CASE Leave(p)
    BY <2>1, <2>2, <2>3 DEF Leave
  <2>4. CASE pc' = [pc EXCEPT ![p] = "columns"] /\ UNCHANGED <<req, gives>>
    BY <2>2, <2>4
  <2>5. QED
    BY <2>3, <2>4
<1>3. \A q \in Requests \ {p} : pc'[q] = pc[q] /\ req'[q] = req[q]
  BY DEF Leave, IInv, TypeOK
<1>4. pc'[p] # "idle" => req'[p] = req[p]
  BY DEF Leave, IInv, TypeOK
<1>5. \A q \in Requests : pc'[q] # "idle" => req'[q].user \in Users
  BY <1>1, <1>3, <1>4 DEF IInv, TypeOK
<1>6. ClearInv' /\ NumberInv' /\ DefaultInv'
  BY <1>1, <1>2, <1>3, AddressesStay
<1>7. TokenInv'
  BY DEF tokens, IInv, TokenInv
<1>8. gives' \in [Requests -> SUBSET Parts]
  BY DEF Leave, IInv, TypeOK
<1>9. QED
  BY <1>2, <1>5, <1>6, <1>7, <1>8

LEMMA NameIInv ==
  ASSUME IInv, NEW p \in Requests, WriteName(p)
  PROVE  IInv'
<1>1. /\ pc[p] \in {"name", "columns"}
      /\ Leave(p) \/ (pc' = [pc EXCEPT ![p] = "columns"] /\ UNCHANGED <<req, gives>>)
      /\ UNCHANGED <<addresses, tokens, key, started, counts>> /\ UNCHANGED payout
  BY DEF WriteName
<1>2. /\ req' \in [Requests -> [user : Users \cup {None}, id : Nat,
                                default : {"yes", "no", "unsaid"}]]
      /\ pc' \in [Requests -> AddressSteps \cup {"idle", "name", "columns"}]
      /\ \A q \in Requests : pc'[q] # "idle" => req'[q].user \in Users
      /\ gives' \in [Requests -> SUBSET Parts]
      /\ ClearInv' /\ NumberInv' /\ DefaultInv' /\ TokenInv'
  BY <1>1, ProfileHandler
<1>3. TypeOK'
  BY <1>1, <1>2 DEF IInv, TypeOK, addresses, tokens, counts
<1>4. FormInv'
  BY <1>1 DEF IInv, FormInv
<1>5. QED
  BY <1>2, <1>3, <1>4 DEF IInv

LEMMA ColumnsIInv ==
  ASSUME IInv, NEW p \in Requests, WriteColumns(p)
  PROVE  IInv'
<1> PICK u, given : u = req[p].user /\ given = gives[p]
  OBVIOUS
<1> DEFINE old     == payout[u]
           number  == IF "number" \in given THEN Encrypt(req[p].id) ELSE old.number
           network == IF "network" \in given THEN req[p].id ELSE old.network
           alone   == given # Parts /\ (old.alone \/ given # {})
           row     == [number |-> number, network |-> network, alone |-> alone]
           Rows    == [number : [under : Keys \cup {NoKey}, of : Nat], network : Nat,
                       alone : BOOLEAN]
<1>1. /\ pc[p] \in {"name", "columns"} /\ Leave(p)
      /\ UNCHANGED <<addresses, tokens, key, started, counts>>
      /\ payout' = [payout EXCEPT ![u] = row]
  BY DEF WriteColumns
<1>2. /\ req' \in [Requests -> [user : Users \cup {None}, id : Nat,
                                default : {"yes", "no", "unsaid"}]]
      /\ pc' \in [Requests -> AddressSteps \cup {"idle", "name", "columns"}]
      /\ \A q \in Requests : pc'[q] # "idle" => req'[q].user \in Users
      /\ gives' \in [Requests -> SUBSET Parts]
      /\ ClearInv' /\ NumberInv' /\ DefaultInv' /\ TokenInv'
  BY <1>1, ProfileHandler
<1>3. u \in Users /\ given \subseteq Parts /\ req[p].id \in Nat /\ payout \in [Users -> Rows]
  BY <1>1 DEF IInv, TypeOK
<1>4. /\ number \in [under : Keys \cup {NoKey}, of : Nat] /\ network \in Nat
      /\ alone \in BOOLEAN
  <2>1. Encrypt(req[p].id) \in [under : Keys \cup {NoKey}, of : Nat]
    BY <1>3 DEF IInv, TypeOK, Encrypt
  <2>2. QED
    BY <1>3, <2>1
<1>5. alone \/ number.of = network
  <2>1. CASE given = Parts
    BY <2>1 DEF Encrypt, Parts
  <2>2. CASE given = {}
    <3>1. old.alone \/ old.number.of = old.network
      BY <1>3 DEF IInv, FormInv
    <3>2. QED
      BY <2>2, <3>1 DEF Parts
  <2>3. CASE given # {} /\ given # Parts
    BY <2>3
  <2>4. QED
    BY <2>1, <2>2, <2>3
<1> HIDE DEF number, network, alone
<1>6. row \in Rows /\ (row.alone \/ row.number.of = row.network)
  BY <1>4, <1>5
<1> HIDE DEF row, Rows
<1>7. payout' \in [Users -> Rows] /\ payout'[u] = row
      /\ \A v \in Users \ {u} : payout'[v] = payout[v]
  BY <1>1, <1>3, <1>6
<1>8. TypeOK'
  BY <1>1, <1>2, <1>7 DEF IInv, TypeOK, addresses, tokens, counts, Rows
<1>9. FormInv'
  BY <1>6, <1>7 DEF IInv, FormInv
<1>10. QED
  BY <1>2, <1>8, <1>9 DEF IInv

\* Handlers are gone, which the users they worked for are marked with.
LEMMA GoneInv ==
  ASSUME IInv, NEW u \in Users, book'[u] = book[u], Working(u)' \subseteq Working(u),
         \A q \in Working(u)' : req'[q] = req[q] /\ pc'[q] = pc[q],
         disturbed[u] \subseteq disturbed'[u],
         "overlap" \in disturbed'[u] => "overlap" \in disturbed[u],
         Working(u)' # Working(u) => disturbed'[u] # {}
  PROVE  CalmInv(u)' /\ SettledInv(u)'
<1>1. CalmInv(u) /\ SettledInv(u)
  BY DEF IInv, DefaultInv
<1>2. CalmInv(u)'
  <2> SUFFICES ASSUME "overlap" \notin disturbed'[u]
               PROVE  /\ AtMostOne(book[u])
                      /\ \A p \in Working(u)' : Working(u)' = {p}
                                                /\ AloneAt(book[u], req'[p], pc'[p])
    BY DEF CalmInv
  <2>1. QED
    BY <1>1 DEF CalmInv
<1>3. SettledInv(u)'
  <2> SUFFICES ASSUME disturbed'[u] = {}
               PROVE  /\ Working(u)' = {} /\ book[u] # {} => Marked(book[u]) # {}
                      /\ \A p \in Working(u)' : SettlesAt(book[u], req'[p], pc'[p])
    BY DEF SettledInv
  <2>1. disturbed[u] = {} /\ Working(u)' = Working(u)
    OBVIOUS
  <2>2. QED
    BY <1>1, <2>1 DEF SettledInv
<1>4. QED
  BY <1>2, <1>3

LEMMA FailIInv ==
  ASSUME IInv, NEW p \in Requests, Fail(p)
  PROVE  IInv'
<1> PICK u : u = req[p].user
  OBVIOUS
<1>1. /\ pc[p] # "idle" /\ failures < MaxFailures /\ failures' = failures + 1
      /\ disturbed' = [disturbed EXCEPT ![u] =
                         IF pc[p] \in AddressSteps THEN @ \cup {"failure"} ELSE @]
      /\ pc' = [pc EXCEPT ![p] = "idle"] /\ req' = [req EXCEPT ![p] = Idle]
      /\ gives' = [gives EXCEPT ![p] = {}]
      /\ UNCHANGED <<book, created, tokens, payout, key, started, restarts>>
  BY DEF Fail, Leave
<1>2. u \in Users /\ TypeOK
  BY <1>1 DEF IInv, TypeOK
<1>3. pc'[p] = "idle" /\ "idle" \notin AddressSteps
      /\ \A q \in Requests \ {p} : pc'[q] = pc[q] /\ req'[q] = req[q]
  BY <1>1, <1>2 DEF TypeOK, AddressSteps
<1>4. TypeOK'
  <2>1. disturbed' \in [Users -> SUBSET {"overlap", "failure", "unset"}]
    BY <1>1, <1>2 DEF TypeOK
  <2>2. req' \in [Requests -> [user : Users \cup {None}, id : Nat,
                               default : {"yes", "no", "unsaid"}]]
    BY <1>1, <1>2, IdleType DEF TypeOK
  <2>3. pc' \in [Requests -> AddressSteps \cup {"idle", "name", "columns"}]
        /\ \A q \in Requests : pc'[q] # "idle" => req'[q].user \in Users
    BY <1>1, <1>2, <1>3 DEF TypeOK
  <2>4. failures' \in 0 .. MaxFailures
    BY <1>1, <1>2, NatBounds DEF TypeOK
  <2>5. gives' \in [Requests -> SUBSET Parts]
    BY <1>1, <1>2 DEF TypeOK
  <2>6. QED
    BY <1>1, <1>2, <2>1, <2>2, <2>3, <2>4, <2>5 DEF TypeOK, tokens
<1>5. ClearInv'
  BY <1>3 DEF IInv, ClearInv
<1>6. NumberInv'
  BY <1>1 DEF IInv, NumberInv
<1>7. DefaultInv'
  <2> SUFFICES ASSUME NEW v \in Users PROVE CalmInv(v)' /\ SettledInv(v)'
    BY DEF DefaultInv
  <2>1. Working(v)' \subseteq Working(v)
        /\ \A q \in Working(v)' : req'[q] = req[q] /\ pc'[q] = pc[q]
    BY <1>3 DEF Working
  <2>2. Working(v)' # Working(v) => v = u /\ pc[p] \in AddressSteps
    BY <1>3 DEF Working
  <2>3. /\ disturbed[v] \subseteq disturbed'[v]
        /\ "overlap" \in disturbed'[v] => "overlap" \in disturbed[v]
        /\ v = u /\ pc[p] \in AddressSteps => disturbed'[v] # {}
    BY <1>1, <1>2 DEF TypeOK
  <2>4. QED
    BY <1>1, <2>1, <2>2, <2>3, GoneInv
<1>8. TokenInv' /\ FormInv'
  BY <1>1 DEF IInv, TokenInv, FormInv, tokens
<1>9. QED
  BY <1>4, <1>5, <1>6, <1>7, <1>8 DEF IInv

LEMMA RestartIInv ==
  ASSUME IInv, NEW k \in Keys \cup {NoKey}, Restart(k)
  PROVE  IInv'
<1>1. /\ restarts < MaxRestarts /\ restarts' = restarts + 1 /\ key' = k
      /\ disturbed' = [u \in Users |-> disturbed[u] \cup
                                         IF Working(u) = {} THEN {} ELSE {"failure"}]
      /\ pc' = [p \in Requests |-> "idle"] /\ req' = [p \in Requests |-> Idle]
      /\ gives' = [p \in Requests |-> {}]
      /\ UNCHANGED <<book, created, tokens, payout, started, failures>>
  BY DEF Restart
<1>2. TypeOK
  BY DEF IInv
<1>3. "idle" \notin AddressSteps
  BY DEF AddressSteps
<1>4. TypeOK'
  <2>1. disturbed' \in [Users -> SUBSET {"overlap", "failure", "unset"}]
    BY <1>1, <1>2 DEF TypeOK
  <2>2. restarts' \in 0 .. MaxRestarts
    BY <1>1, <1>2, NatBounds DEF TypeOK
  <2>3. req' \in [Requests -> [user : Users \cup {None}, id : Nat,
                               default : {"yes", "no", "unsaid"}]]
    BY <1>1, IdleType
  <2>4. gives' \in [Requests -> SUBSET Parts]
    BY <1>1
  <2>5. QED
    BY <1>1, <1>2, <2>1, <2>2, <2>3, <2>4 DEF TypeOK, tokens
<1>5. ClearInv'
  BY <1>1 DEF ClearInv
<1>6. NumberInv'
  BY <1>1 DEF IInv, NumberInv
<1>7. DefaultInv'
  <2> SUFFICES ASSUME NEW v \in Users PROVE CalmInv(v)' /\ SettledInv(v)'
    BY DEF DefaultInv
  <2>1. Working(v)' = {}
    BY <1>1, <1>3 DEF Working
  <2>2. /\ disturbed[v] \subseteq disturbed'[v]
        /\ "overlap" \in disturbed'[v] => "overlap" \in disturbed[v]
        /\ Working(v) # {} => disturbed'[v] # {}
    BY <1>1
  <2>3. QED
    BY <1>1, <2>1, <2>2, GoneInv
<1>8. TokenInv' /\ FormInv'
  BY <1>1 DEF IInv, TokenInv, FormInv, tokens
<1>9. QED
  BY <1>4, <1>5, <1>6, <1>7, <1>8 DEF IInv

-----------------------------------------------------------------------------
(* Theorems                                                                *)

LEMMA InitIInv == Init => IInv
<1> SUFFICES ASSUME Init PROVE IInv
  OBVIOUS
<1>1. NoNumber \in [under : Keys \cup {NoKey}, of : Nat] /\ NoNumber.of = 0
  BY DEF NoNumber
<1>2. payout \in [Users -> [number : [under : Keys \cup {NoKey}, of : Nat], network : Nat,
                            alone : BOOLEAN]]
      /\ gives \in [Requests -> SUBSET Parts] /\ FormInv
  BY <1>1 DEF Init, FormInv
<1>3. req \in [Requests -> [user : Users \cup {None}, id : Nat,
                            default : {"yes", "no", "unsaid"}]]
  BY IdleType DEF Init
<1>4. book \in [Users -> SUBSET [id : Nat \ {0}, default : BOOLEAN]] /\ created \in Nat
  BY DEF Init
<1>5. TypeOK
  BY <1>2, <1>3, <1>4, NatBounds DEF Init, TypeOK
<1>6. ClearInv /\ NumberInv /\ TokenInv
  BY DEF Init, ClearInv, NumberInv, TokenInv
<1>7. DefaultInv
  <2>1. \A u \in Users : Working(u) = {} /\ book[u] = {}
    BY DEF Init, Working, AddressSteps
  <2>2. QED
    BY <2>1 DEF DefaultInv, CalmInv, SettledInv, AtMostOne, Marked
<1>8. QED
  BY <1>2, <1>5, <1>6, <1>7 DEF IInv

LEMMA NextIInv == IInv /\ [Next]_vars => IInv'
<1> SUFFICES ASSUME IInv, [Next]_vars PROVE IInv'
  OBVIOUS
<1>1. CASE Next
  <2>1. ASSUME NEW p \in Requests, Handle(p) PROVE IInv'
    BY <2>1, ClearIInv, InsertIInv, WriteIInv, RemoveIInv, RemainingIInv, PromoteIInv,
      NameIInv, ColumnsIInv DEF Handle
  <2>2. QED
    BY <1>1, <2>1, CreateIInv, UpdateIInv, DeleteIInv, PatchIInv, TokenIInv, FailIInv,
      RestartIInv DEF Next
<1>2. CASE UNCHANGED vars
  <2>1. UNCHANGED <<addresses, tokens, money, key, pc, req, started, counts>>
    BY <1>2 DEF vars
  <2>2. TypeOK'
    BY <2>1 DEF IInv, TypeOK, addresses, tokens, money, counts
  <2>3. ClearInv' /\ NumberInv' /\ DefaultInv'
    BY <2>1, AddressesStay
  <2>4. TokenInv' /\ FormInv'
    BY <2>1 DEF IInv, TokenInv, FormInv, tokens, money
  <2>5. QED
    BY <2>2, <2>3, <2>4 DEF IInv
<1>3. QED
  BY <1>1, <1>2

\* The inductive invariant holds in every state.
THEOREM Invariance == Spec => []IInv
BY InitIInv, NextIInv, PTL DEF Spec

\* Every variable keeps its type.
THEOREM TypeCorrect == Spec => []TypeOK
<1>1. IInv => TypeOK
  BY DEF IInv
<1>2. QED
  BY <1>1, Invariance, PTL

\* AddressService: one of the addresses of a user is the default, unless requests
\* overlapped, one failed half-way, or he took the mark away himself.
THEOREM OneDefault == Spec => []DefaultIsKept
<1>1. IInv => DefaultIsKept
  <2> SUFFICES ASSUME IInv, NEW u \in Users
               PROVE  /\ Cardinality(Defaults(u)) > 1 => "overlap" \in disturbed[u]
                      /\ (Working(u) = {} /\ book[u] # {} /\ Defaults(u) = {})
                           => disturbed[u] # {}
    BY DEF DefaultIsKept
  <2>1. CalmInv(u) /\ SettledInv(u)
    BY DEF IInv, DefaultInv
  <2>2. "overlap" \notin disturbed[u] => \A a, b \in Defaults(u) : a = b
    BY <2>1 DEF CalmInv, AtMostOne, Defaults
  <2>3. "overlap" \notin disturbed[u] => ~ (Cardinality(Defaults(u)) > 1)
    BY <2>2, OneOrNone
  <2>4. (Working(u) = {} /\ book[u] # {} /\ Defaults(u) = {}) => disturbed[u] # {}
    BY <2>1 DEF SettledInv, Defaults
  <2>5. QED
    BY <2>3, <2>4
<1>2. QED
  BY <1>1, Invariance, PTL

\* registerDeviceToken and removeDeviceToken: a device gets the messages of the
\* user who registered it last, a late removal by another one notwithstanding.
THEOREM TokensFollow == Spec => []TokenFollowsDevice
<1>1. IInv => TokenFollowsDevice
  BY ConstantsDiffer DEF IInv, TypeOK, TokenInv, TokenFollowsDevice, ActiveTokens
<1>2. QED
  BY <1>1, Invariance, PTL

\* updateProfile, encrypt and decrypt: a payout number that can be read is of the
\* form of the network it is stored with, unless the user has since given one of
\* the two alone, and it is never an envelope, whatever keys the server had.
THEOREM PayoutOfOneForm == Spec => []PayoutIsOfOneForm
<1>1. IInv => PayoutIsOfOneForm
  BY DEF IInv, FormInv, PayoutIsOfOneForm, Decrypt, Number
<1>2. QED
  BY <1>1, Invariance, PTL
=============================================================================

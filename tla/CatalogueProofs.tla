--------------------------- MODULE CatalogueProofs ---------------------------
(***************************************************************************)
(* Proofs of the safety properties of module Catalogue, for any intents,   *)
(* crops, buyers, prices, page size and bounds.                            *)
(***************************************************************************)
EXTENDS Catalogue, Integers, FiniteSetTheorems, TLAPS

\* What a handler knows: the reference price it inserts, that the crop of the
\* listing has a row, and that a crop it did not find was typed with blanks.
HandlerInv ==
  \A n \in Intents :
    /\ pc[n] \in {"find", "crop", "insert"} => form[n].ref \in Prices \cup {Fallback}
    /\ pc[n] = "insert" => form[n].crop \in crops
    /\ (pc[n] = "crop" /\ form[n].there) => form[n].way = "padded"

\* The listings of an intent whose answer was not lost: one, once it is inserted.
OnceInv ==
  \A n \in Intents : n \notin lost =>
    /\ pc[n] \notin {"audit", "done"} => \A i \in DOMAIN listings : listings[i].intent # n
    /\ \A i, j \in DOMAIN listings :
         (listings[i].intent = n /\ listings[j].intent = n) => i = j

\* A crop has one quote a day.
QuoteInv == \A q, r \in quotes : (q.crop = r.crop /\ q.day = r.day) => q = r

\* Pages whose listings have been found.
PagesFound(p) == IF "list" \in p.todo THEN p.page - 1 ELSE p.page

\* What a buyer has not seen is on the pages he has not been shown, and the count
\* that came with the last page says that there are more; a count that came before
\* its page is still right.
PagerInv ==
  \A b \in Buyers : (pager[b].page > 0 /\ ~ pager[b].left) =>
    /\ (pager[b].todo = {"list"} /\ ~ pager[b].grew) =>
         pager[b].total = TotalPages(pager[b].large)
    /\ \A i \in pager[b].due :
         /\ i \in Active(pager[b].large)
         /\ i \in pager[b].seen \/ Rank(i, pager[b].large) >= PagesFound(pager[b]) * Limit
         /\ (pager[b].todo = {} /\ ~ pager[b].grew) =>
              i \in pager[b].seen \/ pager[b].total > pager[b].page

IInv ==
  /\ TypeOK
  /\ HandlerInv
  /\ OnceInv
  /\ QuoteInv
  /\ PagerInv
  /\ RefusedOnlyByBlanksOrOverlap

-----------------------------------------------------------------------------
(* Quotes                                                                  *)

\* Every set of numbers that is not empty has a least one: the intervals below
\* its members are ordered as they are.
LEMMA Least ==
  ASSUME NEW S \in SUBSET Nat, S # {}
  PROVE  \E x \in S : \A y \in S : x <= y
<1> DEFINE Below == {0 .. x : x \in S}
<1>1. Below \subseteq FiniteSubsetsOf(Nat)
  <2> SUFFICES ASSUME NEW x \in S PROVE 0 .. x \in FiniteSubsetsOf(Nat)
    OBVIOUS
  <2>1. x \in Int /\ 0 \in Int
    OBVIOUS
  <2>2. IsFiniteSet(0 .. x)
    BY <2>1, FS_Interval
  <2>3. QED
    BY <2>2 DEF FiniteSubsetsOf
<1>2. Below # {}
  OBVIOUS
<1>3. PICK b \in Below : \A c \in Below : <<c, b>> \notin StrictSubsetOrdering(Nat)
  <2> HIDE DEF Below
  <2>1. QED
    BY <1>1, <1>2, FS_StrictSubsetOrderingWellFounded, WFMin
<1>4. PICK x \in S : b = 0 .. x
  BY <1>3
<1>5. \A y \in S : x <= y
  <2> SUFFICES ASSUME NEW y \in S, y < x PROVE FALSE
    OBVIOUS
  <2>1. 0 .. y \in SUBSET Nat /\ 0 .. x \in SUBSET Nat /\ 0 .. y \subseteq 0 .. x
    OBVIOUS
  <2>2. x \in 0 .. x /\ x \notin 0 .. y
    OBVIOUS
  <2>3. <<0 .. y, 0 .. x>> \in StrictSubsetOrdering(Nat)
    BY <2>1, <2>2 DEF StrictSubsetOrdering
  <2>4. QED
    BY <1>3, <1>4, <2>3
<1>6. QED
  BY <1>5

\* There is a newest quote.
LEMMA NewestQuote ==
  ASSUME TypeOK, NEW Q \in SUBSET quotes, Q # {}
  PROVE  Newest(Q) \in Q /\ \A r \in Q : r.day <= Newest(Q).day
<1> DEFINE Ages == {today - q.day : q \in Q}
<1>1. today \in Nat /\ \A q \in Q : q.day \in 0 .. today
  BY DEF TypeOK
<1>2. Ages \in SUBSET Nat /\ Ages # {}
  BY <1>1
<1>3. PICK age \in Ages : \A other \in Ages : age <= other
  <2> HIDE DEF Ages
  <2>1. QED
    BY <1>2, Least
<1>4. PICK q \in Q : age = today - q.day
  BY <1>3
<1>5. \A r \in Q : r.day <= q.day
  <2> SUFFICES ASSUME NEW r \in Q PROVE r.day <= q.day
    OBVIOUS
  <2>1. today - q.day <= today - r.day
    BY <1>3, <1>4
  <2>2. QED
    BY <1>1, <2>1
<1>6. QED
  BY <1>5 DEF Newest

LEMMA LatestType ==
  ASSUME TypeOK, NEW text
  PROVE  LatestQuote(text) \in Prices \cup {Fallback}
<1> DEFINE Q == {q \in quotes : Matches(text, q.crop)}
<1>1. CASE Q = {}
  BY <1>1 DEF LatestQuote
<1>2. CASE Q # {}
  <2>1. Q \in SUBSET quotes
    OBVIOUS
  <2>2. Newest(Q) \in Q
    BY <1>2, <2>1, NewestQuote
  <2>3. Newest(Q).price \in Prices
    BY <2>2 DEF TypeOK
  <2>4. QED
    BY <1>2, <2>3 DEF LatestQuote
<1>3. QED
  BY <1>1, <1>2

LEMMA SeedsOneQuote ==
  ASSUME TypeOK, QuoteInv, NEW c \in Crops, NEW price \in Prices, Seed(c, price)
  PROVE  quotes' \subseteq [crop : crops', day : 0 .. today, run : Nat, price : Prices]
         /\ QuoteInv'
<1> DEFINE new == [crop |-> c, day |-> today, run |-> 0, price |-> price]
<1>1. /\ crops' = crops \cup {c}
      /\ quotes' = {q \in quotes : q.crop # c \/ q.day # today} \cup {new}
  BY DEF Seed
<1>2. quotes' \subseteq [crop : crops', day : 0 .. today, run : Nat, price : Prices]
  <2> SUFFICES ASSUME NEW q \in quotes'
               PROVE  q \in [crop : crops', day : 0 .. today, run : Nat, price : Prices]
    OBVIOUS
  <2>1. CASE q = new
    BY <1>1, <2>1 DEF TypeOK
  <2>2. CASE q \in quotes
    BY <1>1, <2>2 DEF TypeOK
  <2>3. QED
    BY <1>1, <2>1, <2>2
<1>3. QuoteInv'
  BY <1>1 DEF QuoteInv
<1>4. QED
  BY <1>2, <1>3

-----------------------------------------------------------------------------
(* Listings                                                                *)

LEMMA InsertRows ==
  ASSUME TypeOK, HandlerInv, NEW n \in Intents, Insert(n)
  PROVE  /\ Len(listings) \in Nat /\ DOMAIN listings = 1 .. Len(listings)
         /\ listings' \in Seq(Rows) /\ Len(listings') = Len(listings) + 1
         /\ DOMAIN listings' = 1 .. Len(listings) + 1
         /\ \A i \in DOMAIN listings : listings'[i] = listings[i]
         /\ listings'[Len(listings) + 1] =
              [intent |-> n, crop |-> form[n].crop, ref |-> form[n].ref,
               large |-> form[n].large, status |-> "active"]
<1> DEFINE row == [intent |-> n, crop |-> form[n].crop, ref |-> form[n].ref,
                   large |-> form[n].large, status |-> "active"]
<1>1. form[n] \in Forms /\ form[n].ref \in Prices \cup {Fallback}
  BY DEF TypeOK, HandlerInv, Insert, At
<1>2. row \in Rows
  BY <1>1 DEF Forms, Rows
<1>3. listings' = Append(listings, row) /\ listings \in Seq(Rows)
  BY DEF Insert, Become, TypeOK
<1> HIDE DEF row
<1>4. /\ Len(listings) \in Nat /\ DOMAIN listings = 1 .. Len(listings)
      /\ listings' \in Seq(Rows) /\ Len(listings') = Len(listings) + 1
      /\ DOMAIN listings' = 1 .. Len(listings) + 1
      /\ \A i \in DOMAIN listings : listings'[i] = listings[i]
      /\ listings'[Len(listings) + 1] = row
  BY <1>2, <1>3
<1>5. QED
  BY <1>4 DEF row

\* A listing that is changed keeps its intent, crop and reference price.
LEMMA ChangeRows ==
  ASSUME TypeOK, NEW k \in DOMAIN listings, NEW status \in {"active", "gone"},
         \/ listings' = [listings EXCEPT ![k].status = status]
         \/ listings' = [listings EXCEPT ![k].large = ~@]
  PROVE  /\ listings' \in Seq(Rows) /\ Len(listings') = Len(listings)
         /\ DOMAIN listings' = DOMAIN listings
         /\ \A i \in DOMAIN listings :
              /\ listings'[i].intent = listings[i].intent
              /\ listings'[i].crop = listings[i].crop
              /\ i # k => listings'[i] = listings[i]
<1>1. listings \in Seq(Rows) /\ listings[k] \in Rows
  BY DEF TypeOK
<1>2. CASE listings' = [listings EXCEPT ![k].status = status]
  <2> DEFINE row == [listings[k] EXCEPT !.status = status]
  <2>1. row \in Rows /\ row.intent = listings[k].intent /\ row.crop = listings[k].crop
    BY <1>1 DEF Rows
  <2>2. listings' = [listings EXCEPT ![k] = row]
    BY <1>1, <1>2
  <2> HIDE DEF row
  <2>3. QED
    BY <1>1, <2>1, <2>2
<1>3. CASE listings' = [listings EXCEPT ![k].large = ~@]
  <2> DEFINE row == [listings[k] EXCEPT !.large = ~@]
  <2>1. row \in Rows /\ row.intent = listings[k].intent /\ row.crop = listings[k].crop
    BY <1>1 DEF Rows
  <2>2. listings' = [listings EXCEPT ![k] = row]
    BY <1>1, <1>3
  <2> HIDE DEF row
  <2>3. QED
    BY <1>1, <2>1, <2>2
<1>4. QED
  BY <1>2, <1>3

\* When the rows change, the buyers are where they were, and those who page
\* through them and have lost nothing have what they had.
LEMMA BecomeType ==
  ASSUME TypeOK, NEW rows, Become(rows)
  PROVE  /\ listings' = rows /\ pager' \in [Buyers -> Pagers]
         /\ \A b \in Buyers : LET large == pager[b].large IN
              /\ pager'[b].page = pager[b].page /\ pager'[b].large = large
              /\ pager'[b].todo = pager[b].todo /\ pager'[b].total = pager[b].total
              /\ pager'[b].due = pager[b].due /\ pager'[b].seen = pager[b].seen
              /\ (pager[b].page > 0 /\ ~ pager'[b].left) =>
                   ~ pager[b].left /\ Fitting(listings, large) \subseteq Fitting(rows, large)
              /\ ~ pager'[b].grew =>
                   /\ ~ pager[b].grew
                   /\ pager[b].todo = {"list"} =>
                        Fitting(rows, large) \subseteq Fitting(listings, large)
<1> DEFINE was(b)  == Fitting(listings, pager[b].large)
           now(b)  == Fitting(rows, pager[b].large)
           lost1(b) == pager[b].page > 0 /\ ~ (was(b) \subseteq now(b))
           came(b) == pager[b].todo = {"list"} /\ ~ (now(b) \subseteq was(b))
           p(b)    == [pager[b] EXCEPT !.left = @ \/ lost1(b), !.grew = @ \/ came(b)]
<1>1. listings' = rows /\ pager' = [b \in Buyers |-> p(b)]
  BY DEF Become
<1>2. \A b \in Buyers : lost1(b) \in BOOLEAN /\ came(b) \in BOOLEAN
  OBVIOUS
<1>3. ASSUME NEW b \in Buyers
      PROVE  /\ p(b) \in Pagers
             /\ p(b).page = pager[b].page /\ p(b).large = pager[b].large
             /\ p(b).todo = pager[b].todo /\ p(b).total = pager[b].total
             /\ p(b).due = pager[b].due /\ p(b).seen = pager[b].seen
             /\ p(b).left = (pager[b].left \/ lost1(b))
             /\ p(b).grew = (pager[b].grew \/ came(b))
  <2>1. pager[b] \in Pagers
    BY DEF TypeOK
  <2> HIDE DEF lost1, came
  <2>2. QED
    BY <1>2, <2>1 DEF Pagers
<1> HIDE DEF p
<1>4. pager' \in [Buyers -> Pagers] /\ \A b \in Buyers : pager'[b] = p(b)
  BY <1>1, <1>3
<1>5. QED
  BY <1>1, <1>3, <1>4

-----------------------------------------------------------------------------
(* Types, and what a handler knows                                         *)

LEMMA InitIInv == Init => IInv
<1> SUFFICES ASSUME Init PROVE IInv
  OBVIOUS
<1>1. form \in [Intents -> Forms]
  BY DEF Init, Forms
<1>2. NoPage \in Pagers /\ NoPage.page = 0
  BY DEF NoPage, Pagers
<1>3. listings \in Seq(Rows) /\ Len(listings) = 0 /\ DOMAIN listings = {}
  BY DEF Init
<1>4. TypeOK
  BY <1>1, <1>2, <1>3, NatBounds DEF Init, TypeOK
<1>5. HandlerInv /\ OnceInv
  BY <1>3 DEF Init, HandlerInv, OnceInv
<1>6. QuoteInv
  BY DEF Init, QuoteInv
<1>7. PagerInv
  BY <1>2 DEF Init, PagerInv
<1>8. RefusedOnlyByBlanksOrOverlap
  BY DEF Init, RefusedOnlyByBlanksOrOverlap
<1>9. QED
  BY <1>4, <1>5, <1>6, <1>7, <1>8 DEF IInv

\* The steps that leave the forms and the listings alone.
LEMMA MoreCrops ==
  ASSUME TypeOK, HandlerInv, NEW c \in Crops, crops' = crops \cup {c},
         UNCHANGED <<listings, today, pc, form, pager, updates, failures, clashes, lost>>,
         quotes' \subseteq [crop : crops', day : 0 .. today, run : Nat, price : Prices]
  PROVE  TypeOK' /\ HandlerInv'
<1>1. TypeOK'
  BY DEF TypeOK
<1>2. HandlerInv'
  BY DEF HandlerInv
<1>3. QED
  BY <1>1, <1>2

LEMMA HandlerType ==
  ASSUME TypeOK, HandlerInv, NEW n \in Intents,
         \/ Submit(n) \/ FindCrop(n) \/ CreateCrop(n) \/ Insert(n) \/ Log(n) \/ Fail(n)
  PROVE  TypeOK' /\ HandlerInv'
<1>0. form[n] \in Forms /\ form[n].crop \in Crops /\ failures \in 0 .. MaxFailures
  BY DEF TypeOK, Forms
<1>1. CASE Submit(n)
  <2>1. LatestQuote(form[n]) \in Prices \cup {Fallback}
    BY LatestType
  <2>2. form' \in [Intents -> Forms]
    BY <1>1, <2>1 DEF Submit, TypeOK, Forms
  <2>3. TypeOK'
    BY <1>1, <2>2 DEF Submit, Goto, TypeOK
  <2>4. HandlerInv'
    BY <1>1, <2>1 DEF Submit, Goto, TypeOK, HandlerInv
  <2>5. QED
    BY <2>3, <2>4
<1>2. CASE FindCrop(n)
  <2>1. form' \in [Intents -> Forms]
    <3> DEFINE there == form[n].crop \in crops
               f == [form[n] EXCEPT !.there = there]
    <3>1. there \in BOOLEAN
      OBVIOUS
    <3>2. f \in Forms
      <4> HIDE DEF there
      <4>1. QED
        BY <1>0, <3>1 DEF Forms
    <3>3. form' = [form EXCEPT ![n] = f]
      BY <1>2 DEF FindCrop, TypeOK
    <3> HIDE DEF f
    <3>4. QED
      BY <3>2, <3>3 DEF TypeOK
  <2>2. TypeOK'
    BY <1>2, <2>1 DEF FindCrop, Goto, TypeOK
  <2>3. \A m \in Intents : form'[m].crop = form[m].crop /\ form'[m].way = form[m].way
                           /\ form'[m].ref = form[m].ref
    BY <1>2 DEF FindCrop, TypeOK
  <2>4. /\ pc[n] = "find" /\ form'[n].there = (form[n].crop \in crops)
        /\ (\E c \in crops : Matches(form[n], c)) => pc'[n] = "insert"
        /\ ~ (\E c \in crops : Matches(form[n], c)) => pc'[n] = "crop"
        /\ \A m \in Intents \ {n} : form'[m] = form[m] /\ pc'[m] = pc[m]
    BY <1>2 DEF FindCrop, Goto, At, TypeOK
  <2>5. (\E c \in crops : Matches(form[n], c)) => form[n].crop \in crops
    BY DEF Matches
  <2>6. ~ (\E c \in crops : Matches(form[n], c)) /\ form[n].crop \in crops
          => form[n].way = "padded"
    BY DEF Matches
  <2>7. crops' = crops
    BY <1>2 DEF FindCrop
  <2>8. HandlerInv'
    <3> SUFFICES ASSUME NEW m \in Intents
                 PROVE  /\ pc'[m] \in {"find", "crop", "insert"}
                             => form'[m].ref \in Prices \cup {Fallback}
                        /\ pc'[m] = "insert" => form'[m].crop \in crops
                        /\ (pc'[m] = "crop" /\ form'[m].there) => form'[m].way = "padded"
      BY <2>7 DEF HandlerInv
    <3>1. CASE m = n
      BY <2>3, <2>4, <2>5, <2>6, <3>1 DEF HandlerInv
    <3>2. CASE m # n
      BY <2>4, <3>2 DEF HandlerInv
    <3>3. QED
      BY <3>1, <3>2
  <2>9. QED
    BY <2>2, <2>8
<1>3. CASE CreateCrop(n)
  <2>1. CASE form[n].crop \in crops
    <3>1. clashes' = clashes \cup {[intent |-> n, there |-> form[n].there]}
          /\ pc' = [pc EXCEPT ![n] = "failed"]
          /\ UNCHANGED <<crops, quotes, listings, today, form, pager, updates, failures, lost>>
      BY <1>3, <2>1 DEF CreateCrop, Goto
    <3>2. form[n].there \in BOOLEAN
      BY <1>0 DEF Forms
    <3>3. TypeOK'
      BY <3>1, <3>2 DEF TypeOK
    <3>4. HandlerInv'
      BY <3>1 DEF TypeOK, HandlerInv
    <3>5. QED
      BY <3>3, <3>4
  <2>2. CASE form[n].crop \notin crops
    <3>1. crops' = crops \cup {form[n].crop} /\ pc' = [pc EXCEPT ![n] = "insert"]
          /\ UNCHANGED <<quotes, listings, today, form, pager, updates, failures, clashes, lost>>
      BY <1>3, <2>2 DEF CreateCrop, Goto
    <3>2. TypeOK'
      BY <1>0, <3>1 DEF TypeOK
    <3>3. HandlerInv'
      BY <1>3, <3>1 DEF TypeOK, HandlerInv, CreateCrop, At
    <3>4. QED
      BY <3>2, <3>3
  <2>3. QED
    BY <2>1, <2>2
<1>4. CASE Insert(n)
  <2> DEFINE row == [intent |-> n, crop |-> form[n].crop, ref |-> form[n].ref,
                     large |-> form[n].large, status |-> "active"]
  <2>0. row.crop = form[n].crop
    OBVIOUS
  <2> HIDE DEF row
  <2>1. /\ Len(listings) \in Nat /\ DOMAIN listings = 1 .. Len(listings)
        /\ listings' \in Seq(Rows) /\ Len(listings') = Len(listings) + 1
        /\ DOMAIN listings' = 1 .. Len(listings) + 1
        /\ \A i \in DOMAIN listings : listings'[i] = listings[i]
        /\ listings'[Len(listings) + 1].crop = form[n].crop
    BY <1>4, <2>0, InsertRows DEF row
  <2>2. form[n].crop \in crops
    BY <1>4 DEF HandlerInv, Insert, At
  <2>3. \A i \in DOMAIN listings' : listings'[i].crop \in crops
    BY <2>1, <2>2 DEF TypeOK
  <2>4. Len(listings') <= MaxListings
    BY <1>4, <2>1, NatBounds DEF Insert
  <2>5. /\ form' \in [Intents -> Forms]
        /\ \A m \in Intents : form'[m].crop = form[m].crop /\ form'[m].way = form[m].way
        /\ \A m \in Intents \ {n} : form'[m] = form[m]
    <3>1. form' = [form EXCEPT ![n] = [form[n] EXCEPT !.ref = 0, !.there = FALSE]]
      BY <1>4 DEF Insert, TypeOK
    <3>2. [form[n] EXCEPT !.ref = 0, !.there = FALSE] \in Forms
      BY <1>0 DEF Forms
    <3>3. QED
      BY <1>0, <3>1, <3>2 DEF TypeOK, Forms
  <2>6. TypeOK'
    <3>1. pager' \in [Buyers -> Pagers]
      BY <1>4, BecomeType DEF Insert
    <3>2. QED
      BY <1>4, <2>1, <2>3, <2>4, <2>5, <3>1 DEF Insert, Goto, TypeOK
  <2>7. pc' = [pc EXCEPT ![n] = "audit"] /\ crops' = crops
    BY <1>4 DEF Insert, Goto
  <2>8. HandlerInv'
    BY <2>5, <2>7 DEF HandlerInv, TypeOK
  <2>9. QED
    BY <2>6, <2>8
<1>5. CASE Log(n)
  <2>1. failures' \in 0 .. MaxFailures
    BY <1>0, <1>5, NatBounds DEF Log
  <2>2. TypeOK'
    BY <1>5, <2>1 DEF Log, Goto, TypeOK
  <2>3. HandlerInv'
    BY <1>5 DEF Log, Goto, TypeOK, HandlerInv
  <2>4. QED
    BY <2>2, <2>3
<1>6. CASE Fail(n)
  <2>1. failures' \in 0 .. MaxFailures
    BY <1>0, <1>6, NatBounds DEF Fail
  <2>2. lost' \subseteq Intents
    BY <1>6 DEF Fail, TypeOK
  <2>3. TypeOK'
    BY <1>6, <2>1, <2>2 DEF Fail, Goto, TypeOK
  <2>4. HandlerInv'
    BY <1>6 DEF Fail, Goto, TypeOK, HandlerInv
  <2>5. QED
    BY <2>3, <2>4
<1>7. QED
  BY <1>1, <1>2, <1>3, <1>4, <1>5, <1>6

\* What a request or a query of a buyer makes of his row.
Turned(b) ==
  \/ pager[b].page > 0 /\ pager[b].todo = {} /\ ~ HasRead(b)
     /\ pager'[b] = [pager[b] EXCEPT !.page = @ + 1, !.todo = {"list", "count"}, !.grew = FALSE]
  \/ "list" \in pager[b].todo
     /\ pager'[b] = [pager[b] EXCEPT !.todo = @ \ {"list"},
                                    !.seen = @ \cup Page(pager[b].page, pager[b].large)]
  \/ "count" \in pager[b].todo
     /\ pager'[b] = [pager[b] EXCEPT !.todo = @ \ {"count"},
                                    !.total = TotalPages(pager[b].large)]
  \/ pager'[b] = NoPage
  \/ \E large \in BOOLEAN :
       pager'[b] = [NoPage EXCEPT !.page = 1, !.large = large, !.todo = {"list", "count"},
                                  !.due = Active(large)]

LEMMA BuyerType ==
  ASSUME TypeOK, NEW b \in Buyers,
         \/ BrowseOn(b) \/ FindPage(b) \/ CountPages(b) \/ StartAgain(b)
         \/ \E large \in BOOLEAN : Browse(b, large)
  PROVE  /\ pager' \in [Buyers -> Pagers] /\ Turned(b)
         /\ \A c \in Buyers \ {b} : pager'[c] = pager[c]
         /\ UNCHANGED <<crops, quotes, listings, today, pc, form, updates, failures, clashes,
                       lost>>
<1>1. /\ DOMAIN listings = 1 .. Len(listings) /\ Len(listings) \in Nat
      /\ pager \in [Buyers -> Pagers] /\ pager[b] \in Pagers
  BY DEF TypeOK
<1>2. \A large : Active(large) \in SUBSET Nat
  BY <1>1 DEF Active, Fitting
<1>3. \A k, large : Page(k, large) \in SUBSET Nat
  BY <1>2 DEF Page
<1>4. \A large : TotalPages(large) \in Nat
  <2> SUFFICES ASSUME NEW large PROVE TotalPages(large) \in Nat
    OBVIOUS
  <2>1. Active(large) \subseteq 1 .. Len(listings) /\ IsFiniteSet(1 .. Len(listings))
    BY <1>1, FS_Interval DEF Active, Fitting
  <2>2. Cardinality(Active(large)) \in Nat
    BY <2>1, FS_Subset, FS_CardinalityType
  <2>3. QED
    BY <2>2, NatBounds DEF TotalPages
<1>5. NoPage \in Pagers
  BY DEF NoPage, Pagers
<1>6. PICK row \in Pagers : Turn(b, row) /\ (pager'[b] = row => Turned(b))
  <2>1. CASE BrowseOn(b)
    <3> DEFINE page == pager[b].page + 1
               todo == {"list", "count"}
               grew == FALSE
               row  == [pager[b] EXCEPT !.page = page, !.todo = todo, !.grew = grew]
    <3>1. row \in Pagers
      <4>1. page \in Nat /\ todo \in SUBSET {"list", "count"} /\ grew \in BOOLEAN
        BY <1>1 DEF Pagers
      <4> HIDE DEF page, todo, grew
      <4>2. QED
        BY <1>1, <4>1 DEF Pagers
    <3>2. Turn(b, row)
      BY <2>1 DEF BrowseOn
    <3>3. pager'[b] = row => Turned(b)
      BY <2>1 DEF BrowseOn, Turned
    <3>4. QED
      BY <3>1, <3>2, <3>3
  <2>2. CASE FindPage(b)
    <3> DEFINE P   == Page(pager[b].page, pager[b].large)
               row == [pager[b] EXCEPT !.todo = @ \ {"list"}, !.seen = @ \cup P]
    <3>1. row \in Pagers
      <4>1. P \in SUBSET Nat
        BY <1>3
      <4> HIDE DEF P
      <4>2. QED
        BY <1>1, <4>1 DEF Pagers
    <3>2. Turn(b, row)
      BY <2>2 DEF FindPage
    <3>3. pager'[b] = row => Turned(b)
      BY <2>2 DEF FindPage, Turned
    <3>4. QED
      BY <3>1, <3>2, <3>3
  <2>3. CASE CountPages(b)
    <3> DEFINE n   == TotalPages(pager[b].large)
               row == [pager[b] EXCEPT !.todo = @ \ {"count"}, !.total = n]
    <3>1. row \in Pagers
      <4>1. n \in Nat
        BY <1>4
      <4> HIDE DEF n
      <4>2. QED
        BY <1>1, <4>1 DEF Pagers
    <3>2. Turn(b, row)
      BY <2>3 DEF CountPages
    <3>3. pager'[b] = row => Turned(b)
      BY <2>3 DEF CountPages, Turned
    <3>4. QED
      BY <3>1, <3>2, <3>3
  <2>4. CASE StartAgain(b)
    BY <1>5, <2>4 DEF StartAgain, Turned
  <2>5. ASSUME NEW large \in BOOLEAN, Browse(b, large)
        PROVE  \E row \in Pagers : Turn(b, row) /\ (pager'[b] = row => Turned(b))
    <3> DEFINE A   == Active(large)
               row == [NoPage EXCEPT !.page = 1, !.large = large, !.todo = {"list", "count"},
                                     !.due = A]
    <3>1. row \in Pagers
      <4>1. A \in SUBSET Nat
        BY <1>2
      <4> HIDE DEF A
      <4>2. QED
        BY <1>5, <4>1 DEF Pagers
    <3>2. Turn(b, row)
      BY <2>5 DEF Browse
    <3>3. pager'[b] = row => Turned(b)
      BY DEF Turned
    <3>4. QED
      BY <3>1, <3>2, <3>3
  <2>6. QED
    BY <2>1, <2>2, <2>3, <2>4, <2>5
<1>7. QED
  BY <1>1, <1>6 DEF Turn

LEMMA NextType ==
  ASSUME TypeOK, HandlerInv, QuoteInv, Next
  PROVE  TypeOK' /\ HandlerInv'
<1>1. ASSUME NEW c \in Crops, SeedCrop(c) PROVE TypeOK' /\ HandlerInv'
  <2>1. quotes' \subseteq [crop : crops', day : 0 .. today, run : Nat, price : Prices]
    BY <1>1 DEF SeedCrop, TypeOK
  <2>2. QED
    BY <1>1, <2>1, MoreCrops DEF SeedCrop
<1>2. ASSUME NEW c \in Crops, NEW price \in Prices, Seed(c, price)
      PROVE  TypeOK' /\ HandlerInv'
  <2>1. quotes' \subseteq [crop : crops', day : 0 .. today, run : Nat, price : Prices]
    BY <1>2, SeedsOneQuote
  <2>2. QED
    BY <1>2, <2>1, MoreCrops DEF Seed
<1>3. ASSUME NextDay PROVE TypeOK' /\ HandlerInv'
  <2>1. today' \in 0 .. MaxDay /\ 0 .. today \subseteq 0 .. today'
    BY <1>3, NatBounds DEF NextDay, TypeOK
  <2>2. quotes \subseteq [crop : crops, day : 0 .. today', run : Nat, price : Prices]
    BY <2>1 DEF TypeOK
  <2>3. TypeOK'
    BY <1>3, <2>1, <2>2 DEF NextDay, TypeOK
  <2>4. HandlerInv'
    BY <1>3 DEF NextDay, HandlerInv
  <2>5. QED
    BY <2>3, <2>4
<1>4. ASSUME NEW n \in Intents,
             \/ Submit(n) \/ FindCrop(n) \/ CreateCrop(n) \/ Insert(n) \/ Log(n) \/ Fail(n)
      PROVE  TypeOK' /\ HandlerInv'
  BY <1>4, HandlerType
<1>5. ASSUME NEW b \in Buyers,
             \/ BrowseOn(b) \/ FindPage(b) \/ CountPages(b) \/ StartAgain(b)
             \/ \E large \in BOOLEAN : Browse(b, large)
      PROVE  TypeOK' /\ HandlerInv'
  <2>1. pager' \in [Buyers -> Pagers]
    BY <1>5, BuyerType
  <2>2. UNCHANGED <<crops, quotes, listings, today, pc, form, updates, failures, clashes, lost>>
    BY <1>5, BuyerType
  <2>3. QED
    BY <2>1, <2>2 DEF TypeOK, HandlerInv
<1>6. ASSUME NEW i \in DOMAIN listings, Leave(i) \/ Relist(i) \/ Update(i)
      PROVE  TypeOK' /\ HandlerInv'
  <2>1. /\ listings' \in Seq(Rows) /\ Len(listings') = Len(listings)
        /\ DOMAIN listings' = DOMAIN listings
        /\ \A k \in DOMAIN listings : listings'[k].crop = listings[k].crop
    BY <1>6, ChangeRows DEF Leave, Relist, Update, Become
  <2>2. pager' \in [Buyers -> Pagers]
    BY <1>6, BecomeType DEF Leave, Relist, Update
  <2>3. updates' \in 0 .. MaxUpdates
    <3>1. updates \in 0 .. MaxUpdates
      BY DEF TypeOK
    <3>2. updates' = updates \/ (updates < MaxUpdates /\ updates' = updates + 1)
      BY <1>6 DEF Leave, Relist, Update
    <3>3. QED
      BY <3>1, <3>2, NatBounds
  <2>4. UNCHANGED <<crops, quotes, today, pc, form, failures, clashes, lost>>
    BY <1>6 DEF Leave, Relist, Update
  <2>5. TypeOK'
    BY <2>1, <2>2, <2>3, <2>4 DEF TypeOK
  <2>6. HandlerInv'
    BY <2>4 DEF HandlerInv
  <2>7. QED
    BY <2>5, <2>6
<1>7. QED
  BY <1>1, <1>2, <1>3, <1>4, <1>5, <1>6 DEF Next

-----------------------------------------------------------------------------
(* One listing of an intent                                                *)

\* The rows keep their intents, and who had his listing stored still has.
LEMMA OnceStays ==
  ASSUME OnceInv, DOMAIN listings' = DOMAIN listings,
         \A i \in DOMAIN listings : listings'[i].intent = listings[i].intent,
         \A n \in Intents : n \notin lost' =>
           /\ n \notin lost
           /\ pc[n] \in {"audit", "done"} => pc'[n] \in {"audit", "done"}
  PROVE  OnceInv'
BY DEF OnceInv

LEMMA NextOnce ==
  ASSUME TypeOK, HandlerInv, OnceInv, Next
  PROVE  OnceInv'
<1>1. ASSUME UNCHANGED <<listings, pc, lost>> PROVE OnceInv'
  BY <1>1 DEF OnceInv
<1>2. ASSUME NEW c \in Crops, SeedCrop(c) \/ \E price \in Prices : Seed(c, price)
      PROVE  OnceInv'
  BY <1>1, <1>2 DEF SeedCrop, Seed
<1>3. ASSUME NextDay PROVE OnceInv'
  BY <1>1, <1>3 DEF NextDay
<1>4. ASSUME NEW n \in Intents, Submit(n) \/ FindCrop(n) \/ CreateCrop(n) PROVE OnceInv'
  <2>1. listings' = listings /\ lost' = lost
    BY <1>4 DEF Submit, FindCrop, CreateCrop
  <2>2. pc[n] \in {"idle", "failed", "find", "crop"}
    BY <1>4 DEF Submit, FindCrop, CreateCrop, At
  <2>3. \A m \in Intents \ {n} : pc'[m] = pc[m]
    BY <1>4 DEF Submit, FindCrop, CreateCrop, Goto, TypeOK
  <2>4. \A m \in Intents : pc[m] \in {"audit", "done"} => pc'[m] \in {"audit", "done"}
    BY <2>2, <2>3
  <2>5. QED
    BY <2>1, <2>4, OnceStays
<1>5. ASSUME NEW n \in Intents, Insert(n) PROVE OnceInv'
  <2> DEFINE k == Len(listings) + 1
             row == [intent |-> n, crop |-> form[n].crop, ref |-> form[n].ref,
                     large |-> form[n].large, status |-> "active"]
  <2>1. row.intent = n
    OBVIOUS
  <2> HIDE DEF row
  <2>2. /\ Len(listings) \in Nat /\ DOMAIN listings = 1 .. Len(listings)
        /\ DOMAIN listings' = 1 .. k
        /\ \A i \in DOMAIN listings : listings'[i] = listings[i]
        /\ listings'[k].intent = n
    BY <1>5, <2>1, InsertRows DEF row
  <2>3. DOMAIN listings' = DOMAIN listings \cup {k} /\ k \notin DOMAIN listings
    BY <2>2
  <2>4. pc[n] = "insert" /\ pc' = [pc EXCEPT ![n] = "audit"] /\ lost' = lost
    BY <1>5 DEF Insert, At, Goto
  <2> HIDE DEF k
  <2> SUFFICES ASSUME NEW m \in Intents, m \notin lost
               PROVE  /\ pc'[m] \notin {"audit", "done"} =>
                           \A i \in DOMAIN listings' : listings'[i].intent # m
                      /\ \A i, j \in DOMAIN listings' :
                           (listings'[i].intent = m /\ listings'[j].intent = m) => i = j
    BY <2>4 DEF OnceInv
  <2>5. CASE m = n
    <3>1. \A i \in DOMAIN listings : listings[i].intent # n
      BY <2>4, <2>5 DEF OnceInv
    <3>2. QED
      BY <2>2, <2>3, <2>4, <2>5, <3>1 DEF TypeOK
  <2>6. CASE m # n
    <3>1. pc'[m] = pc[m]
      BY <2>4, <2>6 DEF TypeOK
    <3>2. QED
      BY <2>2, <2>3, <2>6, <3>1 DEF OnceInv
  <2>7. QED
    BY <2>5, <2>6
<1>6. ASSUME NEW n \in Intents, Log(n) PROVE OnceInv'
  <2>1. listings' = listings /\ lost' = lost /\ pc' = [pc EXCEPT ![n] = "done"]
    BY <1>6 DEF Log, Goto
  <2>2. QED
    BY <2>1, OnceStays DEF TypeOK
<1>7. ASSUME NEW n \in Intents, Fail(n) PROVE OnceInv'
  <2>1. listings' = listings /\ pc' = [pc EXCEPT ![n] = "failed"] /\ lost \subseteq lost'
        /\ (pc[n] = "audit" => n \in lost') /\ pc[n] # "done"
    BY <1>7 DEF Fail, Goto, At
  <2>2. QED
    BY <2>1, OnceStays DEF TypeOK
<1>8. ASSUME NEW b \in Buyers,
             \/ BrowseOn(b) \/ FindPage(b) \/ CountPages(b) \/ StartAgain(b)
             \/ \E large \in BOOLEAN : Browse(b, large)
      PROVE  OnceInv'
  BY <1>1, <1>8 DEF BrowseOn, FindPage, CountPages, StartAgain, Browse, Turn
<1>9. ASSUME NEW i \in DOMAIN listings, Leave(i) \/ Relist(i) \/ Update(i) PROVE OnceInv'
  <2>1. DOMAIN listings' = DOMAIN listings
        /\ \A k \in DOMAIN listings : listings'[k].intent = listings[k].intent
    BY <1>9, ChangeRows DEF Leave, Relist, Update, Become
  <2>2. pc' = pc /\ lost' = lost
    BY <1>9 DEF Leave, Relist, Update
  <2>3. QED
    BY <2>1, <2>2, OnceStays
<1>10. QED
  BY <1>2, <1>3, <1>4, <1>5, <1>6, <1>7, <1>8, <1>9 DEF Next

LEMMA OnceIsNoDuplicate == OnceInv => NoDuplicateByRetry
<1> SUFFICES ASSUME OnceInv, NEW n \in Intents, n \notin lost
             PROVE  ~ (Cardinality({i \in DOMAIN listings : listings[i].intent = n}) > 1)
  BY DEF NoDuplicateByRetry
<1> DEFINE Mine == {i \in DOMAIN listings : listings[i].intent = n}
<1>1. CASE Mine = {}
  BY <1>1, FS_EmptySet
<1>2. CASE Mine # {}
  <2>1. PICK i \in Mine : TRUE
    BY <1>2
  <2>2. Mine = {i}
    BY <2>1 DEF OnceInv
  <2>3. Cardinality({i}) = 1
    BY FS_Singleton
  <2> HIDE DEF Mine
  <2>4. ~ (Cardinality(Mine) > 1)
    BY <2>2, <2>3
  <2>5. QED
    BY <2>4 DEF Mine
<1>3. QED
  BY <1>1, <1>2

-----------------------------------------------------------------------------
(* Quotes and refusals                                                     *)

LEMMA NextQuote ==
  ASSUME TypeOK, QuoteInv, Next
  PROVE  QuoteInv'
<1>1. ASSUME NEW c \in Crops, NEW price \in Prices, Seed(c, price) PROVE QuoteInv'
  BY <1>1, SeedsOneQuote
<1>2. ASSUME UNCHANGED quotes PROVE QuoteInv'
  BY <1>2 DEF QuoteInv
<1>3. ASSUME NEW c \in Crops, SeedCrop(c) PROVE UNCHANGED quotes
  BY <1>3 DEF SeedCrop
<1>4. ASSUME NextDay PROVE UNCHANGED quotes
  BY <1>4 DEF NextDay
<1>5. ASSUME NEW n \in Intents,
             \/ Submit(n) \/ FindCrop(n) \/ CreateCrop(n) \/ Insert(n) \/ Log(n) \/ Fail(n)
      PROVE  UNCHANGED quotes
  BY <1>5 DEF Submit, FindCrop, CreateCrop, Insert, Log, Fail
<1>6. ASSUME NEW b \in Buyers,
             \/ BrowseOn(b) \/ FindPage(b) \/ CountPages(b) \/ StartAgain(b)
             \/ \E large \in BOOLEAN : Browse(b, large)
      PROVE  UNCHANGED quotes
  BY <1>6 DEF BrowseOn, FindPage, CountPages, StartAgain, Browse, Turn
<1>7. ASSUME NEW i \in DOMAIN listings, Leave(i) \/ Relist(i) \/ Update(i) PROVE UNCHANGED quotes
  BY <1>7 DEF Leave, Relist, Update
<1>8. QED
  BY <1>1, <1>2, <1>3, <1>4, <1>5, <1>6, <1>7 DEF Next

LEMMA QuoteIsTrend == TypeOK /\ QuoteInv => TrendIsOfTwoDays
<1> SUFFICES ASSUME TypeOK, QuoteInv, NEW c \in Crops, HasTrend(c)
             PROVE  Previous(c).day < Newest(QuotesOf(c)).day
  BY DEF TrendIsOfTwoDays
<1> DEFINE Q == QuotesOf(c)
           a == Newest(Q)
           p == Newest(Q \ {a})
<1>1. Q \in SUBSET quotes /\ Q \ {a} \in SUBSET quotes
  BY DEF QuotesOf
<1>2. Cardinality(Q) >= 2
  BY DEF HasTrend
<1>3. Q # {} /\ Q \ {a} # {}
  <2> SUFFICES ASSUME Q = {} \/ Q = {a} PROVE FALSE
    OBVIOUS
  <2>1. Cardinality({}) = 0 /\ Cardinality({a}) = 1
    BY FS_EmptySet, FS_Singleton
  <2> HIDE DEF Q, a
  <2>2. QED
    BY <1>2, <2>1
<1>4. a \in Q /\ (\A r \in Q : r.day <= a.day) /\ p \in Q \ {a}
  <2> HIDE DEF Q
  <2>1. a \in Q /\ (\A r \in Q : r.day <= a.day)
    BY <1>1, <1>3, NewestQuote
  <2> HIDE DEF a
  <2>2. p \in Q \ {a}
    BY <1>1, <1>3, NewestQuote
  <2>3. QED
    BY <2>1, <2>2
<1>5. p.crop = c /\ a.crop = c /\ p \in quotes /\ a \in quotes /\ p # a /\ p.day <= a.day
  <2> HIDE DEF a, p
  <2>1. QED
    BY <1>4 DEF QuotesOf
<1>6. p.day # a.day
  <2> HIDE DEF a, p
  <2>1. QED
    BY <1>5 DEF QuoteInv
<1>7. p.day \in Nat /\ a.day \in Nat
  <2> HIDE DEF a, p
  <2>1. QED
    BY <1>5 DEF TypeOK
<1>8. p.day < a.day
  <2> HIDE DEF a, p
  <2>1. QED
    BY <1>5, <1>6, <1>7
<1>9. QED
  BY <1>8 DEF Previous

LEMMA NextRefused ==
  ASSUME TypeOK, HandlerInv, RefusedOnlyByBlanksOrOverlap, Next
  PROVE  RefusedOnlyByBlanksOrOverlap'
<1>1. \A n \in Intents : form'[n].way = form[n].way
  <2>1. ASSUME UNCHANGED form PROVE \A n \in Intents : form'[n].way = form[n].way
    BY <2>1
  <2>2. ASSUME NEW n \in Intents, Submit(n) \/ FindCrop(n)
        PROVE  \A m \in Intents : form'[m].way = form[m].way
    <3>1. form \in [Intents -> Forms]
      BY DEF TypeOK
    <3>2. \/ form' = [form EXCEPT ![n].ref = LatestQuote(form[n])]
          \/ form' = [form EXCEPT ![n].there = form[n].crop \in crops]
      BY <2>2 DEF Submit, FindCrop
    <3>3. QED
      BY <3>1, <3>2 DEF Forms
  <2>3. ASSUME NEW n \in Intents, Insert(n)
        PROVE  \A m \in Intents : form'[m].way = form[m].way
    <3>1. form' = [form EXCEPT ![n] = [form[n] EXCEPT !.ref = 0, !.there = FALSE]]
          /\ form[n] \in Forms
      BY <2>3 DEF Insert, TypeOK
    <3>2. QED
      BY <3>1 DEF TypeOK, Forms
  <2>4. ASSUME NEW n \in Intents, CreateCrop(n) \/ Log(n) \/ Fail(n) PROVE UNCHANGED form
    BY <2>4 DEF CreateCrop, Log, Fail
  <2>5. ASSUME NEW c \in Crops, SeedCrop(c) \/ \E price \in Prices : Seed(c, price)
        PROVE  UNCHANGED form
    BY <2>5 DEF SeedCrop, Seed
  <2>6. ASSUME NEW b \in Buyers,
               \/ BrowseOn(b) \/ FindPage(b) \/ CountPages(b) \/ StartAgain(b)
             \/ \E large \in BOOLEAN : Browse(b, large)
        PROVE  UNCHANGED form
    BY <2>6 DEF BrowseOn, FindPage, CountPages, StartAgain, Browse, Turn
  <2>7. ASSUME NEW i \in DOMAIN listings, Leave(i) \/ Relist(i) \/ Update(i) PROVE UNCHANGED form
    BY <2>7 DEF Leave, Relist, Update
  <2>8. ASSUME NextDay PROVE UNCHANGED form
    BY <2>8 DEF NextDay
  <2>9. QED
    BY <2>1, <2>2, <2>3, <2>4, <2>5, <2>6, <2>7, <2>8 DEF Next
<1>2. \A x \in clashes' : x \in clashes \/ (x.intent \in Intents /\ (x.there =>
                                                form[x.intent].way = "padded"))
  <2>1. ASSUME NEW n \in Intents, CreateCrop(n)
        PROVE  \A x \in clashes' : x \in clashes \/ (x.intent \in Intents /\ (x.there =>
                                                        form[x.intent].way = "padded"))
    <3>1. \A x \in clashes' : x \in clashes \/ x = [intent |-> n, there |-> form[n].there]
      BY <2>1 DEF CreateCrop
    <3>2. form[n].there => form[n].way = "padded"
      BY <2>1 DEF CreateCrop, At, HandlerInv
    <3>3. QED
      BY <3>1, <3>2
  <2>2. ASSUME NEW n \in Intents, Submit(n) \/ FindCrop(n) \/ Insert(n) \/ Log(n) \/ Fail(n)
        PROVE  UNCHANGED clashes
    BY <2>2 DEF Submit, FindCrop, Insert, Log, Fail
  <2>3. ASSUME NEW c \in Crops, SeedCrop(c) \/ \E price \in Prices : Seed(c, price)
        PROVE  UNCHANGED clashes
    BY <2>3 DEF SeedCrop, Seed
  <2>4. ASSUME NEW b \in Buyers,
               \/ BrowseOn(b) \/ FindPage(b) \/ CountPages(b) \/ StartAgain(b)
             \/ \E large \in BOOLEAN : Browse(b, large)
        PROVE  UNCHANGED clashes
    BY <2>4 DEF BrowseOn, FindPage, CountPages, StartAgain, Browse, Turn
  <2>5. ASSUME NEW i \in DOMAIN listings, Leave(i) \/ Relist(i) \/ Update(i) PROVE UNCHANGED clashes
    BY <2>5 DEF Leave, Relist, Update
  <2>6. ASSUME NextDay PROVE UNCHANGED clashes
    BY <2>6 DEF NextDay
  <2>7. QED
    BY <2>1, <2>2, <2>3, <2>4, <2>5, <2>6 DEF Next
<1>3. QED
  BY <1>1, <1>2 DEF RefusedOnlyByBlanksOrOverlap, TypeOK

-----------------------------------------------------------------------------
(* Paging                                                                  *)

LEMMA NewerOnes ==
  ASSUME NEW n \in Nat, NEW T \in SUBSET (1 .. n), NEW S \in SUBSET T, NEW i
  PROVE  /\ IsFiniteSet(S) /\ IsFiniteSet(T)
         /\ Cardinality({j \in S : j > i}) \in Nat
         /\ Cardinality({j \in T : j > i}) \in Nat
         /\ Cardinality({j \in S : j > i}) <= Cardinality({j \in T : j > i})
<1> DEFINE S1 == {j \in S : j > i}
           T1 == {j \in T : j > i}
<1>1. n \in Int /\ 1 \in Int
  OBVIOUS
<1>2. IsFiniteSet(1 .. n)
  BY <1>1, FS_Interval
<1>3. IsFiniteSet(T)
  BY <1>2, FS_Subset
<1>4. S1 \in SUBSET T1 /\ T1 \in SUBSET T
  OBVIOUS
<1>5. IsFiniteSet(S) /\ IsFiniteSet(T1)
  BY <1>3, <1>4, FS_Subset
<1>6. IsFiniteSet(S1) /\ Cardinality(S1) <= Cardinality(T1)
  BY <1>4, <1>5, FS_Subset
<1>7. QED
  BY <1>3, <1>5, <1>6, FS_CardinalityType

LEMMA RankType ==
  ASSUME TypeOK, NEW large
  PROVE  /\ Active(large) \in SUBSET Nat /\ IsFiniteSet(Active(large))
         /\ \A i : Rank(i, large) \in Nat
<1> DEFINE A == Active(large)
<1>1. Len(listings) \in Nat /\ A \in SUBSET (1 .. Len(listings)) /\ A \in SUBSET A
  BY DEF TypeOK, Active, Fitting
<1>2. A \in SUBSET Nat
  BY <1>1
<1>3. IsFiniteSet(A) /\ \A i : Cardinality({j \in A : j > i}) \in Nat
  <2> HIDE DEF A
  <2>1. QED
    BY <1>1, NewerOnes
<1>4. QED
  BY <1>2, <1>3 DEF Rank

\* What comes in newer pushes a listing on to later pages.
LEMMA RankGrows ==
  ASSUME TypeOK, TypeOK', NEW large, Active(large) \subseteq Active(large)', NEW i
  PROVE  /\ Rank(i, large) \in Nat /\ Rank(i, large)' \in Nat
         /\ Rank(i, large) <= Rank(i, large)'
<1>1. Len(listings') \in Nat /\ Active(large)' \in SUBSET (1 .. Len(listings'))
  BY DEF TypeOK, Active, Fitting
<1>2. QED
  BY <1>1, NewerOnes DEF Rank

LEMMA Quotient ==
  ASSUME NEW n \in Nat, NEW d \in Nat \ {0}
  PROVE  n \div d \in Nat /\ n < (n \div d + 1) * d
OBVIOUS

\* All ranks are on the pages there are.
LEMMA RankOnPages ==
  ASSUME TypeOK, NEW large, NEW i \in Active(large), NEW page \in Nat, page > TotalPages(large)
  PROVE  Rank(i, large) < (page - 1) * Limit
<1> DEFINE A == Active(large)
           S == {j \in A : j > i}
           c == Cardinality(A)
           t == (c + Limit - 1) \div Limit
<1>1. A \in SUBSET Nat /\ IsFiniteSet(A) /\ Limit \in Nat \ {0} /\ i \in A
  BY RankType, NatBounds
<1>2. S \in SUBSET (A \ {i})
  BY <1>1
<1>3. Cardinality(A) \in Nat /\ IsFiniteSet(A \ {i}) /\ Cardinality(A \ {i}) = Cardinality(A) - 1
  BY <1>1, FS_RemoveElement, FS_CardinalityType
<1>4. IsFiniteSet(S) /\ Cardinality(S) <= Cardinality(A \ {i})
  BY <1>2, <1>3, FS_Subset
<1>5. Cardinality(S) \in Nat
  BY <1>4, FS_CardinalityType
<1>6. Cardinality(S) <= c - 1 /\ c \in Nat
  BY <1>3, <1>4, <1>5
<1>7. c + Limit - 1 \in Nat
  BY <1>1, <1>6
<1>8. t \in Nat /\ c + Limit - 1 < (t + 1) * Limit
  BY <1>1, <1>7, Quotient
<1>9. page > t /\ Rank(i, large) = Cardinality(S)
  BY DEF TotalPages, Rank
<1> HIDE DEF A, S, c, t
<1>10. (t + 1) * Limit = t * Limit + Limit /\ t * Limit \in Nat
  BY <1>1, <1>8
<1>11. (page - 1) - t \in Nat /\ page - 1 \in Nat
  BY <1>8, <1>9
<1>12. ((page - 1) - t) * Limit \in Nat
       /\ (page - 1) * Limit = t * Limit + ((page - 1) - t) * Limit
  BY <1>1, <1>8, <1>11
<1>13. QED
  BY <1>1, <1>5, <1>6, <1>8, <1>9, <1>10, <1>12

\* A buyer goes on with the same query while listings come in only.
LEMMA PagerStays ==
  ASSUME TypeOK, TypeOK', PagerInv, Become(listings')
  PROVE  PagerInv'
<1> SUFFICES ASSUME NEW b \in Buyers, pager'[b].page > 0, ~ pager'[b].left
             PROVE  /\ (pager'[b].todo = {"list"} /\ ~ pager'[b].grew) =>
                         pager'[b].total = TotalPages(pager[b].large)'
                    /\ \A i \in pager'[b].due :
                         /\ i \in Active(pager[b].large)'
                         /\ \/ i \in pager'[b].seen
                            \/ Rank(i, pager[b].large)' >= PagesFound(pager[b])' * Limit
                         /\ (pager'[b].todo = {} /\ ~ pager'[b].grew) =>
                              i \in pager'[b].seen \/ pager'[b].total > pager'[b].page
  BY DEF PagerInv
<1> PICK large, row : large = pager[b].large /\ row = pager[b]
  OBVIOUS
<1>1. row \in Pagers /\ Limit \in Nat \ {0} /\ large = row.large
  BY NatBounds DEF TypeOK
<1>2. /\ pager'[b].page = row.page /\ pager'[b].large = large
      /\ pager'[b].todo = row.todo /\ pager'[b].total = row.total
      /\ pager'[b].due = row.due /\ pager'[b].seen = row.seen
      /\ ~ row.left /\ row.page > 0
      /\ Active(large) \subseteq Active(large)'
      /\ ~ pager'[b].grew =>
           ~ row.grew /\ (row.todo = {"list"} => Active(large)' \subseteq Active(large))
  BY BecomeType DEF Active
<1>3. /\ Active(pager[b].large)' = Active(large)'
      /\ TotalPages(pager[b].large)' = TotalPages(large)'
      /\ PagesFound(pager[b])' = PagesFound(row)
      /\ \A i : Rank(i, pager[b].large)' = Rank(i, large)'
  BY <1>2 DEF Active, Rank, TotalPages, PagesFound
<1>4. /\ (row.todo = {"list"} /\ ~ row.grew) => row.total = TotalPages(large)
      /\ \A i \in row.due :
           /\ i \in Active(large)
           /\ i \in row.seen \/ Rank(i, large) >= PagesFound(row) * Limit
           /\ (row.todo = {} /\ ~ row.grew) => i \in row.seen \/ row.total > row.page
  BY <1>2 DEF PagerInv
<1>5. ASSUME row.todo = {"list"}, ~ pager'[b].grew
      PROVE  row.total = TotalPages(large)'
  <2>1. Active(large)' = Active(large)
    BY <1>2, <1>5
  <2>2. QED
    BY <1>2, <1>4, <1>5, <2>1 DEF TotalPages
<1>6. PagesFound(row) * Limit \in Nat
  <2>1. PagesFound(row) \in Nat
    BY <1>1, <1>2 DEF PagesFound, Pagers
  <2>2. QED
    BY <1>1, <2>1
<1>7. ASSUME NEW i \in row.due, Rank(i, large) >= PagesFound(row) * Limit
      PROVE  Rank(i, large)' >= PagesFound(row) * Limit
  <2>1. /\ Rank(i, large) \in Nat /\ Rank(i, large)' \in Nat
        /\ Rank(i, large) <= Rank(i, large)'
    BY <1>2, RankGrows
  <2>2. QED
    BY <1>6, <1>7, <2>1
<1>8. QED
  BY <1>2, <1>3, <1>4, <1>5, <1>7

\* A page holds the ranks from those of the pages before it on.
LEMMA NextPage ==
  ASSUME TypeOK, NEW large, NEW page \in Nat \ {0}, NEW i \in Active(large),
         Rank(i, large) >= (page - 1) * Limit
  PROVE  i \in Page(page, large) \/ Rank(i, large) >= page * Limit
<1>1. Rank(i, large) \in Nat
  BY RankType
<1>2. page * Limit \in Nat /\ (page - 1) * Limit \in Nat
  BY NatBounds
<1> HIDE DEF Rank
<1>3. QED
  BY <1>1, <1>2 DEF Page

\* A listing whose rank is beyond a page makes the count exceed it.
LEMMA MorePages ==
  ASSUME TypeOK, NEW large, NEW i \in Active(large), NEW page \in Nat,
         Rank(i, large) >= page * Limit
  PROVE  TotalPages(large) > page
<1>1. Rank(i, large) \in Nat /\ page * Limit \in Nat /\ page + 1 \in Nat
  BY RankType, NatBounds
<1>2. TotalPages(large) \in Nat
  <2>1. Cardinality(Active(large)) \in Nat
    BY RankType, FS_CardinalityType
  <2>2. QED
    BY <2>1, NatBounds DEF TotalPages
<1>3. CASE page + 1 > TotalPages(large)
  <2>1. Rank(i, large) < ((page + 1) - 1) * Limit
    BY <1>1, <1>3, RankOnPages
  <2>2. (page + 1) - 1 = page
    OBVIOUS
  <2>3. QED
    BY <1>1, <2>1, <2>2
<1>4. QED
  BY <1>1, <1>2, <1>3

LEMMA BuyerPager ==
  ASSUME TypeOK, PagerInv, NEW b \in Buyers,
         \/ BrowseOn(b) \/ FindPage(b) \/ CountPages(b) \/ StartAgain(b)
         \/ \E large \in BOOLEAN : Browse(b, large)
  PROVE  PagerInv'
<1>1. listings' = listings /\ (\A c \in Buyers \ {b} : pager'[c] = pager[c]) /\ Turned(b)
  BY BuyerType
<1>2. \A i, large : /\ Active(large)' = Active(large) /\ Rank(i, large)' = Rank(i, large)
                    /\ TotalPages(large)' = TotalPages(large)
  BY <1>1 DEF Active, Rank, TotalPages
<1> DEFINE Fine(p) == (p.page > 0 /\ ~ p.left) =>
              /\ (p.todo = {"list"} /\ ~ p.grew) => p.total = TotalPages(p.large)
              /\ \A i \in p.due :
                   /\ i \in Active(p.large)
                   /\ i \in p.seen \/ Rank(i, p.large) >= PagesFound(p) * Limit
                   /\ (p.todo = {} /\ ~ p.grew) => i \in p.seen \/ p.total > p.page
<1>3. \A c \in Buyers : Fine(pager[c])
  BY DEF PagerInv
<1>4. SUFFICES Fine(pager'[b])
  <2>1. \A c \in Buyers : Fine(pager'[c])
    BY <1>1, <1>3, <1>4
  <2>2. QED
    BY <1>2, <2>1 DEF PagerInv, PagesFound
<1> DEFINE row   == pager[b]
           large == pager[b].large
           page  == pager[b].page
<1>5. /\ row \in Pagers /\ page \in Nat /\ row.due \in SUBSET Nat
      /\ row.todo \in SUBSET {"list", "count"} /\ Limit \in Nat \ {0}
  BY NatBounds DEF TypeOK, Pagers
<1>6. ASSUME page > 0, row.todo = {}, ~ HasRead(b),
             pager'[b] = [row EXCEPT !.page = @ + 1, !.todo = {"list", "count"}, !.grew = FALSE]
      PROVE  Fine(pager'[b])
  <2>1. /\ pager'[b].page = page + 1 /\ pager'[b].todo = {"list", "count"}
        /\ pager'[b].large = large /\ pager'[b].left = row.left
        /\ pager'[b].due = row.due /\ pager'[b].seen = row.seen
    BY <1>5, <1>6 DEF Pagers
  <2>2. PagesFound(pager'[b]) = page /\ PagesFound(row) = page
    BY <1>5, <1>6, <2>1 DEF PagesFound
  <2>3. QED
    BY <1>3, <1>6, <2>1, <2>2
<1>7. ASSUME "list" \in row.todo,
             pager'[b] = [row EXCEPT !.todo = @ \ {"list"}, !.seen = @ \cup Page(page, large)]
      PROVE  Fine(pager'[b])
  <2> DEFINE P == Page(page, large)
  <2>1. /\ pager'[b].page = page /\ pager'[b].todo = row.todo \ {"list"}
        /\ pager'[b].large = large /\ pager'[b].left = row.left
        /\ pager'[b].due = row.due /\ pager'[b].seen = row.seen \cup P
        /\ pager'[b].total = row.total /\ pager'[b].grew = row.grew
    <3> HIDE DEF P
    <3>1. pager'[b] = [row EXCEPT !.todo = @ \ {"list"}, !.seen = @ \cup P]
      BY <1>7 DEF P
    <3>2. QED
      BY <1>5, <3>1 DEF Pagers
  <2>2. PagesFound(pager'[b]) = page /\ PagesFound(row) = page - 1
    BY <1>7, <2>1 DEF PagesFound
  <2>3. SUFFICES ASSUME page > 0, ~ row.left, NEW i \in row.due
                 PROVE  /\ i \in Active(large)
                        /\ i \in row.seen \cup P \/ Rank(i, large) >= page * Limit
                        /\ (row.todo \ {"list"} = {} /\ ~ row.grew) =>
                             i \in row.seen \cup P \/ row.total > page
    BY <2>1, <2>2, <2>3
  <2>4. /\ i \in Active(large)
        /\ i \in row.seen \/ Rank(i, large) >= (page - 1) * Limit
        /\ (row.todo = {"list"} /\ ~ row.grew) => row.total = TotalPages(large)
    BY <1>3, <2>2, <2>3
  <2>5. i \in row.seen \cup P \/ Rank(i, large) >= page * Limit
    <3>1. CASE i \in row.seen
      BY <3>1
    <3>2. CASE Rank(i, large) >= (page - 1) * Limit
      BY <1>5, <2>3, <2>4, <3>2, NextPage
    <3>3. QED
      BY <2>4, <3>1, <3>2
  <2>6. ASSUME row.todo \ {"list"} = {}, ~ row.grew, Rank(i, large) >= page * Limit
        PROVE  row.total > page
    <3>1. row.todo = {"list"}
      BY <1>5, <1>7, <2>6
    <3>2. TotalPages(large) > page
      BY <1>5, <2>4, <2>6, MorePages
    <3>3. QED
      BY <2>4, <2>6, <3>1, <3>2
  <2>7. QED
    BY <2>4, <2>5, <2>6
<1>8. ASSUME "count" \in row.todo,
             pager'[b] = [row EXCEPT !.todo = @ \ {"count"}, !.total = TotalPages(large)]
      PROVE  Fine(pager'[b])
  <2> DEFINE n == TotalPages(large)
  <2>1. /\ pager'[b].page = page /\ pager'[b].todo = row.todo \ {"count"}
        /\ pager'[b].large = large /\ pager'[b].left = row.left
        /\ pager'[b].due = row.due /\ pager'[b].seen = row.seen
        /\ pager'[b].total = n /\ pager'[b].grew = row.grew
    <3> HIDE DEF n
    <3>1. pager'[b] = [row EXCEPT !.todo = @ \ {"count"}, !.total = n]
      BY <1>8 DEF n
    <3>2. QED
      BY <1>5, <3>1 DEF Pagers
  <2>2. PagesFound(pager'[b]) = PagesFound(row)
    BY <2>1 DEF PagesFound
  <2>3. ASSUME page > 0, ~ row.left, NEW i \in row.due
        PROVE  /\ i \in Active(large)
               /\ i \in row.seen \/ Rank(i, large) >= PagesFound(row) * Limit
               /\ row.todo \ {"count"} = {} => i \in row.seen \/ n > page
    <3>1. /\ i \in Active(large)
          /\ i \in row.seen \/ Rank(i, large) >= PagesFound(row) * Limit
      BY <1>3, <2>3
    <3>2. ASSUME row.todo \ {"count"} = {}, Rank(i, large) >= PagesFound(row) * Limit
          PROVE  n > page
      <4>1. PagesFound(row) = page
        BY <3>2 DEF PagesFound
      <4>2. QED
        BY <1>5, <3>1, <3>2, <4>1, MorePages
    <3>3. QED
      BY <3>1, <3>2
  <2>4. QED
    BY <2>1, <2>2, <2>3
<1>9. CASE pager'[b] = NoPage
  BY <1>9 DEF NoPage
<1>10. ASSUME NEW l \in BOOLEAN,
              pager'[b] = [NoPage EXCEPT !.page = 1, !.large = l, !.todo = {"list", "count"},
                                         !.due = Active(l)]
       PROVE  Fine(pager'[b])
  <2> DEFINE A == Active(l)
  <2>1. /\ pager'[b].page = 1 /\ pager'[b].todo = {"list", "count"}
        /\ pager'[b].large = l /\ pager'[b].due = A
    <3> HIDE DEF A
    <3>1. pager'[b] = [NoPage EXCEPT !.page = 1, !.large = l, !.todo = {"list", "count"},
                                     !.due = A]
      BY <1>10 DEF A
    <3>2. QED
      BY <3>1 DEF NoPage
  <2>2. PagesFound(pager'[b]) * Limit = 0
    BY <1>5, <2>1 DEF PagesFound
  <2>3. \A i \in A : Rank(i, l) >= 0
    BY RankType
  <2>4. QED
    BY <2>1, <2>2, <2>3
<1>11. QED
  BY <1>1, <1>6, <1>7, <1>8, <1>9, <1>10 DEF Turned

\* Active listings and their ranks depend on the listings only.
LEMMA PagerUnchanged ==
  ASSUME UNCHANGED <<listings, pager>>, PagerInv
  PROVE  PagerInv'
<1>1. \A large : Active(large)' = Active(large)
  BY DEF Active
<1>2. \A i, large : Rank(i, large)' = Rank(i, large) /\ TotalPages(large)' = TotalPages(large)
  BY <1>1 DEF Rank, TotalPages
<1>3. QED
  BY <1>1, <1>2 DEF PagerInv, PagesFound

LEMMA NextPager ==
  ASSUME TypeOK, TypeOK', PagerInv, Next
  PROVE  PagerInv'
<1>1. ASSUME UNCHANGED <<listings, pager>> PROVE PagerInv'
  BY <1>1, PagerUnchanged
<1>2. ASSUME NEW c \in Crops, SeedCrop(c) \/ \E price \in Prices : Seed(c, price)
      PROVE  PagerInv'
  BY <1>1, <1>2 DEF SeedCrop, Seed
<1>3. ASSUME NextDay PROVE PagerInv'
  BY <1>1, <1>3 DEF NextDay
<1>4. ASSUME NEW n \in Intents, Submit(n) \/ FindCrop(n) \/ CreateCrop(n) \/ Log(n) \/ Fail(n)
      PROVE  PagerInv'
  BY <1>1, <1>4 DEF Submit, FindCrop, CreateCrop, Log, Fail
<1>5. ASSUME NEW b \in Buyers,
             \/ BrowseOn(b) \/ FindPage(b) \/ CountPages(b) \/ StartAgain(b)
             \/ \E large \in BOOLEAN : Browse(b, large)
      PROVE  PagerInv'
  BY <1>5, BuyerPager
<1>6. ASSUME \E rows : Become(rows) PROVE PagerInv'
  <2>1. Become(listings')
    BY <1>6 DEF Become
  <2>2. QED
    BY <2>1, PagerStays
<1>7. ASSUME NEW n \in Intents, Insert(n) PROVE PagerInv'
  BY <1>6, <1>7 DEF Insert
<1>8. ASSUME NEW i \in DOMAIN listings, Leave(i) \/ Relist(i) \/ Update(i) PROVE PagerInv'
  BY <1>6, <1>8 DEF Leave, Relist, Update
<1>9. QED
  BY <1>2, <1>3, <1>4, <1>5, <1>7, <1>8 DEF Next

LEMMA PagerMisses == TypeOK /\ PagerInv => PagingMissesNothing
<1> SUFFICES ASSUME TypeOK, PagerInv, NEW b \in Buyers, HasRead(b), ~ pager[b].left,
                    ~ pager[b].grew, NEW i \in pager[b].due, i \notin pager[b].seen
             PROVE  FALSE
  BY DEF PagingMissesNothing
<1>1. pager[b].page \in Nat /\ pager[b].total \in Nat
  BY DEF TypeOK, Pagers
<1>2. pager[b].page > 0 /\ pager[b].todo = {} /\ pager[b].page >= pager[b].total
  BY DEF HasRead
<1>3. pager[b].total > pager[b].page
  BY <1>2 DEF PagerInv
<1>4. QED
  BY <1>1, <1>2, <1>3

-----------------------------------------------------------------------------
(* Theorems                                                                *)

LEMMA NextIInv == IInv /\ [Next]_vars => IInv'
<1> SUFFICES ASSUME IInv, [Next]_vars PROVE IInv'
  OBVIOUS
<1>1. CASE Next
  <2>1. TypeOK' /\ HandlerInv'
    BY <1>1, NextType DEF IInv
  <2>2. OnceInv'
    BY <1>1, NextOnce DEF IInv
  <2>3. QuoteInv'
    BY <1>1, NextQuote DEF IInv
  <2>4. PagerInv'
    BY <1>1, <2>1, NextPager DEF IInv
  <2>5. RefusedOnlyByBlanksOrOverlap'
    BY <1>1, NextRefused DEF IInv
  <2>6. QED
    BY <2>1, <2>2, <2>3, <2>4, <2>5 DEF IInv
<1>2. CASE UNCHANGED vars
  <2>1. TypeOK' /\ HandlerInv'
    BY <1>2 DEF vars, IInv, TypeOK, HandlerInv
  <2>2. OnceInv' /\ QuoteInv' /\ RefusedOnlyByBlanksOrOverlap'
    BY <1>2 DEF vars, IInv, OnceInv, QuoteInv, RefusedOnlyByBlanksOrOverlap
  <2>3. PagerInv'
    BY <1>2, PagerUnchanged DEF vars, IInv
  <2>4. QED
    BY <2>1, <2>2, <2>3 DEF IInv
<1>3. QED
  BY <1>1, <1>2

\* The inductive invariant holds in every state.
THEOREM Invariance == Spec => []IInv
BY InitIInv, NextIInv, PTL DEF Spec

\* Every variable keeps its type, and a listing's crop always has its row,
\* although createListing is several statements without a transaction.
THEOREM TypeCorrect == Spec => []TypeOK
<1>1. IInv => TypeOK
  BY DEF IInv
<1>2. QED
  BY <1>1, Invariance, PTL

\* createListing and auditNonFatal: a farmer who tries again after an error lists
\* nothing twice, unless the answer was lost with the server.
THEOREM RetryIsSafe == Spec => []NoDuplicateByRetry
<1>1. IInv => NoDuplicateByRetry
  BY OnceIsNoDuplicate DEF IInv
<1>2. QED
  BY <1>1, Invariance, PTL

\* PrismaListingRepository.create: an existing crop refuses a listing only for
\* blanks around its name, or a lookup that was overtaken.
THEOREM RefusalHasCause == Spec => []RefusedOnlyByBlanksOrOverlap
<1>1. IInv => RefusedOnlyByBlanksOrOverlap
  BY DEF IInv
<1>2. QED
  BY <1>1, Invariance, PTL

\* getMarketTrend: the two prices compared are of two days, however the seeds ran.
THEOREM TrendComparesDays == Spec => []TrendIsOfTwoDays
<1>1. IInv => TrendIsOfTwoDays
  BY QuoteIsTrend DEF IInv
<1>2. QED
  BY <1>1, Invariance, PTL

\* findActive with an offset: whoever reads all pages, of any size, misses nothing
\* that was there when he began and did not leave, although page and count are two
\* queries: only what comes between the last count and its page can hide a listing.
THEOREM PagingIsComplete == Spec => []PagingMissesNothing
<1>1. IInv => PagingMissesNothing
  BY PagerMisses DEF IInv
<1>2. QED
  BY <1>1, Invariance, PTL
=============================================================================

------------------------------ MODULE Catalogue ------------------------------
(***************************************************************************)
(* The catalogue: farmers list produce under a crop they type in freely,   *)
(* seeds fill the crops and their reference prices, buyers page through    *)
(* the active listings.  createListing is several statements without a     *)
(* transaction, each of which may fail; a farmer who is shown an error     *)
(* tries again.                                                            *)
(*                                                                         *)
(* A text is a crop and the way it is written: as stored, in other case,   *)
(* or with blanks around it.  All farmers are of one region.  Of the       *)
(* filters of a query one stands for all: whether a listing is large, that *)
(* is, of the least quantity asked for.  Pictures, positions and the QR    *)
(* code are left out; listings are sold, deleted and relisted by module    *)
(* Escrow, of which only the outcome is seen here.                         *)
(***************************************************************************)
EXTENDS Naturals, Sequences, FiniteSets

CONSTANTS
  Intents,      \* listings farmers want to create, each with its form
  Crops,        \* crops, whose name is lower-case and trimmed
  Ways,         \* the ways a crop is written, within exact, upper, padded
  Buyers,       \* buyers who page through the marketplace
  Prices,       \* reference prices
  Fallback,     \* the price findLatest makes up, 10.00 in the code
  Limit,        \* listings on a page
  MaxDay,       \* bound: the last day
  MaxListings,  \* bound: listings
  MaxUpdates,   \* bound: changes farmers make to their listings
  MaxFailures   \* bound: failures of statements and restarts

ASSUME NatBounds ==
  /\ Limit \in Nat \ {0} /\ MaxDay \in Nat /\ MaxListings \in Nat /\ MaxUpdates \in Nat
  /\ MaxFailures \in Nat
ASSUME PricesAreNat == Prices \subseteq Nat \ {0} /\ Fallback \in Nat

VARIABLES
  crops,     \* rows of crop_types
  quotes,    \* rows of mofa_price_references of the region
  listings,  \* rows of produce_listings, the oldest first
  today,     \* the date
  pc,        \* the statement the handler of an intent has come to
  form,      \* the text of an intent and the local variables of its handler
  pager,     \* the page a buyer has asked for, his filter, and the queries for it that
             \* have not run; history: see Pagers
  updates,   \* changes farmers made to their listings
  failures,  \* failures of statements and restarts
  clashes,   \* history: intents refused because of the name of the crop, and whether the
             \* lookup ought to have found it
  lost       \* history: intents whose listing was stored and the answer lost

vars == <<crops, quotes, listings, today, pc, form, pager, updates, failures, clashes, lost>>

NoPage == [page |-> 0, large |-> FALSE, todo |-> {}, total |-> 0,
           due |-> {}, seen |-> {}, left |-> FALSE, grew |-> FALSE]

Init ==
  /\ crops = {} /\ quotes = {} /\ listings = <<>> /\ today = 0
  /\ pc = [n \in Intents |-> "idle"]
  /\ form \in [Intents -> [crop : Crops, way : Ways, large : BOOLEAN, there : {FALSE},
                        ref : {0}]]
  /\ pager = [b \in Buyers |-> NoPage]
  /\ updates = 0 /\ failures = 0 /\ clashes = {} /\ lost = {}

-----------------------------------------------------------------------------
(* The listings on sale                                                    *)

\* The listings a query is about: on sale, and large if only those are asked for.
Fitting(rows, large) ==
  {i \in DOMAIN rows : rows[i].status = "active" /\ (large => rows[i].large)}

Active(large) == Fitting(listings, large)

\* The rows change.  It is remembered of each buyer who pages through them whether
\* a listing of his query has left it, and whether one has come between the two
\* queries for a page, after the count.
Become(rows) ==
  /\ listings' = rows
  /\ pager' = [b \in Buyers |->
       LET p   == pager[b]
           was == Fitting(listings, p.large)
           now == Fitting(rows, p.large)
       IN  [p EXCEPT !.left = @ \/ (p.page > 0 /\ ~(was \subseteq now)),
                     !.grew = @ \/ (p.todo = {"list"} /\ ~(now \subseteq was))]]

-----------------------------------------------------------------------------
(* Prices: the seed scripts, findLatest, findPriceHistory, getMarketTrend  *)

\* Mutation: the date carries the time of day, a row for each run.
SeedEachRun(c, price) ==
  /\ Cardinality(quotes) <= MaxDay
  /\ crops' = crops \cup {c}
  /\ quotes' = quotes \cup
       {[crop |-> c, day |-> today, run |-> Cardinality(quotes), price |-> price]}
  /\ UNCHANGED <<listings, today, pc, form, pager, updates, failures, clashes, lost>>

\* One crop of a seed script, which is run at any time, by several people, and
\* may stop half-way: both rows are upserted, the quote by crop and day.
Seed(c, price) ==
  /\ crops' = crops \cup {c}
  /\ quotes' = {q \in quotes : q.crop # c \/ q.day # today}
                 \cup {[crop |-> c, day |-> today, run |-> 0, price |-> price]}
  /\ UNCHANGED <<listings, today, pc, form, pager, updates, failures, clashes, lost>>

\* Without an administrator to sign them the seed makes no quotes.
SeedCrop(c) ==
  /\ crops' = crops \cup {c}
  /\ UNCHANGED <<quotes, listings, today, pc, form, pager, updates, failures, clashes, lost>>

NextDay ==
  /\ today < MaxDay
  /\ today' = today + 1
  /\ UNCHANGED <<crops, quotes, listings, pc, form, pager, updates, failures, clashes, lost>>

QuotesOf(c) == {q \in quotes : q.crop = c}
Newest(Q)   == CHOOSE q \in Q : \A r \in Q : r.day <= q.day

\* The crop is compared without regard to case, and not trimmed.
Matches(text, c) == text.crop = c /\ text.way # "padded"

LatestQuote(text) ==
  LET Q == {q \in quotes : Matches(text, q.crop)}
  IN  IF Q = {} THEN Fallback ELSE Newest(Q).price

\* The change from the quote before the newest one: "never fabricated".
Previous(c) == Newest(QuotesOf(c) \ {Newest(QuotesOf(c))})
HasTrend(c) == Cardinality(QuotesOf(c)) >= 2 /\ Previous(c).price > 0

-----------------------------------------------------------------------------
(* ListingService.createListing and PrismaListingRepository.create         *)

At(n, step) == pc[n] = step
Goto(n, step) == pc' = [pc EXCEPT ![n] = step]

\* The farmer has a payout number; the reference price is read.
Submit(n) ==
  /\ pc[n] \in {"idle", "failed"} /\ Len(listings) < MaxListings
  /\ form' = [form EXCEPT ![n].ref = LatestQuote(form[n])]
  /\ Goto(n, "find")
  /\ UNCHANGED <<crops, quotes, listings, today, pager, updates, failures, clashes, lost>>

\* Mutation: the lookup compares the case.
FindCropExactly(n) ==
  /\ At(n, "find")
  /\ form' = [form EXCEPT ![n].there = form[n].crop \in crops]
  /\ Goto(n, IF form[n].crop \in crops /\ form[n].way = "exact" THEN "insert" ELSE "crop")
  /\ UNCHANGED <<crops, quotes, listings, today, pager, updates, failures, clashes, lost>>

\* Mutation: the listing is inserted without a row of its crop.
FindNoCrop(n) ==
  /\ At(n, "find")
  /\ form' = [form EXCEPT ![n].there = form[n].crop \in crops]
  /\ Goto(n, "insert")
  /\ UNCHANGED <<crops, quotes, listings, today, pager, updates, failures, clashes, lost>>

FindCrop(n) ==
  /\ At(n, "find")
  /\ form' = [form EXCEPT ![n].there = form[n].crop \in crops]
  /\ Goto(n, IF \E c \in crops : Matches(form[n], c) THEN "insert" ELSE "crop")
  /\ UNCHANGED <<crops, quotes, listings, today, pager, updates, failures, clashes, lost>>

\* The new name is trimmed and lower-case; the unique index refuses a second one.
CreateCrop(n) ==
  /\ At(n, "crop")
  /\ IF form[n].crop \in crops
     THEN /\ clashes' = clashes \cup {[intent |-> n, there |-> form[n].there]}
          /\ Goto(n, "failed")
          /\ UNCHANGED crops
     ELSE /\ crops' = crops \cup {form[n].crop}
          /\ Goto(n, "insert")
          /\ UNCHANGED clashes
  /\ UNCHANGED <<quotes, listings, today, form, pager, updates, failures, lost>>

Insert(n) ==
  /\ At(n, "insert") /\ Len(listings) < MaxListings
  /\ Become(Append(listings, [intent |-> n, crop |-> form[n].crop, ref |-> form[n].ref,
                              large |-> form[n].large, status |-> "active"]))
  /\ form' = [form EXCEPT ![n].ref = 0, ![n].there = FALSE]
  /\ Goto(n, "audit")
  /\ UNCHANGED <<crops, quotes, today, updates, failures, clashes, lost>>

\* Mutation: the failure of the audit entry is answered with an error.
LogOrFail(n) ==
  /\ At(n, "audit")
  /\ \/ Goto(n, "done") /\ UNCHANGED failures
     \/ failures < MaxFailures /\ failures' = failures + 1 /\ Goto(n, "failed")
  /\ UNCHANGED <<crops, quotes, listings, today, form, pager, updates, clashes, lost>>

\* auditNonFatal: a failure of the entry is logged, and the listing answered.
Log(n) ==
  /\ At(n, "audit")
  /\ \/ UNCHANGED failures
     \/ failures < MaxFailures /\ failures' = failures + 1
  /\ Goto(n, "done")
  /\ UNCHANGED <<crops, quotes, listings, today, form, pager, updates, clashes, lost>>

\* A statement before the insertion fails, or the answer is lost with the server.
Fail(n) ==
  /\ pc[n] \in {"find", "crop", "insert", "audit"} /\ failures < MaxFailures
  /\ failures' = failures + 1
  /\ lost' = IF At(n, "audit") THEN lost \cup {n} ELSE lost
  /\ Goto(n, "failed")
  /\ UNCHANGED <<crops, quotes, listings, today, form, pager, updates, clashes>>

-----------------------------------------------------------------------------
(* MarketplaceService.browse and findActive, newest first: the page and     *)
(* the number of listings are two queries that run at the same time.       *)

\* Position of a listing in the order of the query.
Rank(i, large) == Cardinality({j \in Active(large) : j > i})

\* Mutation: pages are counted from zero.
PageFromZero(k, large) ==
  {i \in Active(large) : Rank(i, large) \in k * Limit .. (k + 1) * Limit - 1}

Page(k, large) ==
  {i \in Active(large) : Rank(i, large) \in (k - 1) * Limit .. k * Limit - 1}

TotalPages(large) == (Cardinality(Active(large)) + Limit - 1) \div Limit

\* The answer to the last request says that there are no more pages.
HasRead(b) == pager[b].page > 0 /\ pager[b].todo = {} /\ pager[b].page >= pager[b].total

Turn(b, row) ==
  /\ pager' = [pager EXCEPT ![b] = row]
  /\ UNCHANGED <<crops, quotes, listings, today, pc, form, updates, failures, clashes, lost>>

\* A buyer asks for his first page, with or without the filter.
Browse(b, large) ==
  /\ pager[b].page = 0
  /\ Turn(b, [NoPage EXCEPT !.page = 1, !.large = large, !.todo = {"list", "count"},
                            !.due = Active(large)])

\* The next page, until there are no more.
BrowseOn(b) ==
  /\ pager[b].page > 0 /\ pager[b].todo = {} /\ ~HasRead(b)
  /\ Turn(b, [pager[b] EXCEPT !.page = @ + 1, !.todo = {"list", "count"}, !.grew = FALSE])

FindPage(b) ==
  /\ "list" \in pager[b].todo
  /\ Turn(b, [pager[b] EXCEPT !.todo = @ \ {"list"},
                              !.seen = @ \cup Page(pager[b].page, pager[b].large)])

CountPages(b) ==
  /\ "count" \in pager[b].todo
  /\ Turn(b, [pager[b] EXCEPT !.todo = @ \ {"count"}, !.total = TotalPages(pager[b].large)])

StartAgain(b) ==
  /\ HasRead(b)
  /\ Turn(b, NoPage)

\* A listing is sold, or deleted by its farmer.
Leave(i) ==
  /\ i \in Active(FALSE)
  /\ Become([listings EXCEPT ![i].status = "gone"])
  /\ UNCHANGED <<crops, quotes, today, pc, form, updates, failures, clashes, lost>>

\* The charge is reversed, or a dispute refunded: the listing is on sale again,
\* whatever has become of it, in its old place.
Relist(i) ==
  /\ listings[i].status = "gone"
  /\ Become([listings EXCEPT ![i].status = "active"])
  /\ UNCHANGED <<crops, quotes, today, pc, form, updates, failures, clashes, lost>>

\* updateListing: the quantity is changed whatever has become of the listing.
Update(i) ==
  /\ updates < MaxUpdates
  /\ updates' = updates + 1
  /\ Become([listings EXCEPT ![i].large = ~@])
  /\ UNCHANGED <<crops, quotes, today, pc, form, failures, clashes, lost>>

Next ==
  \/ \E c \in Crops : SeedCrop(c) \/ \E price \in Prices : Seed(c, price)
  \/ NextDay
  \/ \E n \in Intents :
       \/ Submit(n) \/ FindCrop(n) \/ CreateCrop(n) \/ Insert(n) \/ Log(n) \/ Fail(n)
  \/ \E b \in Buyers :
       \/ BrowseOn(b) \/ FindPage(b) \/ CountPages(b) \/ StartAgain(b)
       \/ \E large \in BOOLEAN : Browse(b, large)
  \/ \E i \in DOMAIN listings : Leave(i) \/ Relist(i) \/ Update(i)

Spec == Init /\ [][Next]_vars

-----------------------------------------------------------------------------
(* Properties                                                              *)

\* The rows of produce_listings, what a handler knows, and what a buyer does: he
\* was due what fitted his query at first, he has seen what the pages showed;
\* something of it has left, or come after the count of the present page and
\* before its listings were found.
Rows   == [intent : Intents, crop : Crops, ref : Prices \cup {Fallback}, large : BOOLEAN,
           status : {"active", "gone"}]
Forms  == [crop : Crops, way : Ways, large : BOOLEAN, there : BOOLEAN,
           ref : Prices \cup {Fallback, 0}]
Pagers == [page : Nat, large : BOOLEAN, todo : SUBSET {"list", "count"}, total : Nat,
           due : SUBSET Nat, seen : SUBSET Nat, left : BOOLEAN, grew : BOOLEAN]

\* The types of all variables; quotes and listings are of crops that have a row.
TypeOK ==
  /\ crops \subseteq Crops
  /\ quotes \subseteq [crop : crops, day : 0 .. today, run : Nat, price : Prices]
  /\ listings \in Seq(Rows) /\ Len(listings) <= MaxListings
  /\ \A i \in DOMAIN listings : listings[i].crop \in crops
  /\ pc \in [Intents -> {"idle", "find", "crop", "insert", "audit", "failed", "done"}]
  /\ form \in [Intents -> Forms]
  /\ pager \in [Buyers -> Pagers]
  /\ today \in 0 .. MaxDay /\ updates \in 0 .. MaxUpdates /\ failures \in 0 .. MaxFailures
  /\ clashes \subseteq [intent : Intents, there : BOOLEAN] /\ lost \subseteq Intents

\* A farmer who tries again after an error does not list his produce twice: a
\* second listing means that the answer to the first one was lost with the
\* server, never that an audit entry failed (the comment on auditNonFatal).
NoDuplicateByRetry ==
  \A n \in Intents :
    Cardinality({i \in DOMAIN listings : listings[i].intent = n}) > 1 => n \in lost

\* "Reuse an existing row case-insensitively": a listing is refused on account
\* of its crop only if it was typed with blanks around it, or the crop was
\* created by someone else between the lookup and the insertion.
RefusedOnlyByBlanksOrOverlap ==
  \A x \in clashes : x.there => form[x.intent].way = "padded"

\* The trend compares the prices of two days: seeding again on the same day,
\* whoever does it and however often, makes no news.
TrendIsOfTwoDays ==
  \A c \in Crops : HasTrend(c) => Previous(c).day < Newest(QuotesOf(c)).day

\* A buyer who has been told that there are no more pages has seen every listing
\* that fitted his query from the first page on, however many were added or came
\* to fit it by a change of their farmer; unless one of them was sold, deleted, or
\* ceased to fit, or one came between the count for the last page and the page.
PagingMissesNothing ==
  \A b \in Buyers :
    (HasRead(b) /\ ~pager[b].left /\ ~pager[b].grew) => pager[b].due \subseteq pager[b].seen
=============================================================================

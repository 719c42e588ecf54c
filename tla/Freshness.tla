------------------------------ MODULE Freshness ------------------------------
(***************************************************************************)
(* The freshness monitor: a worker in every server that looks through the  *)
(* active listings once an hour and warns the farmer of those whose        *)
(* freshness will fall below a threshold within a window.  What it has     *)
(* warned of it knows from the notifications only.  The same projection of *)
(* freshness makes the price recommendation that is shown to the farmer.   *)
(*                                                                         *)
(* Time is counted in ticks.  A sweep ends before the second tick after it *)
(* has started, and the next one is due an interval after it: while a      *)
(* server is up its sweeps start at most MaxGap ticks apart.               *)
(* Freshness is counted in hundredths of a percent, as it is rounded and   *)
(* stored, and prices in pesewas; the freshness a price is asked for may   *)
(* be finer.  The code computes with doubles: whether a number that is     *)
(* half-way between two results is rounded up or down depends on them      *)
(* (79.99 after half its shelf life is 39.99, 80.01 is 40.01); any other   *)
(* number is too far from half-way for that.                               *)
(***************************************************************************)
EXTENDS Integers, FiniteSets

CONSTANTS
  Servers,      \* servers, each with its worker
  Listings,     \* listings
  Grades,       \* freshness and shelf life a listing is created with: [score, life]
  Queries,      \* what a price is asked for: [score, life], the score in Fine-ths
  Fine,         \* parts of a hundredth of a percent such a score is counted in
  Down,         \* the computations with a result half-way that is rounded down
  Prices,       \* reference prices
  None,         \* no listing
  Threshold,    \* hundredths of a percent, 4000 in the code
  Window,       \* ticks looked ahead, 48 hours in the code
  MaxGap,       \* ticks between the starts of two sweeps, at most
  MaxClock,     \* bound: the last tick
  LastListing,  \* bound: the last tick a listing is created in
  MaxFailures   \* bound: failures of sweeps and stops of servers

ASSUME NatBounds ==
  /\ Threshold \in Nat /\ Window \in Nat /\ MaxGap \in Nat \ {0}
  /\ MaxClock \in Nat /\ LastListing \in Nat /\ MaxFailures \in Nat
ASSUME PricesAreNat == Prices \subseteq Nat
ASSUME GradesArePositive ==
  /\ Grades \subseteq [score : Nat, life : Nat \ {0}]
  /\ Queries \subseteq [score : Nat, life : Nat \ {0}] /\ Fine \in Nat \ {0}
ASSUME ServersAreFinite == IsFiniteSet(Servers)

VARIABLES
  clock,     \* the time
  listing,   \* rows of produce_listings
  warnings,  \* rows of notifications of type FRESHNESS_WARNING for a listing
  read,      \* how many of them the farmer has marked as read
  pc,        \* what a worker does
  todo,      \* the listings of a sweep that are left
  current,   \* the listing a worker has found no warning for
  since,     \* ticks since the last sweep of a worker started
  healthy,   \* history: the time since which a worker has been up and has not failed
  failures   \* failures of sweeps and stops of servers

worker == <<pc, todo, current, since>>
vars   == <<clock, listing, warnings, read, worker, healthy, failures>>

-----------------------------------------------------------------------------
(* freshnessDecay.ts and freshnessMonitor.ts                               *)

\* The whole number next to n / d: half-way it is the lower one if the computation
\* is one of Down.
Nearest(n, d, computation) ==
  LET halfway == (2 * n + d) % (2 * d) = 0
      upper   == (2 * n + d) \div (2 * d)
  IN  IF halfway /\ computation \in Down THEN upper - 1 ELSE upper

\* Mutation: the result is cut off after the second decimal.
ProjectFreshnessCut(score, elapsed, life) ==
  IF life <= 0 \/ elapsed >= life THEN 0 ELSE (score * (life - elapsed)) \div (Fine * life)

\* projectFreshness: linear decay, to the nearest hundredth, never below zero.
ProjectFreshness(score, elapsed, life) ==
  IF life <= 0 \/ elapsed >= life THEN 0
  ELSE Nearest(score * (life - elapsed), Fine * life, <<score, elapsed, life>>)

ProjectedAt(l, t) ==
  LET elapsed == IF t < listing[l].created THEN 0 ELSE t - listing[l].created
  IN  ProjectFreshness(Fine * listing[l].score, elapsed, listing[l].life)

WillDrop(l, t) ==
  /\ ProjectedAt(l, t) >= Threshold
  /\ ProjectedAt(l, t + Window) < Threshold

-----------------------------------------------------------------------------
(* PricingService.recommend                                                *)

\* The reference price in proportion to the freshness, to the nearest pesewa.
Ceiling(price, score) == Nearest(price * score, 10000 * Fine, <<price, score>>)

\* decayProjection: the ceiling of each day of the shelf life.
DecayProjection(price, query) ==
  [day \in 0 .. query.life |->
     Ceiling(price, Fine * ProjectFreshness(query.score, day, query.life))]

-----------------------------------------------------------------------------
(* Listings                                                                *)

Active == {l \in Listings : listing[l].status = "active"}

Init ==
  /\ clock = 0
  /\ listing = [l \in Listings |->
       [status |-> "none", score |-> 0, life |-> 0, created |-> 0, listed |-> 0]]
  /\ warnings = [l \in Listings |-> 0]
  /\ read = [l \in Listings |-> 0]
  /\ pc = [s \in Servers |-> "down"]
  /\ todo = [s \in Servers |-> {}]
  /\ current = [s \in Servers |-> None]
  /\ since = [s \in Servers |-> 0]
  /\ healthy = [s \in Servers |-> 0]
  /\ failures = 0

Create(l, grade) ==
  /\ listing[l].status = "none" /\ clock <= LastListing
  /\ listing' = [listing EXCEPT ![l] =
         [status |-> "active", score |-> grade.score, life |-> grade.life,
          created |-> clock, listed |-> clock]]
  /\ UNCHANGED <<clock, warnings, read, worker, healthy, failures>>

\* Sold or deleted, at any moment of a sweep.
Leave(l) ==
  /\ l \in Active
  /\ listing' = [listing EXCEPT ![l].status = "gone"]
  /\ UNCHANGED <<clock, warnings, read, worker, healthy, failures>>

\* The charge is reversed, or a dispute refunded: it is on sale again, and has
\* aged from its creation on.  That it is since now is history.
Relist(l) ==
  /\ listing[l].status = "gone"
  /\ listing' = [listing EXCEPT ![l].status = "active", ![l].listed = clock]
  /\ UNCHANGED <<clock, warnings, read, worker, healthy, failures>>

MarkRead(l) == read' = [read EXCEPT ![l] = @ + 1]

\* markAsRead: one row, by its id and its owner.
Read(l) ==
  /\ read[l] < warnings[l]
  /\ MarkRead(l)
  /\ UNCHANGED <<clock, listing, warnings, worker, healthy, failures>>

-----------------------------------------------------------------------------
(* FreshnessMonitorWorker                                                  *)

\* start(): the first sweep follows at once.
StartWorker(s) ==
  /\ pc' = [pc EXCEPT ![s] = "wait"]
  /\ since' = [since EXCEPT ![s] = MaxGap]

\* The server starts, and its worker last.
Boot(s) ==
  /\ pc[s] = "down"
  /\ StartWorker(s)
  /\ healthy' = [healthy EXCEPT ![s] = clock]
  /\ UNCHANGED <<clock, listing, warnings, read, todo, current, failures>>

\* Mutation: only listings created since the last sweep are looked at.
StartSweepOfNew(s) ==
  /\ pc[s] = "wait"
  /\ todo' = [todo EXCEPT ![s] =
       {l \in Active : listing[l].created >= clock - since[s] /\ WillDrop(l, clock)}]
  /\ since' = [since EXCEPT ![s] = 0]
  /\ pc' = [pc EXCEPT ![s] = "check"]
  /\ UNCHANGED <<clock, listing, warnings, read, current, healthy, failures>>

\* findAllActive, and the projection of each listing at the start of the sweep.
StartSweep(s) ==
  /\ pc[s] = "wait"
  /\ todo' = [todo EXCEPT ![s] = {l \in Active : WillDrop(l, clock)}]
  /\ since' = [since EXCEPT ![s] = 0]
  /\ pc' = [pc EXCEPT ![s] = "check"]
  /\ UNCHANGED <<clock, listing, warnings, read, current, healthy, failures>>

\* Mutation: only a warning that has not been read counts.
CheckUnread(s) ==
  /\ pc[s] = "check"
  /\ \E l \in todo[s] :
       IF warnings[l] > read[l]
       THEN todo' = [todo EXCEPT ![s] = @ \ {l}] /\ UNCHANGED <<pc, current>>
       ELSE /\ current' = [current EXCEPT ![s] = l]
            /\ pc' = [pc EXCEPT ![s] = "send"]
            /\ UNCHANGED todo
  /\ UNCHANGED <<clock, listing, warnings, read, since, healthy, failures>>

\* existsForListingAndType, read or not; the listings come in any order.
Check(s) ==
  /\ pc[s] = "check"
  /\ \E l \in todo[s] :
       IF warnings[l] > 0
       THEN todo' = [todo EXCEPT ![s] = @ \ {l}] /\ UNCHANGED <<pc, current>>
       ELSE /\ current' = [current EXCEPT ![s] = l]
            /\ pc' = [pc EXCEPT ![s] = "send"]
            /\ UNCHANGED todo
  /\ UNCHANGED <<clock, listing, warnings, read, since, healthy, failures>>

Warn(l) == warnings' = [warnings EXCEPT ![l] = @ + 1]

\* sendNotification; the lookup of device tokens that follows changes nothing.
Send(s) ==
  /\ pc[s] = "send"
  /\ Warn(current[s])
  /\ todo' = [todo EXCEPT ![s] = @ \ {current[s]}]
  /\ current' = [current EXCEPT ![s] = None]
  /\ pc' = [pc EXCEPT ![s] = "check"]
  /\ UNCHANGED <<clock, listing, read, since, healthy, failures>>

EndSweep(s) ==
  /\ pc[s] = "check" /\ todo[s] = {}
  /\ pc' = [pc EXCEPT ![s] = "wait"]
  /\ UNCHANGED <<clock, listing, warnings, read, todo, current, since, healthy, failures>>

\* Mutation: the failed sweep leaves its listing behind.
FailKeepingCurrent(s) ==
  /\ pc[s] \in {"check", "send"} /\ failures < MaxFailures
  /\ failures' = failures + 1
  /\ pc' = [pc EXCEPT ![s] = "wait"]
  /\ todo' = [todo EXCEPT ![s] = {}]
  /\ healthy' = [healthy EXCEPT ![s] = clock]
  /\ UNCHANGED <<clock, listing, warnings, read, current, since>>

\* A statement fails, perhaps after the row was written: the sweep ends there,
\* the listings that are left wait for the next one.
Fail(s) ==
  /\ pc[s] \in {"check", "send"} /\ failures < MaxFailures
  /\ failures' = failures + 1
  /\ UNCHANGED warnings \/ (pc[s] = "send" /\ Warn(current[s]))
  /\ pc' = [pc EXCEPT ![s] = "wait"]
  /\ todo' = [todo EXCEPT ![s] = {}]
  /\ current' = [current EXCEPT ![s] = None]
  /\ healthy' = [healthy EXCEPT ![s] = clock]
  /\ UNCHANGED <<clock, listing, read, since>>

\* The process of the server ends, or is ended, at any moment.
Stop(s) ==
  /\ pc[s] # "down" /\ failures < MaxFailures
  /\ failures' = failures + 1
  /\ pc' = [pc EXCEPT ![s] = "down"]
  /\ todo' = [todo EXCEPT ![s] = {}]
  /\ current' = [current EXCEPT ![s] = None]
  /\ UNCHANGED <<clock, listing, warnings, read, since, healthy>>

\* A sweep ends within a tick of its start, the next one starts within MaxGap.
MayWait(s) ==
  \/ pc[s] = "down"
  \/ pc[s] = "wait" /\ since[s] < MaxGap
  \/ pc[s] \in {"check", "send"} /\ since[s] < 1

Tick ==
  /\ clock < MaxClock /\ \A s \in Servers : MayWait(s)
  /\ clock' = clock + 1
  /\ since' = [s \in Servers |-> IF pc[s] = "down" THEN 0 ELSE since[s] + 1]
  /\ UNCHANGED <<listing, warnings, read, pc, todo, current, healthy, failures>>

Next ==
  \/ \E l \in Listings :
       \/ Leave(l) \/ Relist(l) \/ Read(l)
       \/ \E grade \in Grades : Create(l, grade)
  \/ \E s \in Servers :
       \/ Boot(s) \/ StartSweep(s) \/ Check(s) \/ Send(s) \/ EndSweep(s)
       \/ Fail(s) \/ Stop(s)
  \/ Tick

Spec == Init /\ [][Next]_vars

-----------------------------------------------------------------------------
(* Properties                                                              *)

\* The types of all variables, and what a worker remembers between sweeps.
TypeOK ==
  /\ clock \in 0 .. MaxClock
  /\ listing \in [Listings -> [status : {"none", "active", "gone"}, score : Nat, life : Nat,
                               created : 0 .. MaxClock, listed : 0 .. MaxClock]]
  /\ \A l \in Listings :
       listing[l].created <= listing[l].listed /\ listing[l].listed <= clock
  /\ warnings \in [Listings -> Nat]
  /\ read \in [Listings -> Nat] /\ \A l \in Listings : read[l] <= warnings[l]
  /\ pc \in [Servers -> {"down", "wait", "check", "send"}]
  /\ todo \in [Servers -> SUBSET Listings]
  /\ \A s \in Servers : IF pc[s] = "send" THEN current[s] \in todo[s] ELSE current[s] = None
  /\ since \in [Servers -> 0 .. MaxGap]
  /\ healthy \in [Servers -> 0 .. clock]
  /\ failures \in 0 .. MaxFailures

\* The times at which a server that has been up since then could have seen that
\* the listing, which has been on sale since then, was about to drop.
Chances(l, s) ==
  {t \in 0 .. clock : t >= listing[l].listed /\ t >= healthy[s] /\ WillDrop(l, t)}

\* "The alert fires as the crossing approaches": a listing on sale was warned of
\* when any server has been healthy, and the listing on sale, through MaxGap + 2
\* ticks of the time it was about to drop, whatever failed before.  One that was
\* sold during that time and comes back after it is never warned of.
WarnedInTime ==
  \A l \in Active : \A s \in Servers :
    (pc[s] # "down" /\ Cardinality(Chances(l, s)) > MaxGap + 2) => warnings[l] > 0

\* "Once per listing": a server never warns twice, in spite of failures, restarts
\* and a farmer who has read the warning meanwhile; two servers that sweep at the
\* same time may each warn once.
WarnedOncePerServer ==
  \A l \in Listings : warnings[l] <= Cardinality(Servers)

\* A projected freshness is within half a hundredth of the linear decay.
RoundsToNearest ==
  \A q \in Queries : \A e \in 0 .. q.life :
    2 * (Fine * q.life) * ProjectFreshness(q.score, e, q.life) - 2 * (q.score * (q.life - e))
      \in -(Fine * q.life) .. Fine * q.life

\* The ceilings a farmer is shown never rise, although they are rounded twice, and
\* end with nothing; they start at that of the day, unless the freshness asked for
\* is finer than the hundredth it is rounded to.
CeilingsFall ==
  \A price \in Prices, q \in Queries :
    LET shown == DecayProjection(price, q)
    IN  /\ q.score % Fine = 0 => shown[0] = Ceiling(price, q.score)
        /\ \A day \in 1 .. q.life : shown[day] <= shown[day - 1]
        /\ shown[q.life] = 0

\* However the doubles round what is half-way: the projection is the linear decay
\* to the nearest hundredth, for any score and shelf life; the ceilings made of it
\* fall; and the time before a drop is one stretch: a listing that has left the
\* window does not come into it again.
ProjectionIsSound ==
  /\ RoundsToNearest
  /\ CeilingsFall
  /\ \A l \in Active : \A t \in 0 .. MaxClock + Window :
       (t >= listing[l].created /\ ProjectedAt(l, t) < Threshold)
         => ~ \E u \in t .. MaxClock + Window : WillDrop(l, u)
=============================================================================

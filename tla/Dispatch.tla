------------------------------ MODULE Dispatch ------------------------------
(***************************************************************************)
(* Finding a driver for an order: the job is offered to every available    *)
(* driver at once, the first to accept it gets it, and when every offer    *)
(* has been declined or has timed out the admins are told to assign a      *)
(* driver by hand.                                                         *)
(*                                                                         *)
(* Everything here goes through the global client, so each statement       *)
(* commits by itself; request handlers and timeout workers stop at each of *)
(* them.  Two UPDATE statements are two steps, because what they decide on *)
(* one transaction can miss in another: the claim of acceptJob, which      *)
(* tests the rival offers in its snapshot, and the worker's SKIP LOCKED.   *)
(*                                                                         *)
(* server.ts does not start the timeout worker: Workers is empty in the    *)
(* deployed program.                                                       *)
(***************************************************************************)
EXTENDS FiniteSets, Integers

CONSTANTS
  Orders,       \* orders that need transport
  Drivers,      \* approved drivers with the capacity for them
  Requests,     \* request handlers that can be running at the same time
  Workers,      \* running instances of DriverTimeoutWorker
  None,         \* no order, no driver
  MaxManual,    \* bound: offers the admins make by hand
  MaxFailures   \* bound: handlers and worker runs that throw

ASSUME BoundsAreNat == MaxManual \in Nat /\ MaxFailures \in Nat
ASSUME DriversAreFinite == IsFiniteSet(Drivers)
ASSUME WorkersAreNoRequests == Workers \cap Requests = {}

VARIABLES
  orderStatus,  \* orders.order_status, "none" while there is no row
  offer,        \* driver_assignments.status, by order and sequence_number
  driverOf,     \* driver_assignments.driver_id
  late,         \* offers older than the worker's cutoff
  available,    \* drivers whose availability_status is "available"
  alerts,       \* alerts to the admins since the last offer of an order
  past,         \* history: what became of the claims of an order
  manuals,      \* number of offers made by hand
  proc,         \* the requests being handled and the workers
  failures      \* number of failures so far

rows   == <<offer, driverOf, late>>
tables == <<orderStatus, rows, available>>
counts == <<alerts, past, manuals, failures>>
vars   == <<tables, counts, proc>>

Processes == Requests \cup Workers
Slots     == 1..(Cardinality(Drivers) + MaxManual)
Rows      == Orders \X Slots
Live      == {"notified", "accepted"}

CreateSteps  == {"find", "count", "create"}
AcceptSteps  == {"claim", "claimed", "expire", "offline", "assign"}
ExhaustSteps == {"exhaust", "reset", "alert"}
DeliverSteps == {"deliver", "find_active", "complete", "free"}
WorkerSteps  == {"lapse", "read", "overwrite", "next"}

Steps == CreateSteps \cup AcceptSteps \cup ExhaustSteps \cup DeliverSteps
           \cup WorkerSteps \cup {"idle", "decline"}

Process == [pc     : Steps,
            order  : Orders \cup {None},
            slot   : Slots \cup {0},
            todo   : SUBSET Drivers,  \* drivers still to be made an offer
            rows   : SUBSET Rows,     \* offers a worker is letting lapse
            orders : SUBSET Orders]   \* orders it has to look at after that

Idle == [pc |-> "idle", order |-> None, slot |-> 0, todo |-> {}, rows |-> {},
         orders |-> {}]

ClaimEvents == {"claimed", "overlap", "overwritten", "delivered"}

\* The types of all variables.
TypeOK ==
  /\ orderStatus \in [Orders -> {"none", "awaiting_driver", "driver_assigned",
                                 "completed", "cancelled"}]
  /\ offer     \in [Orders -> [Slots -> {"none", "notified", "accepted",
                                         "declined", "expired"}]]
  /\ driverOf  \in [Orders -> [Slots -> Drivers \cup {None}]]
  /\ late      \in SUBSET Rows
  /\ available \in SUBSET Drivers
  /\ alerts    \in [Orders -> Nat]
  /\ past      \in [Orders -> SUBSET ClaimEvents]
  /\ manuals   \in 0..MaxManual
  /\ proc      \in [Processes -> Process]
  /\ failures  \in 0..MaxFailures

Init ==
  /\ orderStatus = [o \in Orders |-> "none"]
  /\ offer       = [o \in Orders |-> [n \in Slots |-> "none"]]
  /\ driverOf    = [o \in Orders |-> [n \in Slots |-> None]]
  /\ late        = {}
  /\ available \in SUBSET Drivers
  /\ alerts      = [o \in Orders |-> 0]
  /\ past        = [o \in Orders |-> {}]
  /\ manuals     = 0
  /\ proc        = [p \in Processes |-> Idle]
  /\ failures    = 0

-----------------------------------------------------------------------------
At(p, step)   == proc[p].pc = step
Begin(p, r)   == proc[p].pc = "idle" /\ proc' = [proc EXCEPT ![p] = r]
Goto(p, step) == proc' = [proc EXCEPT ![p].pc = step]
Done(p)       == proc' = [proc EXCEPT ![p] = Idle]

Offers(o)     == {n \in Slots : offer[o][n] # "none"}
LiveOffers(o) == {n \in Slots : offer[o][n] \in Live}

\* An UPDATE that has not committed yet has locked offer n of order o.
Locked(o, n) ==
  \E p \in Processes :
    \/ At(p, "claimed") /\ proc[p].order = o /\ proc[p].slot = n
    \/ At(p, "lapse") /\ <<o, n>> \in proc[p].rows

SetOffer(o, n, status) == offer' = [offer EXCEPT ![o][n] = status]

Happened(o, S)  == past' = [past EXCEPT ![o] = @ \cup S]
OverClaim(o, n) == IF offer[o][n] = "accepted" THEN {"overwritten"} ELSE {}

-----------------------------------------------------------------------------
(* assignDriver and manualAssignDriver                                     *)

\* purchase() of an order without own transport has committed and calls
\* assignDriver.
Place(p, o) ==
  /\ orderStatus[o] = "none"
  /\ orderStatus' = [orderStatus EXCEPT ![o] = "awaiting_driver"]
  /\ Begin(p, [Idle EXCEPT !.pc = "find", !.order = o])
  /\ UNCHANGED <<rows, available, counts>>

\* findAvailableDrivers; nothing happens when there are none.
FindDrivers(p) ==
  /\ At(p, "find")
  /\ IF available = {} THEN Done(p)
       ELSE proc' = [proc EXCEPT ![p].pc = "count", ![p].todo = available]
  /\ UNCHANGED <<tables, counts>>

ManualAssign(p, o, d) ==
  /\ orderStatus[o] # "none"
  /\ manuals < MaxManual
  /\ manuals' = manuals + 1
  /\ Begin(p, [Idle EXCEPT !.pc = "count", !.order = o, !.todo = {d}])
  /\ UNCHANGED <<tables, alerts, past, failures>>

\* PrismaDispatchRepository.create: the count of the offers there are, and
CountOffers(p) ==
  /\ At(p, "count")
  /\ proc' = [proc EXCEPT ![p].pc = "create",
                          ![p].slot = Cardinality(Offers(proc[p].order)) + 1]
  /\ UNCHANGED <<tables, counts>>

\* the insertion with the next number, which throws if it is taken.
CreateOffer(p, d) ==
  LET o == proc[p].order
      n == proc[p].slot IN
  /\ At(p, "create")
  /\ d \in proc[p].todo
  /\ IF offer[o][n] # "none"
       THEN Done(p) /\ UNCHANGED <<rows, alerts>>
       ELSE /\ SetOffer(o, n, "notified")
            /\ driverOf' = [driverOf EXCEPT ![o][n] = d]
            /\ alerts' = [alerts EXCEPT ![o] = 0]
            /\ IF proc[p].todo = {d} THEN Done(p)
                 ELSE proc' = [proc EXCEPT ![p].pc = "count",
                                           ![p].todo = @ \ {d}]
            /\ UNCHANGED late
  /\ UNCHANGED <<orderStatus, available, past, manuals, failures>>

-----------------------------------------------------------------------------
(* acceptJob                                                               *)

\* assertOwnedPendingJob
AcceptStart(p, o, n) ==
  /\ offer[o][n] = "notified"
  /\ Begin(p, [Idle EXCEPT !.pc = "claim", !.order = o, !.slot = n])
  /\ UNCHANGED <<tables, counts>>

\* Another claim of the order has not committed yet.
Claiming(o) == \E q \in Processes : At(q, "claimed") /\ proc[q].order = o

\* Mutation: rival offers are not looked at.
AcceptClaimOwn(p) ==
  LET o == proc[p].order IN
  /\ At(p, "claim")
  /\ ~Locked(o, proc[p].slot)
  /\ IF offer[o][proc[p].slot] = "notified"
       THEN /\ Goto(p, "claimed")
            /\ Happened(o, IF Claiming(o) THEN {"overlap"} ELSE {})
       ELSE Done(p) /\ UNCHANGED past
  /\ UNCHANGED <<tables, alerts, manuals, failures>>

\* The claim waits for the lock of its own row; its snapshot shows which
\* rival claims have committed.
AcceptClaim(p) ==
  LET o == proc[p].order IN
  /\ At(p, "claim")
  /\ ~Locked(o, proc[p].slot)
  /\ IF /\ offer[o][proc[p].slot] = "notified"
        /\ \A n \in Slots : offer[o][n] # "accepted"
       THEN /\ Goto(p, "claimed")
            /\ Happened(o, IF Claiming(o) THEN {"overlap"} ELSE {})
       ELSE Done(p) /\ UNCHANGED past
  /\ UNCHANGED <<tables, alerts, manuals, failures>>

AcceptCommit(p) ==
  /\ At(p, "claimed")
  /\ SetOffer(proc[p].order, proc[p].slot, "accepted")
  /\ Happened(proc[p].order, {"claimed"})
  /\ Goto(p, "expire")
  /\ UNCHANGED <<orderStatus, driverOf, late, available, alerts, manuals,
                 failures>>

\* Every other offer of the order that is still open expires.
AcceptExpire(p) ==
  LET o == proc[p].order
      open == {n \in Slots \ {proc[p].slot} : offer[o][n] = "notified"} IN
  /\ At(p, "expire")
  /\ \A n \in open : ~Locked(o, n)
  /\ offer' = [offer EXCEPT ![o] =
                 [n \in Slots |-> IF n \in open THEN "expired" ELSE @[n]]]
  /\ Goto(p, "offline")
  /\ UNCHANGED <<orderStatus, driverOf, late, available, counts>>

AcceptOffline(p) ==
  /\ At(p, "offline")
  /\ available' = available \ {driverOf[proc[p].order][proc[p].slot]}
  /\ Goto(p, "assign")
  /\ UNCHANGED <<orderStatus, rows, counts>>

AcceptAssign(p) ==
  /\ At(p, "assign")
  /\ orderStatus' = [orderStatus EXCEPT ![proc[p].order] = "driver_assigned"]
  /\ Done(p)
  /\ UNCHANGED <<rows, available, counts>>

-----------------------------------------------------------------------------
(* declineJob, and handleExhaustionIfNeeded, which the worker calls too    *)

DeclineStart(p, o, n) ==
  /\ offer[o][n] = "notified"
  /\ Begin(p, [Idle EXCEPT !.pc = "decline", !.order = o, !.slot = n])
  /\ UNCHANGED <<tables, counts>>

\* Mutation: the API's status is written, not the database's.
DeclineWriteUnmapped(p) ==
  /\ At(p, "decline")
  /\ ~Locked(proc[p].order, proc[p].slot)
  /\ SetOffer(proc[p].order, proc[p].slot, "DECLINED")
  /\ Goto(p, "exhaust")
  /\ UNCHANGED <<orderStatus, driverOf, late, available, counts>>

DeclineWrite(p) ==
  /\ At(p, "decline")
  /\ ~Locked(proc[p].order, proc[p].slot)
  /\ SetOffer(proc[p].order, proc[p].slot, "declined")
  /\ Happened(proc[p].order, OverClaim(proc[p].order, proc[p].slot))
  /\ Goto(p, "exhaust")
  /\ UNCHANGED <<orderStatus, driverOf, late, available, alerts, manuals, failures>>

\* A worker goes on with the orders it still has to look at.
Return(p) == IF p \in Workers THEN Goto(p, "next") ELSE Done(p)

\* Mutation: an offer that has timed out counts as live.
CountLiveOrExpired(p) ==
  /\ At(p, "exhaust")
  /\ IF \E n \in Offers(proc[p].order) : offer[proc[p].order][n] # "declined"
       THEN Return(p)
       ELSE Goto(p, "reset")
  /\ UNCHANGED <<tables, counts>>

CountLive(p) ==
  /\ At(p, "exhaust")
  /\ IF LiveOffers(proc[p].order) # {} THEN Return(p) ELSE Goto(p, "reset")
  /\ UNCHANGED <<tables, counts>>

ResetOrder(p) ==
  /\ At(p, "reset")
  /\ orderStatus' = [orderStatus EXCEPT ![proc[p].order] = "awaiting_driver"]
  /\ Goto(p, "alert")
  /\ UNCHANGED <<rows, available, counts>>

\* MANUAL_DISPATCH_REQUIRED to every admin
AlertAdmins(p) ==
  LET o == proc[p].order IN
  /\ At(p, "alert")
  /\ alerts' = [alerts EXCEPT ![o] = @ + 1]
  /\ Return(p)
  /\ UNCHANGED <<tables, past, manuals, failures>>

-----------------------------------------------------------------------------
(* DriverTimeoutWorker.processExpiredAssignments                           *)

\* Mutation: the poll is restricted to orders that wait for a driver.
OverdueOfWaitingOrders ==
  {r \in late : /\ offer[r[1]][r[2]] = "notified"
                /\ orderStatus[r[1]] = "awaiting_driver"}

Overdue == {r \in late : offer[r[1]][r[2]] = "notified"}

\* The claiming statement locks the overdue offers that are not locked.  When
\* it finds none, or fails, the fallback reads the same offers without locks.
Poll(w) ==
  LET free == {r \in Overdue : ~Locked(r[1], r[2])} IN
  /\ Overdue # {}
  /\ IF free # {}
       THEN Begin(w, [Idle EXCEPT !.pc = "lapse", !.rows = free])
       ELSE Begin(w, [Idle EXCEPT !.pc = "read", !.rows = Overdue])
  /\ UNCHANGED <<tables, counts>>

PollFails(w) ==
  /\ Overdue # {}
  /\ failures < MaxFailures
  /\ failures' = failures + 1
  /\ Begin(w, [Idle EXCEPT !.pc = "read", !.rows = Overdue])
  /\ UNCHANGED <<tables, alerts, past, manuals>>

OrdersOf(S) == {r[1] : r \in S}

Lapse(w) ==
  LET S == proc[w].rows IN
  /\ At(w, "lapse")
  /\ offer' = [o \in Orders |-> [n \in Slots |->
                 IF <<o, n>> \in S THEN "expired" ELSE offer[o][n]]]
  /\ proc' = [proc EXCEPT ![w].pc = "next", ![w].rows = {},
                          ![w].orders = OrdersOf(S)]
  /\ UNCHANGED <<orderStatus, driverOf, late, available, counts>>

FallbackRead(w) ==
  LET S == {r \in proc[w].rows : offer[r[1]][r[2]] = "notified"} IN
  /\ At(w, "read")
  /\ IF S = {} THEN Done(w)
       ELSE proc' = [proc EXCEPT ![w].pc = "overwrite", ![w].rows = S]
  /\ UNCHANGED <<tables, counts>>

\* One offer after the other, whatever it has become since it was read.
Overwrite(w, r) ==
  /\ At(w, "overwrite")
  /\ r \in proc[w].rows
  /\ ~Locked(r[1], r[2])
  /\ SetOffer(r[1], r[2], "expired")
  /\ proc' = [proc EXCEPT ![w].rows = @ \ {r}, ![w].orders = @ \cup {r[1]},
                ![w].pc = IF proc[w].rows = {r} THEN "next" ELSE "overwrite"]
  /\ Happened(r[1], OverClaim(r[1], r[2]))
  /\ UNCHANGED <<orderStatus, driverOf, late, available, alerts, manuals, failures>>

\* reassignNextDriver for one order after the other.
NextOrder(w) ==
  /\ At(w, "next")
  /\ IF proc[w].orders = {} THEN Done(w)
       ELSE \E o \in proc[w].orders :
              proc' = [proc EXCEPT ![w].pc = "exhaust", ![w].order = o,
                                   ![w].orders = @ \ {o}]
  /\ UNCHANGED <<tables, counts>>

-----------------------------------------------------------------------------
(* confirmDelivery: the order is completed, then markCompleted             *)

DeliverStart(p, o) ==
  /\ orderStatus[o] \in {"awaiting_driver", "driver_assigned"}
  /\ \A q \in Processes : ~(proc[q].pc \in DeliverSteps /\ proc[q].order = o)
  /\ Begin(p, [Idle EXCEPT !.pc = "deliver", !.order = o])
  /\ UNCHANGED <<tables, counts>>

Deliver(p) ==
  /\ At(p, "deliver")
  /\ orderStatus' = [orderStatus EXCEPT ![proc[p].order] = "completed"]
  /\ Goto(p, "find_active")
  /\ UNCHANGED <<rows, available, counts>>

\* findActiveForTransaction: the live offer with the highest number.
FindActive(p) ==
  LET live == LiveOffers(proc[p].order) IN
  /\ At(p, "find_active")
  /\ IF live = {} THEN Done(p)
       ELSE \E n \in live :
              /\ \A m \in live : m <= n
              /\ proc' = [proc EXCEPT ![p].pc = "complete", ![p].slot = n]
  /\ UNCHANGED <<tables, counts>>

\* jobs.update(COMPLETED), which the database stores as accepted.
CompleteOffer(p) ==
  /\ At(p, "complete")
  /\ ~Locked(proc[p].order, proc[p].slot)
  /\ SetOffer(proc[p].order, proc[p].slot, "accepted")
  /\ Happened(proc[p].order, {"delivered"})
  /\ Goto(p, "free")
  /\ UNCHANGED <<orderStatus, driverOf, late, available, alerts, manuals, failures>>

FreeDriver(p) ==
  /\ At(p, "free")
  /\ available' = available \cup {driverOf[proc[p].order][proc[p].slot]}
  /\ Done(p)
  /\ UNCHANGED <<orderStatus, rows, counts>>

-----------------------------------------------------------------------------
(* The rest of the system                                                  *)

\* A webhook or the resolution of a dispute writes the order's status.
EscrowSets(o, status) ==
  /\ orderStatus[o] # "none"
  /\ orderStatus' = [orderStatus EXCEPT ![o] = status]
  /\ UNCHANGED <<rows, available, counts, proc>>

\* A driver goes on or off duty (updateProfile).
SetAvailability(d) ==
  /\ available' = IF d \in available THEN available \ {d}
                                     ELSE available \cup {d}
  /\ UNCHANGED <<orderStatus, rows, counts, proc>>

\* An offer becomes older than the cutoff.
OfferAges(o, n) ==
  /\ offer[o][n] = "notified"
  /\ <<o, n>> \notin late
  /\ Workers # {}             \* nobody else looks at the age of an offer
  /\ late' = late \cup {<<o, n>>}
  /\ UNCHANGED <<orderStatus, offer, driverOf, available, counts, proc>>

\* A statement fails: the handler throws, the worker goes on with the next
\* order, or ends its run.
Fail(p) ==
  /\ ~At(p, "idle")
  /\ failures < MaxFailures
  /\ failures' = failures + 1
  /\ IF p \in Workers /\ proc[p].pc \in ExhaustSteps THEN Goto(p, "next")
                                                     ELSE Done(p)
  /\ UNCHANGED <<tables, alerts, past, manuals>>

-----------------------------------------------------------------------------
Assign(p) ==
  \/ \E o \in Orders : Place(p, o)
  \/ FindDrivers(p)
  \/ \E o \in Orders, d \in Drivers : ManualAssign(p, o, d)
  \/ CountOffers(p)
  \/ \E d \in Drivers : CreateOffer(p, d)

Accept(p) ==
  \/ \E o \in Orders, n \in Slots : AcceptStart(p, o, n)
  \/ AcceptClaim(p)
  \/ AcceptCommit(p)
  \/ AcceptExpire(p)
  \/ AcceptOffline(p)
  \/ AcceptAssign(p)

Decline(p) ==
  \/ \E o \in Orders, n \in Slots : DeclineStart(p, o, n)
  \/ DeclineWrite(p)

Exhaust(p) == CountLive(p) \/ ResetOrder(p) \/ AlertAdmins(p)

Complete(p) ==
  \/ \E o \in Orders : DeliverStart(p, o)
  \/ Deliver(p)
  \/ FindActive(p)
  \/ CompleteOffer(p)
  \/ FreeDriver(p)

Handle(p) ==
  Assign(p) \/ Accept(p) \/ Decline(p) \/ Exhaust(p) \/ Complete(p)

Work(w) ==
  \/ Poll(w)
  \/ Lapse(w)
  \/ FallbackRead(w)
  \/ \E r \in Rows : Overwrite(w, r)
  \/ NextOrder(w)
  \/ Exhaust(w)

Environment ==
  \/ \E o \in Orders,
        status \in {"awaiting_driver", "completed", "cancelled"} :
       EscrowSets(o, status)
  \/ \E d \in Drivers : SetAvailability(d)
  \/ \E o \in Orders, n \in Slots : OfferAges(o, n)

Next ==
  \/ \E p \in Requests : Handle(p)
  \/ \E w \in Workers : Work(w) \/ PollFails(w)
  \/ \E p \in Processes : Fail(p)
  \/ Environment

Spec == Init /\ [][Next]_vars

\* Handlers that were started go on, a running worker polls again and again,
\* and time passes.
Fairness ==
  /\ \A p \in Requests : WF_vars(~At(p, "idle") /\ Handle(p))
  /\ \A w \in Workers : WF_vars(Work(w))
  /\ \A o \in Orders, n \in Slots : WF_vars(OfferAges(o, n))

FairSpec == Spec /\ Fairness
-----------------------------------------------------------------------------
(* Properties that hold                                                    *)

\* No process is working on order o.
Quiet(o) ==
  \A p \in Processes : /\ proc[p].order # o
                       /\ o \notin proc[p].orders
                       /\ \A n \in Slots : <<o, n>> \notin proc[p].rows

\* An order that was offered to drivers, all of whom declined it or let it
\* time out, does not sit there unnoticed: whichever of them was last, and
\* however their answers overlapped with each other, with the broadcast,
\* with a manual assignment or with the worker, the admins were alerted
\* after the last offer was made.  Orders that some driver claimed are not
\* covered, nor what a failed statement interrupted.
ExhaustionIsAlerted ==
  \A o \in Orders :
    /\ Quiet(o) /\ "claimed" \notin past[o] /\ failures = 0
    /\ Offers(o) # {} /\ LiveOffers(o) = {}
    => alerts[o] > 0

\* A driver who has claimed an order keeps it, and keeps it alone ("This one
\* statement closes both gaps", acceptJob), through the answers of the other
\* drivers, the broadcast and the worker, except in three cases: the claim
\* overlapped another one, neither of which saw the other; a decline or the
\* worker's fallback, which had read the offer before, wrote over it; or the
\* delivery was confirmed.
ClaimHolds ==
  \A o \in Orders :
    past[o] = {"claimed"} =>
      Cardinality({n \in Slots : offer[o][n] = "accepted"}) = 1

\* An offer does not stay open for ever where a worker runs.
OfferAnswered ==
  \A o \in Orders, n \in Slots :
    offer[o][n] = "notified" ~> offer[o][n] # "notified"
=============================================================================

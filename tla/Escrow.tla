------------------------------- MODULE Escrow -------------------------------
(***************************************************************************)
(* The escrow core of the AgriConnect backend: buying a listing, holding   *)
(* and releasing the buyer's money, disputes, and Paystack's webhooks.     *)
(*                                                                         *)
(* Every HTTP request is a process of its own that stops at each database  *)
(* statement and each call to Paystack.  Two kinds of statement have to be *)
(* told apart.  Those that go through the `tx` client of a                 *)
(* prisma.$transaction take effect when the transaction commits, and hold  *)
(* a row lock until then.  Those that go through the global `prisma`       *)
(* client commit at once, even when they are written inside a              *)
(* $transaction callback: a later failure does not undo them.              *)
(*                                                                         *)
(* An order and the Paystack reference of its payment are one identifier:  *)
(* purchase() asks Paystack for a new reference and creates at most one    *)
(* order row with it.                                                      *)
(***************************************************************************)
EXTENDS Naturals

CONSTANTS
  Listings,      \* rows of produce_listings
  Buyers,        \* users with the buyer role
  Orders,        \* orders, and the Paystack references of their payments
  Disputes,      \* rows of disputes
  Requests,      \* request handlers that can be running at the same time
  None,          \* the null of every identifier
  Answers,       \* what Paystack answers when it accepts a payout or a refund
  MaxTransfers,  \* bound: payouts of one order the platform's balance allows
  MaxFailures    \* bound: handlers that throw, and restarts of the server

ASSUME BoundsAreNat == MaxTransfers \in Nat /\ MaxFailures \in Nat
ASSUME AnswersAreStatuses == Answers \subseteq {"success", "pending"}
ASSUME NoneIsNoIdentifier ==
  None \notin Listings \cup Buyers \cup Orders \cup Disputes

VARIABLES
  listing,      \* produce_listings.status
  orderStatus,  \* orders.order_status, "none" while there is no row
  payment,      \* payments.status, "none" while there is no row
  listingOf,    \* orders.listing_id, chosen when the reference is
  buyerOf,      \* orders.buyer_id, chosen when the reference is
  recent,       \* orders created within the last 60 seconds
  scanned,      \* orders with a row in qr_scans
  outbox,       \* number of outbox_events rows, by event type and order
  dispute,      \* disputes.status, "none" while there is no row
  disputeOf,    \* disputes.order_id, chosen when the dispute is checked
  event,        \* payment_webhook_events.processing_state
  charge,       \* Paystack: what became of the buyer's charge
  transfers,    \* Paystack: payouts to the farmer accepted for an order
  underway,     \* Paystack: those that are still pending
  executed,     \* Paystack: those that were executed; the others failed
  refunds,      \* Paystack: what became of the refund of an order's charge
  req,          \* the requests being handled
  failures      \* number of failures so far

orderRows == <<orderStatus, payment>>
orderIds  == <<listingOf, buyerOf, recent>>
records   == <<scanned, outbox>>
disputes  == <<dispute, disputeOf>>
tables    == <<listing, orderRows, orderIds, records, disputes, event>>
payouts   == <<transfers, underway, executed>>
paystack  == <<charge, payouts, refunds>>
vars      == <<tables, paystack, req, failures>>

-----------------------------------------------------------------------------
ListingStatus == {"active", "sold", "cancelled"}
OrderStatus   == {"none", "awaiting_driver", "driver_assigned", "completed",
                  "cancelled"}
PaymentStatus == {"none", "held", "released", "refunded"}
EventTypes    == {"ORDER_PLACED", "DELIVERY_CONFIRMED"}

\* A charge is odd when it was paid in another currency than GHS or by
\* another amount than that of the payment.
ChargeStatus  == {"none", "pending", "paid", "odd", "failed"}
Outcomes      == {"paid", "odd", "failed"}
RefundStatus  == {"none", "pending", "success", "failed"}

\* The next statement of a request.
PurchaseSteps == {"p_initialize", "p_flip", "p_create", "p_commit"}
WebhookSteps  == {"w_reserve", "w_read", "w_hold", "w_reverse", "w_complete"}
ConfirmSteps  == {"c_transfer", "c_scan", "c_release", "c_complete",
                  "c_commit"}
ResolveSteps  == {"d_money", "d_record", "d_payment", "d_order", "d_commit"}
Steps == PurchaseSteps \cup WebhookSteps \cup ConfirmSteps \cup ResolveSteps
           \cup {"idle", "r_create", "l_delete"}

Request == [pc      : Steps,
            order   : Orders \cup {None},
            listing : Listings \cup {None},
            dispute : Disputes \cup {None},
            refund  : BOOLEAN]

IdleRequest == [pc |-> "idle", order |-> None, listing |-> None,
                dispute |-> None, refund |-> FALSE]

\* The types of all variables.
TypeOK ==
  /\ listing     \in [Listings -> ListingStatus]
  /\ orderStatus \in [Orders -> OrderStatus]
  /\ payment     \in [Orders -> PaymentStatus]
  /\ listingOf   \in [Orders -> Listings \cup {None}]
  /\ buyerOf     \in [Orders -> Buyers \cup {None}]
  /\ recent      \in SUBSET Orders
  /\ scanned     \in SUBSET Orders
  /\ outbox      \in [EventTypes -> [Orders -> Nat]]
  /\ dispute     \in [Disputes -> {"none", "open", "resolved"}]
  /\ disputeOf   \in [Disputes -> Orders \cup {None}]
  /\ event       \in [Orders -> {"none", "processing", "failed", "completed"}]
  /\ charge      \in [Orders -> ChargeStatus]
  /\ transfers   \in [Orders -> Nat]
  /\ underway    \in [Orders -> Nat]
  /\ executed    \in [Orders -> Nat]
  /\ refunds     \in [Orders -> RefundStatus]
  /\ req         \in [Requests -> Request]
  /\ failures    \in Nat

Init ==
  /\ listing     = [l \in Listings |-> "active"]
  /\ orderStatus = [o \in Orders |-> "none"]
  /\ payment     = [o \in Orders |-> "none"]
  /\ listingOf   = [o \in Orders |-> None]
  /\ buyerOf     = [o \in Orders |-> None]
  /\ recent      = {}
  /\ scanned     = {}
  /\ outbox      = [t \in EventTypes |-> [o \in Orders |-> 0]]
  /\ dispute     = [d \in Disputes |-> "none"]
  /\ disputeOf   = [d \in Disputes |-> None]
  /\ event       = [o \in Orders |-> "none"]
  /\ charge      = [o \in Orders |-> "none"]
  /\ transfers   = [o \in Orders |-> 0]
  /\ underway    = [o \in Orders |-> 0]
  /\ executed    = [o \in Orders |-> 0]
  /\ refunds     = [o \in Orders |-> "none"]
  /\ req         = [p \in Requests |-> IdleRequest]
  /\ failures    = 0

-----------------------------------------------------------------------------
At(p, step)   == req[p].pc = step
Begin(p, r)   == req[p].pc = "idle" /\ req' = [req EXCEPT ![p] = r]
Goto(p, step) == req' = [req EXCEPT ![p].pc = step]
Done(p)       == req' = [req EXCEPT ![p] = IdleRequest]

RequestFor(step, o) == [IdleRequest EXCEPT !.pc = step, !.order = o]

\* The status the API reports for an order (mapPrismaToTransaction).
TxStatus(o) ==
  CASE orderStatus[o] = "completed" \/ payment[o] = "released" -> "RELEASED"
    [] orderStatus[o] = "cancelled" \/ payment[o] = "refunded" -> "CANCELLED"
    [] OTHER -> "PAYMENT_HELD"

Exists(o) == orderStatus[o] # "none"

\* A listing with an order that is still to be delivered
\* (findActiveByListingId).
HasActiveOrder(l) ==
  \E o \in Orders : /\ listingOf[o] = l
                    /\ orderStatus[o] \notin {"none", "cancelled", "completed"}

\* An open purchase transaction has updated the row of listing l.
RowLocked(l) ==
  \E p \in Requests : /\ req[p].pc \in {"p_create", "p_commit"}
                      /\ listingOf[req[p].order] = l

\* An open confirmDelivery transaction has inserted the qr_scans row of o.
ScanLocked(o) ==
  \E p \in Requests : /\ req[p].pc \in {"c_release", "c_complete", "c_commit"}
                      /\ req[p].order = o

\* One statement that writes one column of one row.
SetEvent(o, state) ==
  /\ event' = [event EXCEPT ![o] = state]
  /\ UNCHANGED <<listing, orderRows, orderIds, records, disputes>>

\* PrismaTransactionRepository.update: two statements of the global client,
\* the payment and then the order.
SetPayment(o, status) ==
  /\ payment' = [payment EXCEPT ![o] = status]
  /\ UNCHANGED <<listing, orderStatus, orderIds, records, disputes, event>>

SetOrder(o, status) ==
  /\ orderStatus' = [orderStatus EXCEPT ![o] = status]
  /\ UNCHANGED <<listing, payment, orderIds, records, disputes, event>>

SetDispute(d, status) ==
  /\ dispute' = [dispute EXCEPT ![d] = status]
  /\ UNCHANGED <<listing, orderRows, orderIds, records, disputeOf, event>>

-----------------------------------------------------------------------------
(* TransactionService.purchase                                             *)

\* The listing is on sale and this buyer has no order for it from the last
\* minute (otherwise that order is returned and nothing changes).
PurchaseStart(p, l, b, o) ==
  /\ listing[l] = "active"
  /\ \A r \in recent : listingOf[r] # l \/ buyerOf[r] # b
  /\ listingOf[o] = None
  /\ listingOf' = [listingOf EXCEPT ![o] = l]
  /\ buyerOf'   = [buyerOf EXCEPT ![o] = b]
  /\ Begin(p, RequestFor("p_initialize", o))
  /\ UNCHANGED <<listing, orderRows, recent, records, disputes, event,
                 paystack, failures>>

PurchaseInitialize(p) ==
  /\ At(p, "p_initialize")
  /\ charge' = [charge EXCEPT ![req[p].order] = "pending"]
  /\ Goto(p, "p_flip")
  /\ UNCHANGED <<tables, payouts, refunds, failures>>

\* Mutation: the status is tested by a read, without the row lock.
PurchaseFlipUnlocked(p) ==
  /\ At(p, "p_flip")
  /\ IF listing[listingOf[req[p].order]] = "active" THEN Goto(p, "p_create")
                                                    ELSE Done(p)
  /\ UNCHANGED <<tables, paystack, failures>>

\* tx.produce_listings.updateMany(active -> sold) waits for the row lock.
\* With the row lock it finds the listing active and goes on, or finds no
\* row to update and throws ConflictError.
PurchaseFlip(p) ==
  /\ At(p, "p_flip")
  /\ ~RowLocked(listingOf[req[p].order])
  /\ IF listing[listingOf[req[p].order]] = "active" THEN Goto(p, "p_create")
                                                    ELSE Done(p)
  /\ UNCHANGED <<tables, paystack, failures>>

\* repo.create uses the global client: both rows are committed here.
PurchaseCreate(p) ==
  LET o == req[p].order IN
  /\ At(p, "p_create")
  /\ orderStatus' = [orderStatus EXCEPT ![o] = "awaiting_driver"]
  /\ payment'     = [payment EXCEPT ![o] = "held"]
  /\ recent'      = recent \cup {o}
  /\ Goto(p, "p_commit")
  /\ UNCHANGED <<listing, listingOf, buyerOf, records, disputes, event,
                 paystack, failures>>

\* The flip of the listing and the outbox event commit together.
PurchaseCommit(p) ==
  LET o == req[p].order IN
  /\ At(p, "p_commit")
  /\ listing' = [listing EXCEPT ![listingOf[o]] = "sold"]
  /\ outbox'  = [outbox EXCEPT !["ORDER_PLACED"][o] = @ + 1]
  /\ Done(p)
  /\ UNCHANGED <<orderRows, orderIds, scanned, disputes, event, paystack,
                 failures>>

\* The idempotency window of an order is over; a transaction is rolled back
\* long before, after 15 seconds.
MinutePasses(o) ==
  /\ o \in recent
  /\ \A p \in Requests : ~(At(p, "p_commit") /\ req[p].order = o)
  /\ recent' = recent \ {o}
  /\ UNCHANGED <<listing, orderRows, listingOf, buyerOf, records, disputes,
                 event, paystack, req, failures>>

-----------------------------------------------------------------------------
(* DispatchService                                                         *)

\* What dispatch writes to an order, whatever the order has become: a driver
\* accepted its job, or no driver is left to offer it to.
DispatchSets(o, status) ==
  /\ Exists(o)
  /\ SetOrder(o, status)
  /\ UNCHANGED <<paystack, req, failures>>

-----------------------------------------------------------------------------
(* Paystack, and paystackWebhookHandler                                    *)

\* The buyer opens the authorization URL, which purchase() returns once it
\* has committed, and the charge succeeds, as it was asked for or not, or is
\* declined.
ChargeSettles(o, outcome) ==
  /\ charge[o] = "pending"
  /\ outbox["ORDER_PLACED"][o] > 0
  /\ charge' = [charge EXCEPT ![o] = outcome]
  /\ UNCHANGED <<tables, payouts, refunds, req, failures>>

\* Paystack executes a payout or a refund that was pending, or it fails.  The
\* webhooks that tell of it (transfer.failed and the like) change nothing.
PayoutSettles(o, success) ==
  /\ underway[o] > 0
  /\ underway' = [underway EXCEPT ![o] = @ - 1]
  /\ executed' = IF success THEN [executed EXCEPT ![o] = @ + 1] ELSE executed
  /\ UNCHANGED <<tables, charge, transfers, refunds, req, failures>>

RefundSettles(o, outcome) ==
  /\ refunds[o] = "pending"
  /\ refunds' = [refunds EXCEPT ![o] = outcome]
  /\ UNCHANGED <<tables, charge, payouts, req, failures>>

\* Mutation: an event that is being processed is not processed again.
WebhookLookupOnce(p, o) ==
  /\ charge[o] \in Outcomes
  /\ event[o] \in {"none", "failed"}
  /\ Begin(p, RequestFor("w_reserve", o))
  /\ UNCHANGED <<tables, paystack, failures>>

\* Paystack delivers the event of a charge, any number of times.  A delivery
\* of an event that is already completed is answered without any change.
WebhookLookup(p, o) ==
  /\ charge[o] \in Outcomes
  /\ event[o] # "completed"
  /\ Begin(p, RequestFor("w_reserve", o))
  /\ UNCHANGED <<tables, paystack, failures>>

\* Mutation: the event is marked completed before it is processed.
WebhookReserveAsCompleted(p) ==
  /\ At(p, "w_reserve")
  /\ SetEvent(req[p].order, "completed")
  /\ Goto(p, "w_read")
  /\ UNCHANGED <<paystack, failures>>

WebhookReserve(p) ==
  /\ At(p, "w_reserve")
  /\ SetEvent(req[p].order, "processing")
  /\ Goto(p, "w_read")
  /\ UNCHANGED <<paystack, failures>>

\* findPaymentByReference, and for a failed charge the test of its status.
WebhookRead(p) ==
  LET o == req[p].order IN
  /\ At(p, "w_read")
  /\ charge[o] # "odd"
  /\ Goto(p, CASE charge[o] = "paid" /\ payment[o] # "none"   -> "w_hold"
               [] charge[o] = "failed" /\ payment[o] = "held" -> "w_reverse"
               [] OTHER                                       -> "w_complete")
  /\ UNCHANGED <<tables, paystack, failures>>

\* The handler throws over the currency, or over the amount once it has read
\* the payment, which is there since the purchase committed: the event is
\* marked failed, as it will be at every delivery.
WebhookRefuse(p) ==
  LET o == req[p].order IN
  /\ At(p, "w_read")
  /\ charge[o] = "odd"
  /\ SetEvent(o, "failed")
  /\ Done(p)
  /\ UNCHANGED <<paystack, failures>>

\* charge.success: no condition on what the order has become meanwhile.
WebhookHold(p) ==
  LET o == req[p].order IN
  /\ At(p, "w_hold")
  /\ payment'     = [payment EXCEPT ![o] = "held"]
  /\ orderStatus' = [orderStatus EXCEPT ![o] = "awaiting_driver"]
  /\ Goto(p, "w_complete")
  /\ UNCHANGED <<listing, orderIds, records, disputes, event, paystack,
                 failures>>

\* Mutation: the listing is left as it was.
WebhookReverseOrderOnly(p) ==
  LET o == req[p].order IN
  /\ At(p, "w_reverse")
  /\ payment'     = [payment EXCEPT ![o] = "refunded"]
  /\ orderStatus' = [orderStatus EXCEPT ![o] = "cancelled"]
  /\ Goto(p, "w_complete")
  /\ UNCHANGED <<listing, orderIds, records, disputes, event, paystack,
                 failures>>

\* charge.failed: one transaction, which waits for the listing's row lock.
WebhookReverse(p) ==
  LET o == req[p].order IN
  /\ At(p, "w_reverse")
  /\ ~RowLocked(listingOf[o])
  /\ payment'     = [payment EXCEPT ![o] = "refunded"]
  /\ orderStatus' = [orderStatus EXCEPT ![o] = "cancelled"]
  /\ listing'     = [listing EXCEPT ![listingOf[o]] = "active"]
  /\ Goto(p, "w_complete")
  /\ UNCHANGED <<orderIds, records, disputes, event, paystack, failures>>

WebhookComplete(p) ==
  /\ At(p, "w_complete")
  /\ SetEvent(req[p].order, "completed")
  /\ Done(p)
  /\ UNCHANGED <<paystack, failures>>

-----------------------------------------------------------------------------
(* TransactionService.confirmDelivery, by the buyer or a driver            *)

ConfirmStart(p, o) ==
  /\ Exists(o)
  /\ TxStatus(o) = "PAYMENT_HELD"
  /\ Begin(p, RequestFor("c_transfer", o))
  /\ UNCHANGED <<tables, paystack, failures>>

\* initiateTransfer: Paystack accepts the payout, which is executed at once or
\* left pending, and the request goes on to its next step in either case; or
\* it refuses the payout for want of balance, which ends the request.
Transfer(p, next) ==
  LET o == req[p].order IN
  /\ IF transfers[o] < MaxTransfers
       THEN \E answer \in Answers :
              /\ transfers' = [transfers EXCEPT ![o] = @ + 1]
              /\ executed'  = [executed EXCEPT ![o] =
                                 IF answer = "success" THEN @ + 1 ELSE @]
              /\ underway'  = [underway EXCEPT ![o] =
                                 IF answer = "pending" THEN @ + 1 ELSE @]
              /\ Goto(p, next)
       ELSE UNCHANGED payouts /\ Done(p)
  /\ UNCHANGED <<tables, charge, refunds, failures>>

ConfirmTransfer(p) == At(p, "c_transfer") /\ Transfer(p, "c_scan")

\* Mutation: qr_scans has no unique index on order_id.
ConfirmScanNotUnique(p) ==
  /\ At(p, "c_scan")
  /\ Goto(p, "c_release")
  /\ UNCHANGED <<tables, paystack, failures>>

\* tx.qr_scans.create: the unique index on order_id makes a second insert
\* wait for the transaction of the first, and fail if that one committed.
ConfirmScan(p) ==
  /\ At(p, "c_scan")
  /\ ~ScanLocked(req[p].order)
  /\ IF req[p].order \in scanned THEN Done(p) ELSE Goto(p, "c_release")
  /\ UNCHANGED <<tables, paystack, failures>>

ConfirmRelease(p) ==
  /\ At(p, "c_release")
  /\ SetPayment(req[p].order, "released")
  /\ Goto(p, "c_complete")
  /\ UNCHANGED <<paystack, failures>>

\* Mutation: the payment's status is written to the order.
ConfirmCompleteAsReleased(p) ==
  /\ At(p, "c_complete")
  /\ SetOrder(req[p].order, "released")
  /\ Goto(p, "c_commit")
  /\ UNCHANGED <<paystack, failures>>

ConfirmComplete(p) ==
  /\ At(p, "c_complete")
  /\ SetOrder(req[p].order, "completed")
  /\ Goto(p, "c_commit")
  /\ UNCHANGED <<paystack, failures>>

\* The scan and the outbox event commit together.
ConfirmCommit(p) ==
  LET o == req[p].order IN
  /\ At(p, "c_commit")
  /\ scanned' = scanned \cup {o}
  /\ outbox'  = [outbox EXCEPT !["DELIVERY_CONFIRMED"][o] = @ + 1]
  /\ Done(p)
  /\ UNCHANGED <<listing, orderRows, orderIds, disputes, event, paystack,
                 failures>>

-----------------------------------------------------------------------------
(* DisputeService.raise and DisputeService.resolve                         *)

\* The order has no open dispute; d is the row that will be inserted.
RaiseStart(p, o, d) ==
  /\ Exists(o)
  /\ TxStatus(o) = "PAYMENT_HELD"
  /\ \A e \in Disputes : disputeOf[e] # o \/ dispute[e] # "open"
  /\ disputeOf[d] = None
  /\ disputeOf' = [disputeOf EXCEPT ![d] = o]
  /\ Begin(p, [RequestFor("r_create", o) EXCEPT !.dispute = d])
  /\ UNCHANGED <<listing, orderRows, orderIds, records, dispute, event,
                 paystack, failures>>

RaiseCreate(p) ==
  /\ At(p, "r_create")
  /\ SetDispute(req[p].dispute, "open")
  /\ Done(p)
  /\ UNCHANGED <<paystack, failures>>

\* The status of the order is read but not tested.
ResolveStart(p, d, refund) ==
  /\ dispute[d] = "open"
  /\ Begin(p, [IdleRequest EXCEPT !.pc = "d_money", !.order = disputeOf[d],
                                  !.dispute = d, !.refund = refund])
  /\ UNCHANGED <<tables, paystack, failures>>

\* Mutation: an error of Paystack is not one of the request.
ResolveRefundUnchecked(p) ==
  LET o == req[p].order IN
  /\ At(p, "d_money") /\ req[p].refund
  /\ refunds' = IF charge[o] = "paid" THEN [refunds EXCEPT ![o] = "success"]
                                      ELSE refunds
  /\ Goto(p, "d_record")
  /\ UNCHANGED <<tables, charge, payouts, failures>>

\* REFUND_BUYER: Paystack refunds a charge that was paid, at once or later,
\* and the request goes on in either case.  It answers a refund of anything
\* else, or a second one unless the first failed, with an error, which ends
\* the request; so it may for a charge that was not as it was asked for.
ResolveRefund(p) ==
  LET o == req[p].order IN
  /\ At(p, "d_money") /\ req[p].refund
  /\ \/ /\ charge[o] \in {"paid", "odd"}
        /\ refunds[o] \in {"none", "failed"}
        /\ \E answer \in Answers : refunds' = [refunds EXCEPT ![o] = answer]
        /\ Goto(p, "d_record")
     \/ /\ ~(charge[o] = "paid" /\ refunds[o] = "none")
        /\ Done(p) /\ UNCHANGED refunds
  /\ UNCHANGED <<tables, charge, payouts, failures>>

\* RELEASE_FARMER
ResolveTransfer(p) ==
  At(p, "d_money") /\ ~req[p].refund /\ Transfer(p, "d_record")

\* Three statements of the global client: the dispute, the payment, the order.
ResolveRecord(p) ==
  /\ At(p, "d_record")
  /\ SetDispute(req[p].dispute, "resolved")
  /\ Goto(p, "d_payment")
  /\ UNCHANGED <<paystack, failures>>

ResolvePayment(p) ==
  /\ At(p, "d_payment")
  /\ SetPayment(req[p].order, IF req[p].refund THEN "refunded" ELSE "released")
  /\ Goto(p, "d_order")
  /\ UNCHANGED <<paystack, failures>>

ResolveOrder(p) ==
  /\ At(p, "d_order")
  /\ SetOrder(req[p].order, IF req[p].refund THEN "cancelled" ELSE "completed")
  /\ Goto(p, "d_commit")
  /\ UNCHANGED <<paystack, failures>>

\* The one statement of the tx client puts the listing back on sale.
ResolveCommit(p) ==
  LET l == listingOf[req[p].order] IN
  /\ At(p, "d_commit")
  /\ IF req[p].refund
       THEN ~RowLocked(l) /\ listing' = [listing EXCEPT ![l] = "active"]
       ELSE UNCHANGED listing
  /\ Done(p)
  /\ UNCHANGED <<orderRows, orderIds, records, disputes, event, paystack,
                 failures>>

-----------------------------------------------------------------------------
(* ListingService.deleteListing                                            *)

DeleteStart(p, l) ==
  /\ ~HasActiveOrder(l)
  /\ Begin(p, [IdleRequest EXCEPT !.pc = "l_delete", !.listing = l])
  /\ UNCHANGED <<tables, paystack, failures>>

SoftDelete(p) ==
  /\ At(p, "l_delete")
  /\ ~RowLocked(req[p].listing)
  /\ listing' = [listing EXCEPT ![req[p].listing] = "cancelled"]
  /\ Done(p)
  /\ UNCHANGED <<orderRows, orderIds, records, disputes, event, paystack,
                 failures>>

-----------------------------------------------------------------------------
\* A statement or an external call of the request fails, or its transaction
\* exceeds 15 s: the open transaction is rolled back and the handler throws.
\* The webhook handler then marks its event failed.
Fail(p) ==
  /\ req[p].pc # "idle"
  /\ failures < MaxFailures
  /\ failures' = failures + 1
  /\ IF req[p].pc \in WebhookSteps \ {"w_reserve"}
       THEN SetEvent(req[p].order, "failed")
       ELSE UNCHANGED tables
  /\ Done(p)
  /\ UNCHANGED paystack

\* The server process dies and is restarted.
Restart ==
  /\ \E p \in Requests : req[p].pc # "idle"
  /\ failures < MaxFailures
  /\ failures' = failures + 1
  /\ req' = [p \in Requests |-> IdleRequest]
  /\ UNCHANGED <<tables, paystack>>

-----------------------------------------------------------------------------
Purchase(p) ==
  \/ \E l \in Listings, b \in Buyers, o \in Orders : PurchaseStart(p, l, b, o)
  \/ PurchaseInitialize(p)
  \/ PurchaseFlip(p)
  \/ PurchaseCreate(p)
  \/ PurchaseCommit(p)

Webhook(p) ==
  \/ \E o \in Orders : WebhookLookup(p, o)
  \/ WebhookReserve(p)
  \/ WebhookRead(p)
  \/ WebhookRefuse(p)
  \/ WebhookHold(p)
  \/ WebhookReverse(p)
  \/ WebhookComplete(p)

Confirm(p) ==
  \/ \E o \in Orders : ConfirmStart(p, o)
  \/ ConfirmTransfer(p)
  \/ ConfirmScan(p)
  \/ ConfirmRelease(p)
  \/ ConfirmComplete(p)
  \/ ConfirmCommit(p)

Raise(p) ==
  \/ \E o \in Orders, d \in Disputes : RaiseStart(p, o, d)
  \/ RaiseCreate(p)

Resolve(p) ==
  \/ \E d \in Disputes, refund \in BOOLEAN : ResolveStart(p, d, refund)
  \/ ResolveRefund(p)
  \/ ResolveTransfer(p)
  \/ ResolveRecord(p)
  \/ ResolvePayment(p)
  \/ ResolveOrder(p)
  \/ ResolveCommit(p)

Delete(p) ==
  \/ \E l \in Listings : DeleteStart(p, l)
  \/ SoftDelete(p)

Handle(p) ==
  \/ Purchase(p)
  \/ Webhook(p)
  \/ Confirm(p)
  \/ Raise(p)
  \/ Resolve(p)
  \/ Delete(p)

Environment ==
  \/ \E o \in Orders : MinutePasses(o)
  \/ \E o \in Orders, status \in {"driver_assigned", "awaiting_driver"} :
       DispatchSets(o, status)
  \/ \E o \in Orders, outcome \in Outcomes : ChargeSettles(o, outcome)
  \/ \E o \in Orders, success \in BOOLEAN : PayoutSettles(o, success)
  \/ \E o \in Orders, outcome \in {"success", "failed"} :
       RefundSettles(o, outcome)
  \/ Restart

Next == Environment \/ \E p \in Requests : Handle(p) \/ Fail(p)

Spec == Init /\ [][Next]_vars

\* A request that is being handled goes on, and Paystack keeps delivering an
\* event until it is answered with 200.
Fairness ==
  /\ \A p \in Requests : WF_vars(req[p].pc # "idle" /\ Handle(p))
  /\ \A o \in Orders : SF_vars(\E p \in Requests : WebhookLookup(p, o))

FairSpec == Spec /\ Fairness
-----------------------------------------------------------------------------
(* Properties that hold                                                    *)

\* An order never claims that money moved without an order to Paystack that
\* was accepted: a released payment, a completed order or a recorded delivery
\* has a payout behind it, a refunded payment or a cancelled order has a
\* refund or a declined charge.  A failure at any statement, and any
\* interleaving with other requests, must not break it.  Whether Paystack then
\* executes what it accepted is another matter: what is pending may fail later,
\* and nothing takes the claim back.
ClaimsAreBacked ==
  \A o \in Orders :
    /\ payment[o] = "released" \/ orderStatus[o] = "completed" \/ o \in scanned
         => transfers[o] > 0
    /\ payment[o] = "refunded" \/ orderStatus[o] = "cancelled"
         => refunds[o] # "none" \/ charge[o] = "failed"

\* However many confirmations race, fail or are retried, DELIVERY_CONFIRMED
\* is recorded exactly for the orders with a qr_scans row, and once.
DeliveryRecordedOnce ==
  \A o \in Orders :
    outbox["DELIVERY_CONFIRMED"][o] = IF o \in scanned THEN 1 ELSE 0

\* Once the webhook of a declined charge is marked completed, the order no
\* longer claims to hold the buyer's money, whatever deliveries overlapped.
FailedChargeNeverHeld ==
  \A o \in Orders :
    charge[o] = "failed" /\ event[o] = "completed" => payment[o] # "held"

\* An order that the API does not report as cancelled.
Live(o) == Exists(o) /\ TxStatus(o) # "CANCELLED"

\* A sold listing has an order that was not cancelled: nobody's produce is
\* off the market for nothing.  It holds where no dispute is resolved: a
\* failure of resolve() between the order and the listing leaves one.
SoldListingHasOrder ==
  \A l \in Listings :
    listing[l] = "sold" => \E o \in Orders : listingOf[o] = l /\ Live(o)

\* Seen through the committed listings and ORDER_PLACED events, the
\* interleaved transactions are the atomic sales of module Sale: the row
\* lock taken by the flip makes everything up to the commit a single step.
sale == [o \in Orders |-> IF outbox["ORDER_PLACED"][o] > 0 THEN listingOf[o]
                                                          ELSE None]
Market == INSTANCE Sale WITH listing <- listing, sale <- sale
ImplementsSale == Market!Spec

\* The event of a charge that was declined, or paid as it was asked for, is
\* processed in the end, through failures, restarts and overlapping
\* deliveries.  The event of an odd charge never is: every delivery fails.
EventProcessed ==
  \A o \in Orders :
    charge[o] \in {"paid", "failed"} ~> event[o] = "completed"

-----------------------------------------------------------------------------
(* What the repository says of the program and the program does not do     *)

\* schema.prisma, orders.listing_id: the atomic flip protects from selling a
\* listing twice, so two uncancelled sales of one listing do not coexist.
NoDoubleSale ==
  \A o1, o2 \in Orders :
    /\ Live(o1) /\ outbox["ORDER_PLACED"][o1] > 0
    /\ Live(o2) /\ outbox["ORDER_PLACED"][o2] > 0
    /\ listingOf[o1] = listingOf[o2]
    => o1 = o2

=============================================================================

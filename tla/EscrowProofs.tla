---------------------------- MODULE EscrowProofs ----------------------------
(***************************************************************************)
(* Theorems about module Escrow for any listings, orders, requests and     *)
(* bounds, proved from one inductive invariant.                            *)
(***************************************************************************)
EXTENDS Escrow, TLAPS

Settled(o)   == charge[o] \in Outcomes
ScanSteps    == {"c_release", "c_complete", "c_commit"}
FlippedSteps == {"p_create", "p_commit"}

\* What is written about an order, and when.
OrderInv ==
  \A o \in Orders :
    /\ listingOf[o] = None => orderStatus[o] = "none"
    /\ listingOf[o] = None => outbox["ORDER_PLACED"][o] = 0
    /\ event[o] # "none" => Settled(o)
    /\ Settled(o) => outbox["ORDER_PLACED"][o] > 0

DisputeInv ==
  \A d \in Disputes :
    /\ dispute[d] # "none" => disputeOf[d] # None
    /\ disputeOf[d] # None => listingOf[disputeOf[d]] # None

\* The subject of a request.
SubjectInv ==
  \A p \in Requests :
    /\ req[p].pc \notin {"idle", "l_delete"} =>
         req[p].order \in Orders /\ listingOf[req[p].order] # None
    /\ req[p].pc = "l_delete" => req[p].listing \in Listings
    /\ req[p].pc \in {"r_create", "d_money", "d_record"} =>
         req[p].dispute \in Disputes /\ disputeOf[req[p].dispute] # None

\* A purchase that has not committed is the only one with its order.
PurchaseInv ==
  \A p \in Requests : req[p].pc \in PurchaseSteps =>
    /\ outbox["ORDER_PLACED"][req[p].order] = 0
    /\ \A q \in Requests : /\ req[q].pc \in PurchaseSteps
                           /\ req[q].order = req[p].order
                           => q = p

\* From the flip to the commit a purchase has its listing to itself.
FlipInv ==
  \A p \in Requests : req[p].pc \in FlippedSteps =>
    /\ listing[listingOf[req[p].order]] = "active"
    /\ \A q \in Requests : /\ req[q].pc \in FlippedSteps
                           /\ listingOf[req[q].order] = listingOf[req[p].order]
                           => q = p

\* So has a confirmation that has inserted its scan.
ScanInv ==
  \A p \in Requests : req[p].pc \in ScanSteps =>
    /\ req[p].order \notin scanned
    /\ \A q \in Requests : /\ req[q].pc \in ScanSteps
                           /\ req[q].order = req[p].order
                           => q = p

\* Paystack has accepted a payout or a refund before a request writes of it.
MoneyInv ==
  \A p \in Requests :
    /\ req[p].pc \in ConfirmSteps \ {"c_transfer"} =>
         transfers[req[p].order] > 0
    /\ req[p].pc \in ResolveSteps \ {"d_money"} =>
         IF req[p].refund THEN refunds[req[p].order] # "none"
                          ELSE transfers[req[p].order] > 0

WebhookInv ==
  \A p \in Requests :
    /\ req[p].pc \in WebhookSteps => Settled(req[p].order)
    /\ req[p].pc = "w_hold" => charge[req[p].order] = "paid"
    /\ req[p].pc = "w_reverse" => charge[req[p].order] = "failed"
    /\ req[p].pc = "w_complete" /\ charge[req[p].order] = "failed"
         => payment[req[p].order] # "held"


\* The dispute of a request: one that is raised has no row yet and is raised
\* by nobody else, one that is resolved is a dispute of the request's order.
ResolveInv ==
  \A p \in Requests :
    /\ req[p].pc = "r_create" =>
         /\ dispute[req[p].dispute] = "none"
         /\ \A q \in Requests : /\ req[q].pc = "r_create"
                                /\ req[q].dispute = req[p].dispute
                                => q = p
    /\ req[p].pc \in ResolveSteps =>
         /\ req[p].dispute \in Disputes
         /\ disputeOf[req[p].dispute] = req[p].order
         /\ dispute[req[p].dispute] # "none"
    /\ req[p].pc \in ResolveSteps \ {"d_money", "d_record"} =>
         dispute[req[p].dispute] = "resolved"

\* An order of which nothing says that it is off, unless a dispute does.
Disputed(o)  == \E d \in Disputes : disputeOf[d] = o /\ dispute[d] = "resolved"
Accounted(o) ==
  /\ orderStatus[o] # "none"
  /\ (payment[o] # "refunded" /\ orderStatus[o] # "cancelled") \/ Disputed(o)

\* The sale of a listing, before its commit and after it.
SoldInv ==
  /\ \A p \in Requests : req[p].pc = "p_commit" => Accounted(req[p].order)
  /\ \A l \in Listings : listing[l] = "sold" =>
       \E o \in Orders : listingOf[o] = l /\ Accounted(o)

Inv == /\ OrderInv /\ DisputeInv /\ SubjectInv /\ PurchaseInv /\ FlipInv
       /\ ScanInv /\ MoneyInv /\ WebhookInv /\ ResolveInv /\ SoldInv

-----------------------------------------------------------------------------
\* An idle request, and what a request becomes, have the type of a request.
LEMMA RequestTypes ==
  /\ IdleRequest \in Request
  /\ \A s \in Steps, o \in Orders \cup {None} : RequestFor(s, o) \in Request
BY DEF IdleRequest, RequestFor, Request, Steps

\* So do the requests that dispute an order or delete a listing.
LEMMA DisputeTypes ==
  ASSUME NEW o \in Orders \cup {None}, NEW d \in Disputes, NEW b \in BOOLEAN,
         NEW s \in Steps
  PROVE  /\ [RequestFor(s, o) EXCEPT !.dispute = d] \in Request
         /\ [IdleRequest EXCEPT !.pc = s, !.order = o, !.dispute = d,
                                !.refund = b] \in Request
BY DEF IdleRequest, RequestFor, Request, Steps

LEMMA DeleteType ==
  ASSUME NEW l \in Listings, NEW s \in Steps
  PROVE  [IdleRequest EXCEPT !.pc = s, !.listing = l] \in Request
BY DEF IdleRequest, Request, Steps

LEMMA BeginType ==
  ASSUME NEW p \in Requests, NEW r \in Request, req \in [Requests -> Request],
         Begin(p, r)
  PROVE  req' \in [Requests -> Request]
BY DEF Begin

LEMMA DoneType ==
  ASSUME NEW p \in Requests, req \in [Requests -> Request], Done(p)
  PROVE  req' \in [Requests -> Request]
BY RequestTypes DEF Done

LEMMA GotoType ==
  ASSUME NEW p \in Requests, NEW s \in Steps,
         req \in [Requests -> Request], Goto(p, s)
  PROVE  req' \in [Requests -> Request]
BY DEF Goto, Request

\* What a request looks like after it was ended or went to its next step.
LEMMA DoneUpdate ==
  ASSUME NEW p \in Requests, req \in [Requests -> Request], Done(p)
  PROVE  /\ \A q \in Requests \ {p} : req'[q] = req[q]
         /\ req'[p].pc = "idle"
BY DEF Done, IdleRequest

LEMMA GotoUpdate ==
  ASSUME NEW p \in Requests, NEW s,
         req \in [Requests -> Request], Goto(p, s)
  PROVE  /\ \A q \in Requests \ {p} : req'[q] = req[q]
         /\ req'[p].pc = s
         /\ req'[p].order = req[p].order
         /\ req'[p].listing = req[p].listing
         /\ req'[p].dispute = req[p].dispute
         /\ req'[p].refund = req[p].refund
BY DEF Goto, Request

\* Payouts and refunds keep their types when one is ordered or settles.
LEMMA PayoutTypes ==
  ASSUME NEW p \in Requests, NEW s \in Steps, Transfer(p, s), TypeOK,
         req[p].order \in Orders
  PROVE  /\ transfers' \in [Orders -> Nat]
         /\ underway' \in [Orders -> Nat]
         /\ executed' \in [Orders -> Nat]
<1>1. /\ transfers \in [Orders -> Nat]
      /\ underway \in [Orders -> Nat]
      /\ executed \in [Orders -> Nat]
  BY DEF TypeOK
<1>2. CASE UNCHANGED payouts
  BY <1>1, <1>2 DEF payouts
<1>3. ASSUME NEW answer,
             transfers' = [transfers EXCEPT ![req[p].order] = @ + 1],
             executed'  = [executed EXCEPT ![req[p].order] =
                            IF answer = "success" THEN @ + 1 ELSE @],
             underway'  = [underway EXCEPT ![req[p].order] =
                            IF answer = "pending" THEN @ + 1 ELSE @]
      PROVE  /\ transfers' \in [Orders -> Nat]
             /\ underway' \in [Orders -> Nat]
             /\ executed' \in [Orders -> Nat]
  <2>1. transfers' \in [Orders -> Nat]
    BY <1>1, <1>3
  <2>2. underway' \in [Orders -> Nat]
    BY <1>1, <1>3
  <2>3. executed' \in [Orders -> Nat]
    BY <1>1, <1>3
  <2> QED BY <2>1, <2>2, <2>3
<1> QED BY <1>2, <1>3 DEF Transfer

LEMMA SettleTypes ==
  ASSUME NEW o \in Orders, NEW success \in BOOLEAN, TypeOK,
         PayoutSettles(o, success)
  PROVE  underway' \in [Orders -> Nat] /\ executed' \in [Orders -> Nat]
<1>1. underway \in [Orders -> Nat] /\ executed \in [Orders -> Nat]
  BY DEF TypeOK
<1>2. underway[o] \in Nat /\ underway[o] > 0
  BY <1>1 DEF PayoutSettles
<1>3. underway' \in [Orders -> Nat]
  BY <1>1, <1>2 DEF PayoutSettles
<1>4. executed' \in [Orders -> Nat]
  BY <1>1 DEF PayoutSettles
<1> QED BY <1>3, <1>4

\* Every step keeps the types, given that requests have subjects.
LEMMA TypeStep ==
  ASSUME TypeOK, SubjectInv, [Next]_vars
  PROVE  TypeOK'
<1> USE RequestTypes, BeginType, DoneType, GotoType, AnswersAreStatuses
  DEF TypeOK, SubjectInv, tables, orderRows, orderIds, records, disputes, payouts, paystack, At,
  Steps, PurchaseSteps, WebhookSteps, ConfirmSteps, ResolveSteps, ListingStatus,
  OrderStatus, PaymentStatus, EventTypes, ChargeStatus, RefundStatus,
  Outcomes
<1>1. ASSUME NEW p \in Requests, Purchase(p) PROVE TypeOK'
  <2>1. ASSUME NEW l \in Listings, NEW b \in Buyers, NEW o \in Orders,
               PurchaseStart(p, l, b, o)
         PROVE  TypeOK'
    BY <2>1 DEF PurchaseStart
  <2>2. CASE PurchaseInitialize(p)
    BY <2>2 DEF PurchaseInitialize
  <2>3. CASE PurchaseFlip(p)
    BY <2>3 DEF PurchaseFlip
  <2>4. CASE PurchaseCreate(p)
    BY <2>4 DEF PurchaseCreate
  <2>5. CASE PurchaseCommit(p)
    BY <2>5 DEF PurchaseCommit
  <2> QED BY <1>1, <2>1, <2>2, <2>3, <2>4, <2>5 DEF Purchase
<1>2. ASSUME NEW p \in Requests, Webhook(p) PROVE TypeOK'
  <2>1. ASSUME NEW o \in Orders, WebhookLookup(p, o) PROVE TypeOK'
    BY <2>1 DEF WebhookLookup
  <2>2. CASE WebhookReserve(p)
    BY <2>2 DEF WebhookReserve, SetEvent
  <2>3. CASE WebhookRead(p)
    BY <2>3 DEF WebhookRead
  <2>4. CASE WebhookHold(p)
    BY <2>4 DEF WebhookHold
  <2>5. CASE WebhookReverse(p)
    BY <2>5 DEF WebhookReverse
  <2>6. CASE WebhookComplete(p)
    BY <2>6 DEF WebhookComplete, SetEvent
  <2>7. CASE WebhookRefuse(p)
    BY <2>7 DEF WebhookRefuse, SetEvent
  <2> QED BY <1>2, <2>1, <2>2, <2>3, <2>4, <2>5, <2>6, <2>7 DEF Webhook
<1>3. ASSUME NEW p \in Requests, Confirm(p) PROVE TypeOK'
  <2>1. ASSUME NEW o \in Orders, ConfirmStart(p, o) PROVE TypeOK'
    BY <2>1 DEF ConfirmStart, TxStatus, Exists
  <2>2. CASE ConfirmTransfer(p)
    <3>1. Transfer(p, "c_scan")
      BY <2>2 DEF ConfirmTransfer
    <3>2. /\ transfers' \in [Orders -> Nat]
          /\ underway' \in [Orders -> Nat]
          /\ executed' \in [Orders -> Nat]
      BY <2>2, <3>1, PayoutTypes DEF ConfirmTransfer
    <3>3. req' \in [Requests -> Request]
      BY <3>1 DEF Transfer
    <3> QED BY <3>1, <3>2, <3>3 DEF Transfer
  <2>3. CASE ConfirmScan(p)
    BY <2>3 DEF ConfirmScan
  <2>4. CASE ConfirmRelease(p)
    BY <2>4 DEF ConfirmRelease, SetPayment
  <2>5. CASE ConfirmComplete(p)
    BY <2>5 DEF ConfirmComplete, SetOrder
  <2>6. CASE ConfirmCommit(p)
    BY <2>6 DEF ConfirmCommit
  <2> QED BY <1>3, <2>1, <2>2, <2>3, <2>4, <2>5, <2>6 DEF Confirm
<1>4. ASSUME NEW p \in Requests, Raise(p) PROVE TypeOK'
  <2>1. ASSUME NEW o \in Orders, NEW d \in Disputes, RaiseStart(p, o, d)
         PROVE  TypeOK'
    BY <2>1, DisputeTypes DEF RaiseStart, TxStatus, Exists
  <2>2. CASE RaiseCreate(p)
    BY <2>2 DEF RaiseCreate, SetDispute
  <2> QED BY <1>4, <2>1, <2>2 DEF Raise
<1>5. ASSUME NEW p \in Requests, Resolve(p) PROVE TypeOK'
  <2>1. ASSUME NEW d \in Disputes, NEW refund \in BOOLEAN,
               ResolveStart(p, d, refund)
         PROVE  TypeOK'
    BY <2>1, DisputeTypes DEF ResolveStart
  <2>2. CASE ResolveRefund(p)
    <3>1. CASE Goto(p, "d_record")
      <4>0. ~Done(p)
        BY <3>1, GotoUpdate, DoneUpdate DEF Request
      <4>1. PICK answer \in Answers :
              refunds' = [refunds EXCEPT ![req[p].order] = answer]
        BY <2>2, <4>0 DEF ResolveRefund
      <4>2. refunds' \in [Orders -> RefundStatus]
        BY <4>1
      <4> QED BY <2>2, <3>1, <4>2 DEF ResolveRefund
    <3>2. CASE Done(p) /\ UNCHANGED refunds
      BY <2>2, <3>2 DEF ResolveRefund
    <3> QED BY <2>2, <3>1, <3>2 DEF ResolveRefund
  <2>3. CASE ResolveTransfer(p)
    <3>1. Transfer(p, "d_record")
      BY <2>3 DEF ResolveTransfer
    <3>2. /\ transfers' \in [Orders -> Nat]
          /\ underway' \in [Orders -> Nat]
          /\ executed' \in [Orders -> Nat]
      BY <2>3, <3>1, PayoutTypes DEF ResolveTransfer
    <3>3. req' \in [Requests -> Request]
      BY <3>1 DEF Transfer
    <3> QED BY <3>1, <3>2, <3>3 DEF Transfer
  <2>4. CASE ResolveRecord(p)
    BY <2>4 DEF ResolveRecord, SetDispute
  <2>5. CASE ResolvePayment(p)
    BY <2>5 DEF ResolvePayment, SetPayment
  <2>6. CASE ResolveOrder(p)
    BY <2>6 DEF ResolveOrder, SetOrder
  <2>7. CASE ResolveCommit(p)
    BY <2>7 DEF ResolveCommit
  <2> QED BY <1>5, <2>1, <2>2, <2>3, <2>4, <2>5, <2>6, <2>7 DEF Resolve
<1>6. ASSUME NEW p \in Requests, Delete(p) PROVE TypeOK'
  <2>1. ASSUME NEW l \in Listings, DeleteStart(p, l) PROVE TypeOK'
    BY <2>1, DeleteType DEF DeleteStart
  <2>2. CASE SoftDelete(p)
    BY <2>2 DEF SoftDelete
  <2> QED BY <1>6, <2>1, <2>2 DEF Delete
<1>7. ASSUME NEW p \in Requests, Fail(p) PROVE TypeOK'
  BY <1>7 DEF Fail, SetEvent
<1>8. CASE Environment
  <2>1. ASSUME NEW o \in Orders, NEW success \in BOOLEAN,
               PayoutSettles(o, success)
         PROVE  TypeOK'
    <3>1. underway' \in [Orders -> Nat] /\ executed' \in [Orders -> Nat]
      BY <2>1, SettleTypes
    <3> QED BY <2>1, <3>1 DEF PayoutSettles
  <2>2. ASSUME NEW o \in Orders, NEW outcome \in {"success", "failed"},
               RefundSettles(o, outcome)
         PROVE  TypeOK'
    BY <2>2 DEF RefundSettles
  <2>3. ASSUME NEW o \in Orders, NEW outcome \in Outcomes,
               ChargeSettles(o, outcome)
         PROVE  TypeOK'
    BY <2>3 DEF ChargeSettles
  <2>4. ASSUME NEW o \in Orders, MinutePasses(o) PROVE TypeOK'
    BY <2>4 DEF MinutePasses
  <2>5. ASSUME NEW o \in Orders,
               NEW status \in {"driver_assigned", "awaiting_driver"},
               DispatchSets(o, status)
         PROVE  TypeOK'
    BY <2>5 DEF DispatchSets, Exists, SetOrder
  <2>6. CASE Restart
    BY <2>6 DEF Restart
  <2> QED BY <1>8, <2>1, <2>2, <2>3, <2>4, <2>5, <2>6 DEF Environment
<1>9. CASE UNCHANGED vars
  BY <1>9 DEF vars
<1> QED BY <1>1, <1>2, <1>3, <1>4, <1>5, <1>6, <1>7, <1>8, <1>9 DEF Next,
  Handle

\* Every step keeps SubjectInv.
LEMMA SubjectStep ==
  ASSUME TypeOK, OrderInv, DisputeInv, SubjectInv, [Next]_vars
  PROVE  SubjectInv'
<1>0. /\ req \in [Requests -> Request]
      /\ listingOf \in [Orders -> Listings \cup {None}]
      /\ disputeOf \in [Disputes -> Orders \cup {None}]
  BY DEF TypeOK
<1> USE DoneUpdate, GotoUpdate, <1>0, NoneIsNoIdentifier DEF tables,
  orderRows, orderIds, records, disputes, payouts, paystack, At, Begin, RequestFor,
  IdleRequest, PurchaseSteps, WebhookSteps, ConfirmSteps, ResolveSteps,
  OrderInv, DisputeInv, SubjectInv, Settled, Outcomes, Request
<1>1. ASSUME NEW p \in Requests, Purchase(p) PROVE SubjectInv'
  <2>1. ASSUME NEW l \in Listings, NEW b \in Buyers, NEW o \in Orders,
               PurchaseStart(p, l, b, o)
         PROVE  SubjectInv'
    BY <2>1 DEF PurchaseStart
  <2>2. CASE PurchaseInitialize(p)
    BY <2>2 DEF PurchaseInitialize
  <2>3. CASE PurchaseFlip(p)
    BY <2>3 DEF PurchaseFlip
  <2>4. CASE PurchaseCreate(p)
    BY <2>4 DEF PurchaseCreate
  <2>5. CASE PurchaseCommit(p)
    BY <2>5 DEF PurchaseCommit
  <2> QED BY <1>1, <2>1, <2>2, <2>3, <2>4, <2>5 DEF Purchase
<1>2. ASSUME NEW p \in Requests, Webhook(p) PROVE SubjectInv'
  <2>1. ASSUME NEW o \in Orders, WebhookLookup(p, o) PROVE SubjectInv'
    BY <2>1 DEF WebhookLookup
  <2>2. CASE WebhookReserve(p)
    BY <2>2 DEF WebhookReserve, SetEvent
  <2>3. CASE WebhookRead(p)
    BY <2>3 DEF WebhookRead
  <2>4. CASE WebhookHold(p)
    BY <2>4 DEF WebhookHold
  <2>5. CASE WebhookReverse(p)
    BY <2>5 DEF WebhookReverse
  <2>6. CASE WebhookComplete(p)
    BY <2>6 DEF WebhookComplete, SetEvent
  <2>7. CASE WebhookRefuse(p)
    BY <2>7 DEF WebhookRefuse, SetEvent
  <2> QED BY <1>2, <2>1, <2>2, <2>3, <2>4, <2>5, <2>6, <2>7 DEF Webhook
<1>3. ASSUME NEW p \in Requests, Confirm(p) PROVE SubjectInv'
  <2>1. ASSUME NEW o \in Orders, ConfirmStart(p, o) PROVE SubjectInv'
    BY <2>1 DEF ConfirmStart, TxStatus, Exists
  <2>2. CASE ConfirmTransfer(p)
    BY <2>2 DEF ConfirmTransfer, Transfer
  <2>3. CASE ConfirmScan(p)
    BY <2>3 DEF ConfirmScan
  <2>4. CASE ConfirmRelease(p)
    BY <2>4 DEF ConfirmRelease, SetPayment
  <2>5. CASE ConfirmComplete(p)
    BY <2>5 DEF ConfirmComplete, SetOrder
  <2>6. CASE ConfirmCommit(p)
    BY <2>6 DEF ConfirmCommit
  <2> QED BY <1>3, <2>1, <2>2, <2>3, <2>4, <2>5, <2>6 DEF Confirm
<1>4. ASSUME NEW p \in Requests, Raise(p) PROVE SubjectInv'
  <2>1. ASSUME NEW o \in Orders, NEW d \in Disputes, RaiseStart(p, o, d)
         PROVE  SubjectInv'
    BY <2>1 DEF RaiseStart, TxStatus, Exists
  <2>2. CASE RaiseCreate(p)
    BY <2>2 DEF RaiseCreate, SetDispute
  <2> QED BY <1>4, <2>1, <2>2 DEF Raise
<1>5. ASSUME NEW p \in Requests, Resolve(p) PROVE SubjectInv'
  <2>1. ASSUME NEW d \in Disputes, NEW refund \in BOOLEAN,
               ResolveStart(p, d, refund)
         PROVE  SubjectInv'
    BY <2>1 DEF ResolveStart
  <2>2. CASE ResolveRefund(p)
    <3>1. CASE Goto(p, "d_record")
      BY <2>2, <3>1 DEF ResolveRefund
    <3>2. CASE Done(p)
      BY <2>2, <3>2 DEF ResolveRefund
    <3> QED BY <2>2, <3>1, <3>2 DEF ResolveRefund
  <2>3. CASE ResolveTransfer(p)
    <3>1. CASE Goto(p, "d_record")
      BY <2>3, <3>1 DEF ResolveTransfer, Transfer
    <3>2. CASE Done(p)
      BY <2>3, <3>2 DEF ResolveTransfer, Transfer
    <3> QED BY <2>3, <3>1, <3>2 DEF ResolveTransfer, Transfer
  <2>4. CASE ResolveRecord(p)
    BY <2>4 DEF ResolveRecord, SetDispute
  <2>5. CASE ResolvePayment(p)
    BY <2>5 DEF ResolvePayment, SetPayment
  <2>6. CASE ResolveOrder(p)
    BY <2>6 DEF ResolveOrder, SetOrder
  <2>7. CASE ResolveCommit(p)
    BY <2>7 DEF ResolveCommit
  <2> QED BY <1>5, <2>1, <2>2, <2>3, <2>4, <2>5, <2>6, <2>7 DEF Resolve
<1>6. ASSUME NEW p \in Requests, Delete(p) PROVE SubjectInv'
  <2>1. ASSUME NEW l \in Listings, DeleteStart(p, l) PROVE SubjectInv'
    BY <2>1 DEF DeleteStart
  <2>2. CASE SoftDelete(p)
    BY <2>2 DEF SoftDelete
  <2> QED BY <1>6, <2>1, <2>2 DEF Delete
<1>7. ASSUME NEW p \in Requests, Fail(p) PROVE SubjectInv'
  BY <1>7 DEF Fail, SetEvent
<1>8. CASE Environment
  BY <1>8 DEF Environment, DispatchSets, Exists, SetOrder, MinutePasses,
    ChargeSettles, PayoutSettles, RefundSettles, Restart
<1>9. CASE UNCHANGED vars
  BY <1>9 DEF vars
<1> QED BY <1>1, <1>2, <1>3, <1>4, <1>5, <1>6, <1>7, <1>8, <1>9 DEF Next,
  Handle

\* Every step keeps OrderInv.
LEMMA OrderStep ==
  ASSUME TypeOK, OrderInv, SubjectInv, PurchaseInv, WebhookInv, [Next]_vars
  PROVE  OrderInv'
<1>0. /\ req \in [Requests -> Request]
      /\ listingOf \in [Orders -> Listings \cup {None}]
      /\ outbox \in [EventTypes -> [Orders -> Nat]]
      /\ orderStatus \in [Orders -> OrderStatus]
      /\ charge \in [Orders -> ChargeStatus]
      /\ event \in [Orders -> {"none", "processing", "failed", "completed"}]
  BY DEF TypeOK
<1> USE DoneUpdate, GotoUpdate, <1>0, NoneIsNoIdentifier DEF tables,
  orderRows, orderIds, records, disputes, payouts, paystack, At, Begin, RequestFor,
  IdleRequest, PurchaseSteps, WebhookSteps, ConfirmSteps, ResolveSteps,
  OrderInv, SubjectInv, PurchaseInv, WebhookInv, Settled, Outcomes
<1>1. ASSUME NEW p \in Requests, Purchase(p) PROVE OrderInv'
  <2>1. ASSUME NEW l \in Listings, NEW b \in Buyers, NEW o \in Orders,
               PurchaseStart(p, l, b, o)
         PROVE  OrderInv'
    BY <2>1 DEF PurchaseStart
  <2>2. CASE PurchaseInitialize(p)
    BY <2>2 DEF PurchaseInitialize
  <2>3. CASE PurchaseFlip(p)
    BY <2>3 DEF PurchaseFlip
  <2>4. CASE PurchaseCreate(p)
    BY <2>4 DEF PurchaseCreate
  <2>5. CASE PurchaseCommit(p)
    BY <2>5 DEF PurchaseCommit
  <2> QED BY <1>1, <2>1, <2>2, <2>3, <2>4, <2>5 DEF Purchase
<1>2. ASSUME NEW p \in Requests, Webhook(p) PROVE OrderInv'
  <2>1. ASSUME NEW o \in Orders, WebhookLookup(p, o) PROVE OrderInv'
    BY <2>1 DEF WebhookLookup
  <2>2. CASE WebhookReserve(p)
    BY <2>2 DEF WebhookReserve, SetEvent
  <2>3. CASE WebhookRead(p)
    BY <2>3 DEF WebhookRead
  <2>4. CASE WebhookHold(p)
    BY <2>4 DEF WebhookHold
  <2>5. CASE WebhookReverse(p)
    BY <2>5 DEF WebhookReverse
  <2>6. CASE WebhookComplete(p)
    BY <2>6 DEF WebhookComplete, SetEvent
  <2>7. CASE WebhookRefuse(p)
    BY <2>7 DEF WebhookRefuse, SetEvent
  <2> QED BY <1>2, <2>1, <2>2, <2>3, <2>4, <2>5, <2>6, <2>7 DEF Webhook
<1>3. ASSUME NEW p \in Requests, Confirm(p) PROVE OrderInv'
  <2>1. ASSUME NEW o \in Orders, ConfirmStart(p, o) PROVE OrderInv'
    BY <2>1 DEF ConfirmStart, TxStatus, Exists
  <2>2. CASE ConfirmTransfer(p)
    BY <2>2 DEF ConfirmTransfer, Transfer
  <2>3. CASE ConfirmScan(p)
    BY <2>3 DEF ConfirmScan
  <2>4. CASE ConfirmRelease(p)
    BY <2>4 DEF ConfirmRelease, SetPayment
  <2>5. CASE ConfirmComplete(p)
    BY <2>5 DEF ConfirmComplete, SetOrder
  <2>6. CASE ConfirmCommit(p)
    BY <2>6 DEF ConfirmCommit
  <2> QED BY <1>3, <2>1, <2>2, <2>3, <2>4, <2>5, <2>6 DEF Confirm
<1>4. ASSUME NEW p \in Requests, Raise(p) PROVE OrderInv'
  <2>1. ASSUME NEW o \in Orders, NEW d \in Disputes, RaiseStart(p, o, d)
         PROVE  OrderInv'
    BY <2>1 DEF RaiseStart, TxStatus, Exists
  <2>2. CASE RaiseCreate(p)
    BY <2>2 DEF RaiseCreate, SetDispute
  <2> QED BY <1>4, <2>1, <2>2 DEF Raise
<1>5. ASSUME NEW p \in Requests, Resolve(p) PROVE OrderInv'
  <2>1. ASSUME NEW d \in Disputes, NEW refund \in BOOLEAN,
               ResolveStart(p, d, refund)
         PROVE  OrderInv'
    BY <2>1 DEF ResolveStart
  <2>2. CASE ResolveRefund(p)
    BY <2>2 DEF ResolveRefund
  <2>3. CASE ResolveTransfer(p)
    BY <2>3 DEF ResolveTransfer, Transfer
  <2>4. CASE ResolveRecord(p)
    BY <2>4 DEF ResolveRecord, SetDispute
  <2>5. CASE ResolvePayment(p)
    BY <2>5 DEF ResolvePayment, SetPayment
  <2>6. CASE ResolveOrder(p)
    BY <2>6 DEF ResolveOrder, SetOrder
  <2>7. CASE ResolveCommit(p)
    BY <2>7 DEF ResolveCommit
  <2> QED BY <1>5, <2>1, <2>2, <2>3, <2>4, <2>5, <2>6, <2>7 DEF Resolve
<1>6. ASSUME NEW p \in Requests, Delete(p) PROVE OrderInv'
  <2>1. ASSUME NEW l \in Listings, DeleteStart(p, l) PROVE OrderInv'
    BY <2>1 DEF DeleteStart
  <2>2. CASE SoftDelete(p)
    BY <2>2 DEF SoftDelete
  <2> QED BY <1>6, <2>1, <2>2 DEF Delete
<1>7. ASSUME NEW p \in Requests, Fail(p) PROVE OrderInv'
  BY <1>7 DEF Fail, SetEvent
<1>8. CASE Environment
  BY <1>8 DEF Environment, DispatchSets, Exists, SetOrder, MinutePasses,
    ChargeSettles, PayoutSettles, RefundSettles, Restart
<1>9. CASE UNCHANGED vars
  BY <1>9 DEF vars
<1> QED BY <1>1, <1>2, <1>3, <1>4, <1>5, <1>6, <1>7, <1>8, <1>9 DEF Next,
  Handle

\* Every step keeps DisputeInv.
LEMMA DisputeStep ==
  ASSUME TypeOK, OrderInv, DisputeInv, SubjectInv, [Next]_vars
  PROVE  DisputeInv'
<1>0. /\ req \in [Requests -> Request]
      /\ listingOf \in [Orders -> Listings \cup {None}]
      /\ dispute \in [Disputes -> {"none", "open", "resolved"}]
      /\ disputeOf \in [Disputes -> Orders \cup {None}]
      /\ orderStatus \in [Orders -> OrderStatus]
  BY DEF TypeOK
<1> USE DoneUpdate, GotoUpdate, <1>0, NoneIsNoIdentifier DEF tables,
  orderRows, orderIds, records, disputes, payouts, paystack, At, Begin, RequestFor,
  IdleRequest, PurchaseSteps, WebhookSteps, ConfirmSteps, ResolveSteps,
  OrderInv, DisputeInv, SubjectInv, Settled, Outcomes
<1>1. ASSUME NEW p \in Requests, Purchase(p) PROVE DisputeInv'
  <2>1. ASSUME NEW l \in Listings, NEW b \in Buyers, NEW o \in Orders,
               PurchaseStart(p, l, b, o)
         PROVE  DisputeInv'
    BY <2>1 DEF PurchaseStart
  <2>2. CASE PurchaseInitialize(p)
    BY <2>2 DEF PurchaseInitialize
  <2>3. CASE PurchaseFlip(p)
    BY <2>3 DEF PurchaseFlip
  <2>4. CASE PurchaseCreate(p)
    BY <2>4 DEF PurchaseCreate
  <2>5. CASE PurchaseCommit(p)
    BY <2>5 DEF PurchaseCommit
  <2> QED BY <1>1, <2>1, <2>2, <2>3, <2>4, <2>5 DEF Purchase
<1>2. ASSUME NEW p \in Requests, Webhook(p) PROVE DisputeInv'
  <2>1. ASSUME NEW o \in Orders, WebhookLookup(p, o) PROVE DisputeInv'
    BY <2>1 DEF WebhookLookup
  <2>2. CASE WebhookReserve(p)
    BY <2>2 DEF WebhookReserve, SetEvent
  <2>3. CASE WebhookRead(p)
    BY <2>3 DEF WebhookRead
  <2>4. CASE WebhookHold(p)
    BY <2>4 DEF WebhookHold
  <2>5. CASE WebhookReverse(p)
    BY <2>5 DEF WebhookReverse
  <2>6. CASE WebhookComplete(p)
    BY <2>6 DEF WebhookComplete, SetEvent
  <2>7. CASE WebhookRefuse(p)
    BY <2>7 DEF WebhookRefuse, SetEvent
  <2> QED BY <1>2, <2>1, <2>2, <2>3, <2>4, <2>5, <2>6, <2>7 DEF Webhook
<1>3. ASSUME NEW p \in Requests, Confirm(p) PROVE DisputeInv'
  <2>1. ASSUME NEW o \in Orders, ConfirmStart(p, o) PROVE DisputeInv'
    BY <2>1 DEF ConfirmStart, TxStatus, Exists
  <2>2. CASE ConfirmTransfer(p)
    BY <2>2 DEF ConfirmTransfer, Transfer
  <2>3. CASE ConfirmScan(p)
    BY <2>3 DEF ConfirmScan
  <2>4. CASE ConfirmRelease(p)
    BY <2>4 DEF ConfirmRelease, SetPayment
  <2>5. CASE ConfirmComplete(p)
    BY <2>5 DEF ConfirmComplete, SetOrder
  <2>6. CASE ConfirmCommit(p)
    BY <2>6 DEF ConfirmCommit
  <2> QED BY <1>3, <2>1, <2>2, <2>3, <2>4, <2>5, <2>6 DEF Confirm
<1>4. ASSUME NEW p \in Requests, Raise(p) PROVE DisputeInv'
  <2>1. ASSUME NEW o \in Orders, NEW d \in Disputes, RaiseStart(p, o, d)
         PROVE  DisputeInv'
    BY <2>1 DEF RaiseStart, TxStatus, Exists
  <2>2. CASE RaiseCreate(p)
    BY <2>2 DEF RaiseCreate, SetDispute
  <2> QED BY <1>4, <2>1, <2>2 DEF Raise
<1>5. ASSUME NEW p \in Requests, Resolve(p) PROVE DisputeInv'
  <2>1. ASSUME NEW d \in Disputes, NEW refund \in BOOLEAN,
               ResolveStart(p, d, refund)
         PROVE  DisputeInv'
    BY <2>1 DEF ResolveStart
  <2>2. CASE ResolveRefund(p)
    BY <2>2 DEF ResolveRefund
  <2>3. CASE ResolveTransfer(p)
    BY <2>3 DEF ResolveTransfer, Transfer
  <2>4. CASE ResolveRecord(p)
    BY <2>4 DEF ResolveRecord, SetDispute
  <2>5. CASE ResolvePayment(p)
    BY <2>5 DEF ResolvePayment, SetPayment
  <2>6. CASE ResolveOrder(p)
    BY <2>6 DEF ResolveOrder, SetOrder
  <2>7. CASE ResolveCommit(p)
    BY <2>7 DEF ResolveCommit
  <2> QED BY <1>5, <2>1, <2>2, <2>3, <2>4, <2>5, <2>6, <2>7 DEF Resolve
<1>6. ASSUME NEW p \in Requests, Delete(p) PROVE DisputeInv'
  <2>1. ASSUME NEW l \in Listings, DeleteStart(p, l) PROVE DisputeInv'
    BY <2>1 DEF DeleteStart
  <2>2. CASE SoftDelete(p)
    BY <2>2 DEF SoftDelete
  <2> QED BY <1>6, <2>1, <2>2 DEF Delete
<1>7. ASSUME NEW p \in Requests, Fail(p) PROVE DisputeInv'
  BY <1>7 DEF Fail, SetEvent
<1>8. CASE Environment
  BY <1>8 DEF Environment, DispatchSets, Exists, SetOrder, MinutePasses,
    ChargeSettles, PayoutSettles, RefundSettles, Restart
<1>9. CASE UNCHANGED vars
  BY <1>9 DEF vars
<1> QED BY <1>1, <1>2, <1>3, <1>4, <1>5, <1>6, <1>7, <1>8, <1>9 DEF Next,
  Handle

\* Every step keeps PurchaseInv.
LEMMA PurchaseStep ==
  ASSUME TypeOK, OrderInv, SubjectInv, PurchaseInv, [Next]_vars
  PROVE  PurchaseInv'
<1>0. /\ req \in [Requests -> Request]
      /\ listingOf \in [Orders -> Listings \cup {None}]
      /\ outbox \in [EventTypes -> [Orders -> Nat]]
  BY DEF TypeOK
<1> USE DoneUpdate, GotoUpdate, <1>0, NoneIsNoIdentifier DEF tables,
  orderRows, orderIds, records, disputes, payouts, paystack, At, Begin, RequestFor,
  IdleRequest, PurchaseSteps, WebhookSteps, ConfirmSteps, ResolveSteps,
  OrderInv, SubjectInv, PurchaseInv, EventTypes
<1>1. ASSUME NEW p \in Requests, Purchase(p) PROVE PurchaseInv'
  <2>1. ASSUME NEW l \in Listings, NEW b \in Buyers, NEW o \in Orders,
               PurchaseStart(p, l, b, o)
         PROVE  PurchaseInv'
    BY <2>1 DEF PurchaseStart
  <2>2. CASE PurchaseInitialize(p)
    BY <2>2 DEF PurchaseInitialize
  <2>3. CASE PurchaseFlip(p)
    <3>1. CASE Goto(p, "p_create")
      BY <2>3, <3>1 DEF PurchaseFlip
    <3>2. CASE Done(p)
      BY <2>3, <3>2 DEF PurchaseFlip
    <3> QED BY <2>3, <3>1, <3>2 DEF PurchaseFlip
  <2>4. CASE PurchaseCreate(p)
    BY <2>4 DEF PurchaseCreate
  <2>5. CASE PurchaseCommit(p)
    BY <2>5 DEF PurchaseCommit
  <2> QED BY <1>1, <2>1, <2>2, <2>3, <2>4, <2>5 DEF Purchase
<1>2. ASSUME NEW p \in Requests, Webhook(p) PROVE PurchaseInv'
  <2>1. ASSUME NEW o \in Orders, WebhookLookup(p, o) PROVE PurchaseInv'
    BY <2>1 DEF WebhookLookup
  <2>2. CASE WebhookReserve(p)
    BY <2>2 DEF WebhookReserve, SetEvent
  <2>3. CASE WebhookRead(p)
    BY <2>3 DEF WebhookRead
  <2>4. CASE WebhookHold(p)
    BY <2>4 DEF WebhookHold
  <2>5. CASE WebhookReverse(p)
    BY <2>5 DEF WebhookReverse
  <2>6. CASE WebhookComplete(p)
    BY <2>6 DEF WebhookComplete, SetEvent
  <2>7. CASE WebhookRefuse(p)
    BY <2>7 DEF WebhookRefuse, SetEvent
  <2> QED BY <1>2, <2>1, <2>2, <2>3, <2>4, <2>5, <2>6, <2>7 DEF Webhook
<1>3. ASSUME NEW p \in Requests, Confirm(p) PROVE PurchaseInv'
  <2>1. ASSUME NEW o \in Orders, ConfirmStart(p, o) PROVE PurchaseInv'
    BY <2>1 DEF ConfirmStart, TxStatus, Exists
  <2>2. CASE ConfirmTransfer(p)
    <3>1. CASE Goto(p, "c_scan")
      BY <2>2, <3>1 DEF ConfirmTransfer, Transfer
    <3>2. CASE Done(p)
      BY <2>2, <3>2 DEF ConfirmTransfer, Transfer
    <3> QED BY <2>2, <3>1, <3>2 DEF ConfirmTransfer, Transfer
  <2>3. CASE ConfirmScan(p)
    <3>1. CASE Goto(p, "c_release")
      BY <2>3, <3>1 DEF ConfirmScan
    <3>2. CASE Done(p)
      BY <2>3, <3>2 DEF ConfirmScan
    <3> QED BY <2>3, <3>1, <3>2 DEF ConfirmScan
  <2>4. CASE ConfirmRelease(p)
    BY <2>4 DEF ConfirmRelease, SetPayment
  <2>5. CASE ConfirmComplete(p)
    BY <2>5 DEF ConfirmComplete, SetOrder
  <2>6. CASE ConfirmCommit(p)
    BY <2>6 DEF ConfirmCommit
  <2> QED BY <1>3, <2>1, <2>2, <2>3, <2>4, <2>5, <2>6 DEF Confirm
<1>4. ASSUME NEW p \in Requests, Raise(p) PROVE PurchaseInv'
  <2>1. ASSUME NEW o \in Orders, NEW d \in Disputes, RaiseStart(p, o, d)
         PROVE  PurchaseInv'
    BY <2>1 DEF RaiseStart, TxStatus, Exists
  <2>2. CASE RaiseCreate(p)
    BY <2>2 DEF RaiseCreate, SetDispute
  <2> QED BY <1>4, <2>1, <2>2 DEF Raise
<1>5. ASSUME NEW p \in Requests, Resolve(p) PROVE PurchaseInv'
  <2>1. ASSUME NEW d \in Disputes, NEW refund \in BOOLEAN,
               ResolveStart(p, d, refund)
         PROVE  PurchaseInv'
    BY <2>1 DEF ResolveStart
  <2>2. CASE ResolveRefund(p)
    <3>1. CASE Goto(p, "d_record")
      BY <2>2, <3>1 DEF ResolveRefund
    <3>2. CASE Done(p)
      BY <2>2, <3>2 DEF ResolveRefund
    <3> QED BY <2>2, <3>1, <3>2 DEF ResolveRefund
  <2>3. CASE ResolveTransfer(p)
    <3>1. CASE Goto(p, "d_record")
      BY <2>3, <3>1 DEF ResolveTransfer, Transfer
    <3>2. CASE Done(p)
      BY <2>3, <3>2 DEF ResolveTransfer, Transfer
    <3> QED BY <2>3, <3>1, <3>2 DEF ResolveTransfer, Transfer
  <2>4. CASE ResolveRecord(p)
    BY <2>4 DEF ResolveRecord, SetDispute
  <2>5. CASE ResolvePayment(p)
    BY <2>5 DEF ResolvePayment, SetPayment
  <2>6. CASE ResolveOrder(p)
    BY <2>6 DEF ResolveOrder, SetOrder
  <2>7. CASE ResolveCommit(p)
    BY <2>7 DEF ResolveCommit
  <2> QED BY <1>5, <2>1, <2>2, <2>3, <2>4, <2>5, <2>6, <2>7 DEF Resolve
<1>6. ASSUME NEW p \in Requests, Delete(p) PROVE PurchaseInv'
  <2>1. ASSUME NEW l \in Listings, DeleteStart(p, l) PROVE PurchaseInv'
    BY <2>1 DEF DeleteStart
  <2>2. CASE SoftDelete(p)
    BY <2>2 DEF SoftDelete
  <2> QED BY <1>6, <2>1, <2>2 DEF Delete
<1>7. ASSUME NEW p \in Requests, Fail(p) PROVE PurchaseInv'
  BY <1>7 DEF Fail, SetEvent
<1>8. CASE Environment
  BY <1>8 DEF Environment, DispatchSets, Exists, SetOrder, MinutePasses,
    ChargeSettles, PayoutSettles, RefundSettles, Restart
<1>9. CASE UNCHANGED vars
  BY <1>9 DEF vars
<1> QED BY <1>1, <1>2, <1>3, <1>4, <1>5, <1>6, <1>7, <1>8, <1>9 DEF Next,
  Handle

\* Every step keeps FlipInv.
LEMMA FlipStep ==
  ASSUME TypeOK, OrderInv, SubjectInv, PurchaseInv, FlipInv, [Next]_vars
  PROVE  FlipInv'
<1>0. /\ req \in [Requests -> Request]
      /\ listingOf \in [Orders -> Listings \cup {None}]
      /\ listing \in [Listings -> ListingStatus]
  BY DEF TypeOK
<1> USE DoneUpdate, GotoUpdate, <1>0, NoneIsNoIdentifier DEF tables,
  orderRows, orderIds, records, disputes, payouts, paystack, At, Begin, RequestFor,
  IdleRequest, PurchaseSteps, WebhookSteps, ConfirmSteps, ResolveSteps,
  OrderInv, SubjectInv, PurchaseInv, FlipInv, FlippedSteps, RowLocked
<1>1. ASSUME NEW p \in Requests, Purchase(p) PROVE FlipInv'
  <2>1. ASSUME NEW l \in Listings, NEW b \in Buyers, NEW o \in Orders,
               PurchaseStart(p, l, b, o)
         PROVE  FlipInv'
    BY <2>1 DEF PurchaseStart
  <2>2. CASE PurchaseInitialize(p)
    BY <2>2 DEF PurchaseInitialize
  <2>3. CASE PurchaseFlip(p)
    <3>1. CASE Goto(p, "p_create")
      BY <2>3, <3>1 DEF PurchaseFlip
    <3>2. CASE Done(p)
      BY <2>3, <3>2 DEF PurchaseFlip
    <3> QED BY <2>3, <3>1, <3>2 DEF PurchaseFlip
  <2>4. CASE PurchaseCreate(p)
    BY <2>4 DEF PurchaseCreate
  <2>5. CASE PurchaseCommit(p)
    BY <2>5 DEF PurchaseCommit
  <2> QED BY <1>1, <2>1, <2>2, <2>3, <2>4, <2>5 DEF Purchase
<1>2. ASSUME NEW p \in Requests, Webhook(p) PROVE FlipInv'
  <2>1. ASSUME NEW o \in Orders, WebhookLookup(p, o) PROVE FlipInv'
    BY <2>1 DEF WebhookLookup
  <2>2. CASE WebhookReserve(p)
    BY <2>2 DEF WebhookReserve, SetEvent
  <2>3. CASE WebhookRead(p)
    BY <2>3 DEF WebhookRead
  <2>4. CASE WebhookHold(p)
    BY <2>4 DEF WebhookHold
  <2>5. CASE WebhookReverse(p)
    BY <2>5 DEF WebhookReverse
  <2>6. CASE WebhookComplete(p)
    BY <2>6 DEF WebhookComplete, SetEvent
  <2>7. CASE WebhookRefuse(p)
    BY <2>7 DEF WebhookRefuse, SetEvent
  <2> QED BY <1>2, <2>1, <2>2, <2>3, <2>4, <2>5, <2>6, <2>7 DEF Webhook
<1>3. ASSUME NEW p \in Requests, Confirm(p) PROVE FlipInv'
  <2>1. ASSUME NEW o \in Orders, ConfirmStart(p, o) PROVE FlipInv'
    BY <2>1 DEF ConfirmStart, TxStatus, Exists
  <2>2. CASE ConfirmTransfer(p)
    <3>1. CASE Goto(p, "c_scan")
      BY <2>2, <3>1 DEF ConfirmTransfer, Transfer
    <3>2. CASE Done(p)
      BY <2>2, <3>2 DEF ConfirmTransfer, Transfer
    <3> QED BY <2>2, <3>1, <3>2 DEF ConfirmTransfer, Transfer
  <2>3. CASE ConfirmScan(p)
    <3>1. CASE Goto(p, "c_release")
      BY <2>3, <3>1 DEF ConfirmScan
    <3>2. CASE Done(p)
      BY <2>3, <3>2 DEF ConfirmScan
    <3> QED BY <2>3, <3>1, <3>2 DEF ConfirmScan
  <2>4. CASE ConfirmRelease(p)
    BY <2>4 DEF ConfirmRelease, SetPayment
  <2>5. CASE ConfirmComplete(p)
    BY <2>5 DEF ConfirmComplete, SetOrder
  <2>6. CASE ConfirmCommit(p)
    BY <2>6 DEF ConfirmCommit
  <2> QED BY <1>3, <2>1, <2>2, <2>3, <2>4, <2>5, <2>6 DEF Confirm
<1>4. ASSUME NEW p \in Requests, Raise(p) PROVE FlipInv'
  <2>1. ASSUME NEW o \in Orders, NEW d \in Disputes, RaiseStart(p, o, d)
         PROVE  FlipInv'
    BY <2>1 DEF RaiseStart, TxStatus, Exists
  <2>2. CASE RaiseCreate(p)
    BY <2>2 DEF RaiseCreate, SetDispute
  <2> QED BY <1>4, <2>1, <2>2 DEF Raise
<1>5. ASSUME NEW p \in Requests, Resolve(p) PROVE FlipInv'
  <2>1. ASSUME NEW d \in Disputes, NEW refund \in BOOLEAN,
               ResolveStart(p, d, refund)
         PROVE  FlipInv'
    BY <2>1 DEF ResolveStart
  <2>2. CASE ResolveRefund(p)
    <3>1. CASE Goto(p, "d_record")
      BY <2>2, <3>1 DEF ResolveRefund
    <3>2. CASE Done(p)
      BY <2>2, <3>2 DEF ResolveRefund
    <3> QED BY <2>2, <3>1, <3>2 DEF ResolveRefund
  <2>3. CASE ResolveTransfer(p)
    <3>1. CASE Goto(p, "d_record")
      BY <2>3, <3>1 DEF ResolveTransfer, Transfer
    <3>2. CASE Done(p)
      BY <2>3, <3>2 DEF ResolveTransfer, Transfer
    <3> QED BY <2>3, <3>1, <3>2 DEF ResolveTransfer, Transfer
  <2>4. CASE ResolveRecord(p)
    BY <2>4 DEF ResolveRecord, SetDispute
  <2>5. CASE ResolvePayment(p)
    BY <2>5 DEF ResolvePayment, SetPayment
  <2>6. CASE ResolveOrder(p)
    BY <2>6 DEF ResolveOrder, SetOrder
  <2>7. CASE ResolveCommit(p)
    BY <2>7 DEF ResolveCommit
  <2> QED BY <1>5, <2>1, <2>2, <2>3, <2>4, <2>5, <2>6, <2>7 DEF Resolve
<1>6. ASSUME NEW p \in Requests, Delete(p) PROVE FlipInv'
  <2>1. ASSUME NEW l \in Listings, DeleteStart(p, l) PROVE FlipInv'
    BY <2>1 DEF DeleteStart
  <2>2. CASE SoftDelete(p)
    BY <2>2 DEF SoftDelete
  <2> QED BY <1>6, <2>1, <2>2 DEF Delete
<1>7. ASSUME NEW p \in Requests, Fail(p) PROVE FlipInv'
  BY <1>7 DEF Fail, SetEvent
<1>8. CASE Environment
  BY <1>8 DEF Environment, DispatchSets, Exists, SetOrder, MinutePasses,
    ChargeSettles, PayoutSettles, RefundSettles, Restart
<1>9. CASE UNCHANGED vars
  BY <1>9 DEF vars
<1> QED BY <1>1, <1>2, <1>3, <1>4, <1>5, <1>6, <1>7, <1>8, <1>9 DEF Next,
  Handle

\* Every step keeps ResolveInv.
LEMMA ResolveStep ==
  ASSUME TypeOK, DisputeInv, SubjectInv, ResolveInv, [Next]_vars
  PROVE  ResolveInv'
<1>0. /\ req \in [Requests -> Request]
      /\ dispute \in [Disputes -> {"none", "open", "resolved"}]
      /\ disputeOf \in [Disputes -> Orders \cup {None}]
  BY DEF TypeOK
<1> USE DoneUpdate, GotoUpdate, <1>0, NoneIsNoIdentifier DEF tables,
  orderRows, orderIds, records, disputes, payouts, paystack, At, Begin, RequestFor,
  IdleRequest, PurchaseSteps, WebhookSteps, ConfirmSteps, ResolveSteps,
  DisputeInv, SubjectInv, ResolveInv
<1>1. ASSUME NEW p \in Requests, Purchase(p) PROVE ResolveInv'
  <2>1. ASSUME NEW l \in Listings, NEW b \in Buyers, NEW o \in Orders,
               PurchaseStart(p, l, b, o)
         PROVE  ResolveInv'
    BY <2>1 DEF PurchaseStart
  <2>2. CASE PurchaseInitialize(p)
    BY <2>2 DEF PurchaseInitialize
  <2>3. CASE PurchaseFlip(p)
    <3>1. CASE Goto(p, "p_create")
      BY <2>3, <3>1 DEF PurchaseFlip
    <3>2. CASE Done(p)
      BY <2>3, <3>2 DEF PurchaseFlip
    <3> QED BY <2>3, <3>1, <3>2 DEF PurchaseFlip
  <2>4. CASE PurchaseCreate(p)
    BY <2>4 DEF PurchaseCreate
  <2>5. CASE PurchaseCommit(p)
    BY <2>5 DEF PurchaseCommit
  <2> QED BY <1>1, <2>1, <2>2, <2>3, <2>4, <2>5 DEF Purchase
<1>2. ASSUME NEW p \in Requests, Webhook(p) PROVE ResolveInv'
  <2>1. ASSUME NEW o \in Orders, WebhookLookup(p, o) PROVE ResolveInv'
    BY <2>1 DEF WebhookLookup
  <2>2. CASE WebhookReserve(p)
    BY <2>2 DEF WebhookReserve, SetEvent
  <2>3. CASE WebhookRead(p)
    BY <2>3 DEF WebhookRead
  <2>4. CASE WebhookHold(p)
    BY <2>4 DEF WebhookHold
  <2>5. CASE WebhookReverse(p)
    BY <2>5 DEF WebhookReverse
  <2>6. CASE WebhookComplete(p)
    BY <2>6 DEF WebhookComplete, SetEvent
  <2>7. CASE WebhookRefuse(p)
    BY <2>7 DEF WebhookRefuse, SetEvent
  <2> QED BY <1>2, <2>1, <2>2, <2>3, <2>4, <2>5, <2>6, <2>7 DEF Webhook
<1>3. ASSUME NEW p \in Requests, Confirm(p) PROVE ResolveInv'
  <2>1. ASSUME NEW o \in Orders, ConfirmStart(p, o) PROVE ResolveInv'
    BY <2>1 DEF ConfirmStart, TxStatus, Exists
  <2>2. CASE ConfirmTransfer(p)
    <3>1. CASE Goto(p, "c_scan")
      BY <2>2, <3>1 DEF ConfirmTransfer, Transfer
    <3>2. CASE Done(p)
      BY <2>2, <3>2 DEF ConfirmTransfer, Transfer
    <3> QED BY <2>2, <3>1, <3>2 DEF ConfirmTransfer, Transfer
  <2>3. CASE ConfirmScan(p)
    <3>1. CASE Goto(p, "c_release")
      BY <2>3, <3>1 DEF ConfirmScan
    <3>2. CASE Done(p)
      BY <2>3, <3>2 DEF ConfirmScan
    <3> QED BY <2>3, <3>1, <3>2 DEF ConfirmScan
  <2>4. CASE ConfirmRelease(p)
    BY <2>4 DEF ConfirmRelease, SetPayment
  <2>5. CASE ConfirmComplete(p)
    BY <2>5 DEF ConfirmComplete, SetOrder
  <2>6. CASE ConfirmCommit(p)
    BY <2>6 DEF ConfirmCommit
  <2> QED BY <1>3, <2>1, <2>2, <2>3, <2>4, <2>5, <2>6 DEF Confirm
<1>4. ASSUME NEW p \in Requests, Raise(p) PROVE ResolveInv'
  <2>1. ASSUME NEW o \in Orders, NEW d \in Disputes, RaiseStart(p, o, d)
         PROVE  ResolveInv'
    BY <2>1 DEF RaiseStart, TxStatus, Exists
  <2>2. CASE RaiseCreate(p)
    BY <2>2 DEF RaiseCreate, SetDispute
  <2> QED BY <1>4, <2>1, <2>2 DEF Raise
<1>5. ASSUME NEW p \in Requests, Resolve(p) PROVE ResolveInv'
  <2>1. ASSUME NEW d \in Disputes, NEW refund \in BOOLEAN,
               ResolveStart(p, d, refund)
         PROVE  ResolveInv'
    BY <2>1 DEF ResolveStart
  <2>2. CASE ResolveRefund(p)
    <3>1. CASE Goto(p, "d_record")
      BY <2>2, <3>1 DEF ResolveRefund
    <3>2. CASE Done(p)
      BY <2>2, <3>2 DEF ResolveRefund
    <3> QED BY <2>2, <3>1, <3>2 DEF ResolveRefund
  <2>3. CASE ResolveTransfer(p)
    <3>1. CASE Goto(p, "d_record")
      BY <2>3, <3>1 DEF ResolveTransfer, Transfer
    <3>2. CASE Done(p)
      BY <2>3, <3>2 DEF ResolveTransfer, Transfer
    <3> QED BY <2>3, <3>1, <3>2 DEF ResolveTransfer, Transfer
  <2>4. CASE ResolveRecord(p)
    BY <2>4 DEF ResolveRecord, SetDispute
  <2>5. CASE ResolvePayment(p)
    BY <2>5 DEF ResolvePayment, SetPayment
  <2>6. CASE ResolveOrder(p)
    BY <2>6 DEF ResolveOrder, SetOrder
  <2>7. CASE ResolveCommit(p)
    BY <2>7 DEF ResolveCommit
  <2> QED BY <1>5, <2>1, <2>2, <2>3, <2>4, <2>5, <2>6, <2>7 DEF Resolve
<1>6. ASSUME NEW p \in Requests, Delete(p) PROVE ResolveInv'
  <2>1. ASSUME NEW l \in Listings, DeleteStart(p, l) PROVE ResolveInv'
    BY <2>1 DEF DeleteStart
  <2>2. CASE SoftDelete(p)
    BY <2>2 DEF SoftDelete
  <2> QED BY <1>6, <2>1, <2>2 DEF Delete
<1>7. ASSUME NEW p \in Requests, Fail(p) PROVE ResolveInv'
  BY <1>7 DEF Fail, SetEvent
<1>8. CASE Environment
  BY <1>8 DEF Environment, DispatchSets, Exists, SetOrder, MinutePasses,
    ChargeSettles, PayoutSettles, RefundSettles, Restart
<1>9. CASE UNCHANGED vars
  BY <1>9 DEF vars
<1> QED BY <1>1, <1>2, <1>3, <1>4, <1>5, <1>6, <1>7, <1>8, <1>9 DEF Next,
  Handle

\* Every step keeps SoldInv.
LEMMA SoldStep ==
  ASSUME TypeOK, OrderInv, SubjectInv, PurchaseInv, FlipInv, WebhookInv,
         ResolveInv, SoldInv, [Next]_vars
  PROVE  SoldInv'
<1>0. /\ req \in [Requests -> Request]
      /\ listingOf \in [Orders -> Listings \cup {None}]
      /\ listing \in [Listings -> ListingStatus]
      /\ orderStatus \in [Orders -> OrderStatus]
      /\ payment \in [Orders -> PaymentStatus]
      /\ dispute \in [Disputes -> {"none", "open", "resolved"}]
      /\ disputeOf \in [Disputes -> Orders \cup {None}]
  BY DEF TypeOK
<1> USE DoneUpdate, GotoUpdate, <1>0, NoneIsNoIdentifier DEF tables,
  orderRows, orderIds, records, disputes, payouts, paystack, At, Begin, RequestFor,
  IdleRequest, PurchaseSteps, WebhookSteps, ConfirmSteps, ResolveSteps,
  OrderInv, SubjectInv, SoldInv, Accounted, Disputed
<1>1. ASSUME NEW p \in Requests, Purchase(p) PROVE SoldInv'
  <2>1. ASSUME NEW l \in Listings, NEW b \in Buyers, NEW o \in Orders,
               PurchaseStart(p, l, b, o)
         PROVE  SoldInv'
    BY <2>1 DEF PurchaseStart
  <2>2. CASE PurchaseInitialize(p)
    BY <2>2 DEF PurchaseInitialize
  <2>3. CASE PurchaseFlip(p)
    <3>1. CASE Goto(p, "p_create")
      BY <2>3, <3>1 DEF PurchaseFlip
    <3>2. CASE Done(p)
      BY <2>3, <3>2 DEF PurchaseFlip
    <3> QED BY <2>3, <3>1, <3>2 DEF PurchaseFlip
  <2>4. CASE PurchaseCreate(p)
    BY <2>4 DEF PurchaseCreate
  <2>5. CASE PurchaseCommit(p)
    BY <2>5 DEF PurchaseCommit
  <2> QED BY <1>1, <2>1, <2>2, <2>3, <2>4, <2>5 DEF Purchase
<1>2. ASSUME NEW p \in Requests, Webhook(p) PROVE SoldInv'
  <2>1. ASSUME NEW o \in Orders, WebhookLookup(p, o) PROVE SoldInv'
    BY <2>1 DEF WebhookLookup
  <2>2. CASE WebhookReserve(p)
    BY <2>2 DEF WebhookReserve, SetEvent
  <2>3. CASE WebhookRead(p)
    BY <2>3 DEF WebhookRead
  <2>4. CASE WebhookHold(p)
    BY <2>4 DEF WebhookHold
  <2>5. CASE WebhookReverse(p)
    <3> DEFINE o == req[p].order
    <3>1. /\ o \in Orders /\ listingOf[o] \in Listings
          /\ ~(outbox["ORDER_PLACED"][o] = 0)
      BY <2>5 DEF WebhookReverse, WebhookInv, Settled, Outcomes, TypeOK, EventTypes
    <3>2. \A q \in Requests : At(q, "p_commit")' =>
            req'[q] = req[q] /\ req[q].order # o
      BY <2>5, <3>1 DEF WebhookReverse, PurchaseInv
    <3>3. \A x \in Orders \ {o} : Accounted(x) => Accounted(x)'
      BY <2>5 DEF WebhookReverse
    <3>4. listing'[listingOf[o]] = "active"
          /\ \A l \in Listings \ {listingOf[o]} : listing'[l] = listing[l]
      BY <2>5, <3>1 DEF WebhookReverse
    <3>5. listingOf' = listingOf
      BY <2>5 DEF WebhookReverse
    <3> HIDE DEF o, Accounted
    <3> QED BY <3>1, <3>2, <3>3, <3>4, <3>5 DEF o
  <2>6. CASE WebhookComplete(p)
    BY <2>6 DEF WebhookComplete, SetEvent
  <2>7. CASE WebhookRefuse(p)
    BY <2>7 DEF WebhookRefuse, SetEvent
  <2> QED BY <1>2, <2>1, <2>2, <2>3, <2>4, <2>5, <2>6, <2>7 DEF Webhook
<1>3. ASSUME NEW p \in Requests, Confirm(p) PROVE SoldInv'
  <2>1. ASSUME NEW o \in Orders, ConfirmStart(p, o) PROVE SoldInv'
    BY <2>1 DEF ConfirmStart, TxStatus, Exists
  <2>2. CASE ConfirmTransfer(p)
    <3>1. CASE Goto(p, "c_scan")
      BY <2>2, <3>1 DEF ConfirmTransfer, Transfer
    <3>2. CASE Done(p)
      BY <2>2, <3>2 DEF ConfirmTransfer, Transfer
    <3> QED BY <2>2, <3>1, <3>2 DEF ConfirmTransfer, Transfer
  <2>3. CASE ConfirmScan(p)
    <3>1. CASE Goto(p, "c_release")
      BY <2>3, <3>1 DEF ConfirmScan
    <3>2. CASE Done(p)
      BY <2>3, <3>2 DEF ConfirmScan
    <3> QED BY <2>3, <3>1, <3>2 DEF ConfirmScan
  <2>4. CASE ConfirmRelease(p)
    BY <2>4 DEF ConfirmRelease, SetPayment
  <2>5. CASE ConfirmComplete(p)
    BY <2>5 DEF ConfirmComplete, SetOrder
  <2>6. CASE ConfirmCommit(p)
    BY <2>6 DEF ConfirmCommit
  <2> QED BY <1>3, <2>1, <2>2, <2>3, <2>4, <2>5, <2>6 DEF Confirm
<1>4. ASSUME NEW p \in Requests, Raise(p) PROVE SoldInv'
  <2>1. ASSUME NEW o \in Orders, NEW d \in Disputes, RaiseStart(p, o, d)
         PROVE  SoldInv'
    BY <2>1 DEF RaiseStart, TxStatus, Exists
  <2>2. CASE RaiseCreate(p)
    <3>1. req[p].order \in Orders /\ req[p].dispute \in Disputes
      BY <2>2 DEF RaiseCreate, ResolveInv
    <3>2. \A x \in Orders : Accounted(x) => Accounted(x)'
      BY <2>2, <3>1 DEF RaiseCreate, SetDispute, ResolveInv
    <3>3. /\ UNCHANGED <<listing, listingOf>>
          /\ \A q \in Requests : At(q, "p_commit")' => req'[q] = req[q]
      BY <2>2 DEF RaiseCreate, SetDispute
    <3> HIDE DEF Accounted
    <3> QED BY <3>2, <3>3
  <2> QED BY <1>4, <2>1, <2>2 DEF Raise
<1>5. ASSUME NEW p \in Requests, Resolve(p) PROVE SoldInv'
  <2>1. ASSUME NEW d \in Disputes, NEW refund \in BOOLEAN,
               ResolveStart(p, d, refund)
         PROVE  SoldInv'
    BY <2>1 DEF ResolveStart
  <2>2. CASE ResolveRefund(p)
    <3>1. CASE Goto(p, "d_record")
      BY <2>2, <3>1 DEF ResolveRefund
    <3>2. CASE Done(p)
      BY <2>2, <3>2 DEF ResolveRefund
    <3> QED BY <2>2, <3>1, <3>2 DEF ResolveRefund
  <2>3. CASE ResolveTransfer(p)
    <3>1. CASE Goto(p, "d_record")
      BY <2>3, <3>1 DEF ResolveTransfer, Transfer
    <3>2. CASE Done(p)
      BY <2>3, <3>2 DEF ResolveTransfer, Transfer
    <3> QED BY <2>3, <3>1, <3>2 DEF ResolveTransfer, Transfer
  <2>4. CASE ResolveRecord(p)
    BY <2>4 DEF ResolveRecord, SetDispute
  <2>5. CASE ResolvePayment(p)
    <3>1. req[p].order \in Orders /\ req[p].dispute \in Disputes
      BY <2>5 DEF ResolvePayment, ResolveInv
    <3>2. \A x \in Orders : Accounted(x) => Accounted(x)'
      BY <2>5, <3>1 DEF ResolvePayment, SetPayment, ResolveInv
    <3>3. /\ UNCHANGED <<listing, listingOf>>
          /\ \A q \in Requests : At(q, "p_commit")' => req'[q] = req[q]
      BY <2>5 DEF ResolvePayment, SetPayment
    <3> HIDE DEF Accounted
    <3> QED BY <3>2, <3>3
  <2>6. CASE ResolveOrder(p)
    <3>1. req[p].order \in Orders /\ req[p].dispute \in Disputes
      BY <2>6 DEF ResolveOrder, ResolveInv
    <3>2. \A x \in Orders : Accounted(x) => Accounted(x)'
      BY <2>6, <3>1 DEF ResolveOrder, SetOrder, ResolveInv
    <3>3. /\ UNCHANGED <<listing, listingOf>>
          /\ \A q \in Requests : At(q, "p_commit")' => req'[q] = req[q]
      BY <2>6 DEF ResolveOrder, SetOrder
    <3> HIDE DEF Accounted
    <3> QED BY <3>2, <3>3
  <2>7. CASE ResolveCommit(p)
    BY <2>7 DEF ResolveCommit
  <2> QED BY <1>5, <2>1, <2>2, <2>3, <2>4, <2>5, <2>6, <2>7 DEF Resolve
<1>6. ASSUME NEW p \in Requests, Delete(p) PROVE SoldInv'
  <2>1. ASSUME NEW l \in Listings, DeleteStart(p, l) PROVE SoldInv'
    BY <2>1 DEF DeleteStart
  <2>2. CASE SoftDelete(p)
    BY <2>2 DEF SoftDelete
  <2> QED BY <1>6, <2>1, <2>2 DEF Delete
<1>7. ASSUME NEW p \in Requests, Fail(p) PROVE SoldInv'
  BY <1>7 DEF Fail, SetEvent
<1>8. CASE Environment
  BY <1>8 DEF Environment, DispatchSets, Exists, SetOrder, MinutePasses,
    ChargeSettles, PayoutSettles, RefundSettles, Restart
<1>9. CASE UNCHANGED vars
  BY <1>9 DEF vars
<1> QED BY <1>1, <1>2, <1>3, <1>4, <1>5, <1>6, <1>7, <1>8, <1>9 DEF Next,
  Handle

\* Every step keeps ScanInv.
LEMMA ScanStep ==
  ASSUME TypeOK, SubjectInv, ScanInv, [Next]_vars
  PROVE  ScanInv'
<1>0. /\ req \in [Requests -> Request]
      /\ listingOf \in [Orders -> Listings \cup {None}]
  BY DEF TypeOK
<1> USE DoneUpdate, GotoUpdate, <1>0 DEF tables, orderRows, orderIds,
  records, disputes, payouts, paystack, At, Begin, RequestFor, IdleRequest,
  PurchaseSteps, WebhookSteps, ConfirmSteps, ResolveSteps, SubjectInv,
  ScanInv, ScanSteps, ScanLocked
<1>1. ASSUME NEW p \in Requests, Purchase(p) PROVE ScanInv'
  <2>1. ASSUME NEW l \in Listings, NEW b \in Buyers, NEW o \in Orders,
               PurchaseStart(p, l, b, o)
         PROVE  ScanInv'
    BY <2>1 DEF PurchaseStart
  <2>2. CASE PurchaseInitialize(p)
    BY <2>2 DEF PurchaseInitialize
  <2>3. CASE PurchaseFlip(p)
    <3>1. CASE Goto(p, "p_create")
      BY <2>3, <3>1 DEF PurchaseFlip
    <3>2. CASE Done(p)
      BY <2>3, <3>2 DEF PurchaseFlip
    <3> QED BY <2>3, <3>1, <3>2 DEF PurchaseFlip
  <2>4. CASE PurchaseCreate(p)
    BY <2>4 DEF PurchaseCreate
  <2>5. CASE PurchaseCommit(p)
    BY <2>5 DEF PurchaseCommit
  <2> QED BY <1>1, <2>1, <2>2, <2>3, <2>4, <2>5 DEF Purchase
<1>2. ASSUME NEW p \in Requests, Webhook(p) PROVE ScanInv'
  <2>1. ASSUME NEW o \in Orders, WebhookLookup(p, o) PROVE ScanInv'
    BY <2>1 DEF WebhookLookup
  <2>2. CASE WebhookReserve(p)
    BY <2>2 DEF WebhookReserve, SetEvent
  <2>3. CASE WebhookRead(p)
    BY <2>3 DEF WebhookRead
  <2>4. CASE WebhookHold(p)
    BY <2>4 DEF WebhookHold
  <2>5. CASE WebhookReverse(p)
    BY <2>5 DEF WebhookReverse
  <2>6. CASE WebhookComplete(p)
    BY <2>6 DEF WebhookComplete, SetEvent
  <2>7. CASE WebhookRefuse(p)
    BY <2>7 DEF WebhookRefuse, SetEvent
  <2> QED BY <1>2, <2>1, <2>2, <2>3, <2>4, <2>5, <2>6, <2>7 DEF Webhook
<1>3. ASSUME NEW p \in Requests, Confirm(p) PROVE ScanInv'
  <2>1. ASSUME NEW o \in Orders, ConfirmStart(p, o) PROVE ScanInv'
    BY <2>1 DEF ConfirmStart, TxStatus, Exists
  <2>2. CASE ConfirmTransfer(p)
    <3>1. CASE Goto(p, "c_scan")
      BY <2>2, <3>1 DEF ConfirmTransfer, Transfer
    <3>2. CASE Done(p)
      BY <2>2, <3>2 DEF ConfirmTransfer, Transfer
    <3> QED BY <2>2, <3>1, <3>2 DEF ConfirmTransfer, Transfer
  <2>3. CASE ConfirmScan(p)
    <3>1. CASE Goto(p, "c_release")
      BY <2>3, <3>1 DEF ConfirmScan
    <3>2. CASE Done(p)
      BY <2>3, <3>2 DEF ConfirmScan
    <3> QED BY <2>3, <3>1, <3>2 DEF ConfirmScan
  <2>4. CASE ConfirmRelease(p)
    BY <2>4 DEF ConfirmRelease, SetPayment
  <2>5. CASE ConfirmComplete(p)
    BY <2>5 DEF ConfirmComplete, SetOrder
  <2>6. CASE ConfirmCommit(p)
    BY <2>6 DEF ConfirmCommit
  <2> QED BY <1>3, <2>1, <2>2, <2>3, <2>4, <2>5, <2>6 DEF Confirm
<1>4. ASSUME NEW p \in Requests, Raise(p) PROVE ScanInv'
  <2>1. ASSUME NEW o \in Orders, NEW d \in Disputes, RaiseStart(p, o, d)
         PROVE  ScanInv'
    BY <2>1 DEF RaiseStart, TxStatus, Exists
  <2>2. CASE RaiseCreate(p)
    BY <2>2 DEF RaiseCreate, SetDispute
  <2> QED BY <1>4, <2>1, <2>2 DEF Raise
<1>5. ASSUME NEW p \in Requests, Resolve(p) PROVE ScanInv'
  <2>1. ASSUME NEW d \in Disputes, NEW refund \in BOOLEAN,
               ResolveStart(p, d, refund)
         PROVE  ScanInv'
    BY <2>1 DEF ResolveStart
  <2>2. CASE ResolveRefund(p)
    <3>1. CASE Goto(p, "d_record")
      BY <2>2, <3>1 DEF ResolveRefund
    <3>2. CASE Done(p)
      BY <2>2, <3>2 DEF ResolveRefund
    <3> QED BY <2>2, <3>1, <3>2 DEF ResolveRefund
  <2>3. CASE ResolveTransfer(p)
    <3>1. CASE Goto(p, "d_record")
      BY <2>3, <3>1 DEF ResolveTransfer, Transfer
    <3>2. CASE Done(p)
      BY <2>3, <3>2 DEF ResolveTransfer, Transfer
    <3> QED BY <2>3, <3>1, <3>2 DEF ResolveTransfer, Transfer
  <2>4. CASE ResolveRecord(p)
    BY <2>4 DEF ResolveRecord, SetDispute
  <2>5. CASE ResolvePayment(p)
    BY <2>5 DEF ResolvePayment, SetPayment
  <2>6. CASE ResolveOrder(p)
    BY <2>6 DEF ResolveOrder, SetOrder
  <2>7. CASE ResolveCommit(p)
    BY <2>7 DEF ResolveCommit
  <2> QED BY <1>5, <2>1, <2>2, <2>3, <2>4, <2>5, <2>6, <2>7 DEF Resolve
<1>6. ASSUME NEW p \in Requests, Delete(p) PROVE ScanInv'
  <2>1. ASSUME NEW l \in Listings, DeleteStart(p, l) PROVE ScanInv'
    BY <2>1 DEF DeleteStart
  <2>2. CASE SoftDelete(p)
    BY <2>2 DEF SoftDelete
  <2> QED BY <1>6, <2>1, <2>2 DEF Delete
<1>7. ASSUME NEW p \in Requests, Fail(p) PROVE ScanInv'
  BY <1>7 DEF Fail, SetEvent
<1>8. CASE Environment
  BY <1>8 DEF Environment, DispatchSets, Exists, SetOrder, MinutePasses,
    ChargeSettles, PayoutSettles, RefundSettles, Restart
<1>9. CASE UNCHANGED vars
  BY <1>9 DEF vars
<1> QED BY <1>1, <1>2, <1>3, <1>4, <1>5, <1>6, <1>7, <1>8, <1>9 DEF Next,
  Handle

\* Every step keeps MoneyInv.
LEMMA MoneyStep ==
  ASSUME TypeOK, SubjectInv, MoneyInv, [Next]_vars
  PROVE  MoneyInv'
<1>0. /\ req \in [Requests -> Request]
      /\ transfers \in [Orders -> Nat]
      /\ refunds \in [Orders -> RefundStatus]
  BY DEF TypeOK
<1> USE DoneUpdate, GotoUpdate, <1>0 DEF tables, orderRows, orderIds,
  records, disputes, payouts, paystack, At, Begin, RequestFor, IdleRequest,
  PurchaseSteps, WebhookSteps, ConfirmSteps, ResolveSteps, SubjectInv,
  MoneyInv
<1>1. ASSUME NEW p \in Requests, Purchase(p) PROVE MoneyInv'
  <2>1. ASSUME NEW l \in Listings, NEW b \in Buyers, NEW o \in Orders,
               PurchaseStart(p, l, b, o)
         PROVE  MoneyInv'
    BY <2>1 DEF PurchaseStart
  <2>2. CASE PurchaseInitialize(p)
    BY <2>2 DEF PurchaseInitialize
  <2>3. CASE PurchaseFlip(p)
    <3>1. CASE Goto(p, "p_create")
      BY <2>3, <3>1 DEF PurchaseFlip
    <3>2. CASE Done(p)
      BY <2>3, <3>2 DEF PurchaseFlip
    <3> QED BY <2>3, <3>1, <3>2 DEF PurchaseFlip
  <2>4. CASE PurchaseCreate(p)
    BY <2>4 DEF PurchaseCreate
  <2>5. CASE PurchaseCommit(p)
    BY <2>5 DEF PurchaseCommit
  <2> QED BY <1>1, <2>1, <2>2, <2>3, <2>4, <2>5 DEF Purchase
<1>2. ASSUME NEW p \in Requests, Webhook(p) PROVE MoneyInv'
  <2>1. ASSUME NEW o \in Orders, WebhookLookup(p, o) PROVE MoneyInv'
    BY <2>1 DEF WebhookLookup
  <2>2. CASE WebhookReserve(p)
    BY <2>2 DEF WebhookReserve, SetEvent
  <2>3. CASE WebhookRead(p)
    BY <2>3 DEF WebhookRead
  <2>4. CASE WebhookHold(p)
    BY <2>4 DEF WebhookHold
  <2>5. CASE WebhookReverse(p)
    BY <2>5 DEF WebhookReverse
  <2>6. CASE WebhookComplete(p)
    BY <2>6 DEF WebhookComplete, SetEvent
  <2>7. CASE WebhookRefuse(p)
    BY <2>7 DEF WebhookRefuse, SetEvent
  <2> QED BY <1>2, <2>1, <2>2, <2>3, <2>4, <2>5, <2>6, <2>7 DEF Webhook
<1>3. ASSUME NEW p \in Requests, Confirm(p) PROVE MoneyInv'
  <2>1. ASSUME NEW o \in Orders, ConfirmStart(p, o) PROVE MoneyInv'
    BY <2>1 DEF ConfirmStart, TxStatus, Exists
  <2>2. CASE ConfirmTransfer(p)
    <3>1. CASE Goto(p, "c_scan")
      BY <2>2, <3>1 DEF ConfirmTransfer, Transfer
    <3>2. CASE Done(p)
      BY <2>2, <3>2 DEF ConfirmTransfer, Transfer
    <3> QED BY <2>2, <3>1, <3>2 DEF ConfirmTransfer, Transfer
  <2>3. CASE ConfirmScan(p)
    <3>1. CASE Goto(p, "c_release")
      BY <2>3, <3>1 DEF ConfirmScan
    <3>2. CASE Done(p)
      BY <2>3, <3>2 DEF ConfirmScan
    <3> QED BY <2>3, <3>1, <3>2 DEF ConfirmScan
  <2>4. CASE ConfirmRelease(p)
    BY <2>4 DEF ConfirmRelease, SetPayment
  <2>5. CASE ConfirmComplete(p)
    BY <2>5 DEF ConfirmComplete, SetOrder
  <2>6. CASE ConfirmCommit(p)
    BY <2>6 DEF ConfirmCommit
  <2> QED BY <1>3, <2>1, <2>2, <2>3, <2>4, <2>5, <2>6 DEF Confirm
<1>4. ASSUME NEW p \in Requests, Raise(p) PROVE MoneyInv'
  <2>1. ASSUME NEW o \in Orders, NEW d \in Disputes, RaiseStart(p, o, d)
         PROVE  MoneyInv'
    BY <2>1 DEF RaiseStart, TxStatus, Exists
  <2>2. CASE RaiseCreate(p)
    BY <2>2 DEF RaiseCreate, SetDispute
  <2> QED BY <1>4, <2>1, <2>2 DEF Raise
<1>5. ASSUME NEW p \in Requests, Resolve(p) PROVE MoneyInv'
  <2>1. ASSUME NEW d \in Disputes, NEW refund \in BOOLEAN,
               ResolveStart(p, d, refund)
         PROVE  MoneyInv'
    BY <2>1 DEF ResolveStart
  <2>2. CASE ResolveRefund(p)
    <3>1. CASE Goto(p, "d_record")
      <4>0. ~Done(p)
        BY <3>1, GotoUpdate, DoneUpdate DEF Request
      <4>1. PICK answer \in Answers :
              refunds' = [refunds EXCEPT ![req[p].order] = answer]
        BY <2>2, <4>0 DEF ResolveRefund
      <4>2. answer # "none" /\ UNCHANGED transfers
        BY <2>2, AnswersAreStatuses DEF ResolveRefund
      <4>3. \A o \in Orders : refunds[o] # "none" => refunds'[o] # "none"
        BY <4>1, <4>2
      <4>4. refunds'[req[p].order] # "none"
        BY <2>2, <4>1, <4>2 DEF ResolveRefund
      <4> QED BY <2>2, <3>1, <4>2, <4>3, <4>4 DEF ResolveRefund
    <3>2. CASE Done(p)
      BY <2>2, <3>2 DEF ResolveRefund
    <3> QED BY <2>2, <3>1, <3>2 DEF ResolveRefund
  <2>3. CASE ResolveTransfer(p)
    <3>1. CASE Goto(p, "d_record")
      BY <2>3, <3>1 DEF ResolveTransfer, Transfer
    <3>2. CASE Done(p)
      BY <2>3, <3>2 DEF ResolveTransfer, Transfer
    <3> QED BY <2>3, <3>1, <3>2 DEF ResolveTransfer, Transfer
  <2>4. CASE ResolveRecord(p)
    BY <2>4 DEF ResolveRecord, SetDispute
  <2>5. CASE ResolvePayment(p)
    BY <2>5 DEF ResolvePayment, SetPayment
  <2>6. CASE ResolveOrder(p)
    BY <2>6 DEF ResolveOrder, SetOrder
  <2>7. CASE ResolveCommit(p)
    BY <2>7 DEF ResolveCommit
  <2> QED BY <1>5, <2>1, <2>2, <2>3, <2>4, <2>5, <2>6, <2>7 DEF Resolve
<1>6. ASSUME NEW p \in Requests, Delete(p) PROVE MoneyInv'
  <2>1. ASSUME NEW l \in Listings, DeleteStart(p, l) PROVE MoneyInv'
    BY <2>1 DEF DeleteStart
  <2>2. CASE SoftDelete(p)
    BY <2>2 DEF SoftDelete
  <2> QED BY <1>6, <2>1, <2>2 DEF Delete
<1>7. ASSUME NEW p \in Requests, Fail(p) PROVE MoneyInv'
  BY <1>7 DEF Fail, SetEvent
<1>8. CASE Environment
  BY <1>8 DEF Environment, DispatchSets, Exists, SetOrder, MinutePasses,
    ChargeSettles, PayoutSettles, RefundSettles, Restart
<1>9. CASE UNCHANGED vars
  BY <1>9 DEF vars
<1> QED BY <1>1, <1>2, <1>3, <1>4, <1>5, <1>6, <1>7, <1>8, <1>9 DEF Next,
  Handle

\* Every step keeps WebhookInv.
LEMMA WebhookStep ==
  ASSUME TypeOK, OrderInv, SubjectInv, PurchaseInv, WebhookInv, [Next]_vars
  PROVE  WebhookInv'
<1>0. /\ req \in [Requests -> Request]
      /\ charge \in [Orders -> ChargeStatus]
      /\ payment \in [Orders -> PaymentStatus]
  BY DEF TypeOK
<1> USE DoneUpdate, GotoUpdate, <1>0 DEF tables, orderRows, orderIds,
  records, disputes, payouts, paystack, At, Begin, RequestFor, IdleRequest,
  PurchaseSteps, WebhookSteps, ConfirmSteps, ResolveSteps, OrderInv,
  SubjectInv, PurchaseInv, WebhookInv, Settled, Outcomes
<1>1. ASSUME NEW p \in Requests, Purchase(p) PROVE WebhookInv'
  <2>1. ASSUME NEW l \in Listings, NEW b \in Buyers, NEW o \in Orders,
               PurchaseStart(p, l, b, o)
         PROVE  WebhookInv'
    BY <2>1 DEF PurchaseStart
  <2>2. CASE PurchaseInitialize(p)
    BY <2>2 DEF PurchaseInitialize
  <2>3. CASE PurchaseFlip(p)
    <3>1. CASE Goto(p, "p_create")
      BY <2>3, <3>1 DEF PurchaseFlip
    <3>2. CASE Done(p)
      BY <2>3, <3>2 DEF PurchaseFlip
    <3> QED BY <2>3, <3>1, <3>2 DEF PurchaseFlip
  <2>4. CASE PurchaseCreate(p)
    BY <2>4 DEF PurchaseCreate
  <2>5. CASE PurchaseCommit(p)
    BY <2>5 DEF PurchaseCommit
  <2> QED BY <1>1, <2>1, <2>2, <2>3, <2>4, <2>5 DEF Purchase
<1>2. ASSUME NEW p \in Requests, Webhook(p) PROVE WebhookInv'
  <2>1. ASSUME NEW o \in Orders, WebhookLookup(p, o) PROVE WebhookInv'
    BY <2>1 DEF WebhookLookup
  <2>2. CASE WebhookReserve(p)
    BY <2>2 DEF WebhookReserve, SetEvent
  <2>3. CASE WebhookRead(p)
    BY <2>3 DEF WebhookRead
  <2>4. CASE WebhookHold(p)
    BY <2>4 DEF WebhookHold
  <2>5. CASE WebhookReverse(p)
    BY <2>5 DEF WebhookReverse
  <2>6. CASE WebhookComplete(p)
    BY <2>6 DEF WebhookComplete, SetEvent
  <2>7. CASE WebhookRefuse(p)
    BY <2>7 DEF WebhookRefuse, SetEvent
  <2> QED BY <1>2, <2>1, <2>2, <2>3, <2>4, <2>5, <2>6, <2>7 DEF Webhook
<1>3. ASSUME NEW p \in Requests, Confirm(p) PROVE WebhookInv'
  <2>1. ASSUME NEW o \in Orders, ConfirmStart(p, o) PROVE WebhookInv'
    BY <2>1 DEF ConfirmStart, TxStatus, Exists
  <2>2. CASE ConfirmTransfer(p)
    <3>1. CASE Goto(p, "c_scan")
      BY <2>2, <3>1 DEF ConfirmTransfer, Transfer
    <3>2. CASE Done(p)
      BY <2>2, <3>2 DEF ConfirmTransfer, Transfer
    <3> QED BY <2>2, <3>1, <3>2 DEF ConfirmTransfer, Transfer
  <2>3. CASE ConfirmScan(p)
    <3>1. CASE Goto(p, "c_release")
      BY <2>3, <3>1 DEF ConfirmScan
    <3>2. CASE Done(p)
      BY <2>3, <3>2 DEF ConfirmScan
    <3> QED BY <2>3, <3>1, <3>2 DEF ConfirmScan
  <2>4. CASE ConfirmRelease(p)
    BY <2>4 DEF ConfirmRelease, SetPayment
  <2>5. CASE ConfirmComplete(p)
    BY <2>5 DEF ConfirmComplete, SetOrder
  <2>6. CASE ConfirmCommit(p)
    BY <2>6 DEF ConfirmCommit
  <2> QED BY <1>3, <2>1, <2>2, <2>3, <2>4, <2>5, <2>6 DEF Confirm
<1>4. ASSUME NEW p \in Requests, Raise(p) PROVE WebhookInv'
  <2>1. ASSUME NEW o \in Orders, NEW d \in Disputes, RaiseStart(p, o, d)
         PROVE  WebhookInv'
    BY <2>1 DEF RaiseStart, TxStatus, Exists
  <2>2. CASE RaiseCreate(p)
    BY <2>2 DEF RaiseCreate, SetDispute
  <2> QED BY <1>4, <2>1, <2>2 DEF Raise
<1>5. ASSUME NEW p \in Requests, Resolve(p) PROVE WebhookInv'
  <2>1. ASSUME NEW d \in Disputes, NEW refund \in BOOLEAN,
               ResolveStart(p, d, refund)
         PROVE  WebhookInv'
    BY <2>1 DEF ResolveStart
  <2>2. CASE ResolveRefund(p)
    <3>1. CASE Goto(p, "d_record")
      BY <2>2, <3>1 DEF ResolveRefund
    <3>2. CASE Done(p)
      BY <2>2, <3>2 DEF ResolveRefund
    <3> QED BY <2>2, <3>1, <3>2 DEF ResolveRefund
  <2>3. CASE ResolveTransfer(p)
    <3>1. CASE Goto(p, "d_record")
      BY <2>3, <3>1 DEF ResolveTransfer, Transfer
    <3>2. CASE Done(p)
      BY <2>3, <3>2 DEF ResolveTransfer, Transfer
    <3> QED BY <2>3, <3>1, <3>2 DEF ResolveTransfer, Transfer
  <2>4. CASE ResolveRecord(p)
    BY <2>4 DEF ResolveRecord, SetDispute
  <2>5. CASE ResolvePayment(p)
    BY <2>5 DEF ResolvePayment, SetPayment
  <2>6. CASE ResolveOrder(p)
    BY <2>6 DEF ResolveOrder, SetOrder
  <2>7. CASE ResolveCommit(p)
    BY <2>7 DEF ResolveCommit
  <2> QED BY <1>5, <2>1, <2>2, <2>3, <2>4, <2>5, <2>6, <2>7 DEF Resolve
<1>6. ASSUME NEW p \in Requests, Delete(p) PROVE WebhookInv'
  <2>1. ASSUME NEW l \in Listings, DeleteStart(p, l) PROVE WebhookInv'
    BY <2>1 DEF DeleteStart
  <2>2. CASE SoftDelete(p)
    BY <2>2 DEF SoftDelete
  <2> QED BY <1>6, <2>1, <2>2 DEF Delete
<1>7. ASSUME NEW p \in Requests, Fail(p) PROVE WebhookInv'
  BY <1>7 DEF Fail, SetEvent
<1>8. CASE Environment
  BY <1>8 DEF Environment, DispatchSets, Exists, SetOrder, MinutePasses,
    ChargeSettles, PayoutSettles, RefundSettles, Restart
<1>9. CASE UNCHANGED vars
  BY <1>9 DEF vars
<1> QED BY <1>1, <1>2, <1>3, <1>4, <1>5, <1>6, <1>7, <1>8, <1>9 DEF Next,
  Handle

\* Every step keeps ClaimsAreBacked.
LEMMA ClaimsStep ==
  ASSUME TypeOK, OrderInv, SubjectInv, PurchaseInv, MoneyInv, WebhookInv,
         ClaimsAreBacked, [Next]_vars
  PROVE  ClaimsAreBacked'
<1>0. /\ req \in [Requests -> Request]
      /\ transfers \in [Orders -> Nat]
      /\ refunds \in [Orders -> RefundStatus]
      /\ charge \in [Orders -> ChargeStatus]
      /\ payment \in [Orders -> PaymentStatus]
      /\ orderStatus \in [Orders -> OrderStatus]
  BY DEF TypeOK
<1> USE DoneUpdate, GotoUpdate, <1>0 DEF tables, orderRows, orderIds,
  records, disputes, payouts, paystack, At, Begin, RequestFor, IdleRequest,
  PurchaseSteps, WebhookSteps, ConfirmSteps, ResolveSteps, OrderInv,
  SubjectInv, PurchaseInv, MoneyInv, WebhookInv, ClaimsAreBacked, Settled, Outcomes
<1>1. ASSUME NEW p \in Requests, Purchase(p) PROVE ClaimsAreBacked'
  <2>1. ASSUME NEW l \in Listings, NEW b \in Buyers, NEW o \in Orders,
               PurchaseStart(p, l, b, o)
         PROVE  ClaimsAreBacked'
    BY <2>1 DEF PurchaseStart
  <2>2. CASE PurchaseInitialize(p)
    BY <2>2 DEF PurchaseInitialize
  <2>3. CASE PurchaseFlip(p)
    BY <2>3 DEF PurchaseFlip
  <2>4. CASE PurchaseCreate(p)
    BY <2>4 DEF PurchaseCreate
  <2>5. CASE PurchaseCommit(p)
    BY <2>5 DEF PurchaseCommit
  <2> QED BY <1>1, <2>1, <2>2, <2>3, <2>4, <2>5 DEF Purchase
<1>2. ASSUME NEW p \in Requests, Webhook(p) PROVE ClaimsAreBacked'
  <2>1. ASSUME NEW o \in Orders, WebhookLookup(p, o) PROVE ClaimsAreBacked'
    BY <2>1 DEF WebhookLookup
  <2>2. CASE WebhookReserve(p)
    BY <2>2 DEF WebhookReserve, SetEvent
  <2>3. CASE WebhookRead(p)
    BY <2>3 DEF WebhookRead
  <2>4. CASE WebhookHold(p)
    BY <2>4 DEF WebhookHold
  <2>5. CASE WebhookReverse(p)
    BY <2>5 DEF WebhookReverse
  <2>6. CASE WebhookComplete(p)
    BY <2>6 DEF WebhookComplete, SetEvent
  <2>7. CASE WebhookRefuse(p)
    BY <2>7 DEF WebhookRefuse, SetEvent
  <2> QED BY <1>2, <2>1, <2>2, <2>3, <2>4, <2>5, <2>6, <2>7 DEF Webhook
<1>3. ASSUME NEW p \in Requests, Confirm(p) PROVE ClaimsAreBacked'
  <2>1. ASSUME NEW o \in Orders, ConfirmStart(p, o) PROVE ClaimsAreBacked'
    BY <2>1 DEF ConfirmStart, TxStatus, Exists
  <2>2. CASE ConfirmTransfer(p)
    BY <2>2 DEF ConfirmTransfer, Transfer
  <2>3. CASE ConfirmScan(p)
    BY <2>3 DEF ConfirmScan
  <2>4. CASE ConfirmRelease(p)
    BY <2>4 DEF ConfirmRelease, SetPayment
  <2>5. CASE ConfirmComplete(p)
    BY <2>5 DEF ConfirmComplete, SetOrder
  <2>6. CASE ConfirmCommit(p)
    BY <2>6 DEF ConfirmCommit
  <2> QED BY <1>3, <2>1, <2>2, <2>3, <2>4, <2>5, <2>6 DEF Confirm
<1>4. ASSUME NEW p \in Requests, Raise(p) PROVE ClaimsAreBacked'
  <2>1. ASSUME NEW o \in Orders, NEW d \in Disputes, RaiseStart(p, o, d)
         PROVE  ClaimsAreBacked'
    BY <2>1 DEF RaiseStart, TxStatus, Exists
  <2>2. CASE RaiseCreate(p)
    BY <2>2 DEF RaiseCreate, SetDispute
  <2> QED BY <1>4, <2>1, <2>2 DEF Raise
<1>5. ASSUME NEW p \in Requests, Resolve(p) PROVE ClaimsAreBacked'
  <2>1. ASSUME NEW d \in Disputes, NEW refund \in BOOLEAN,
               ResolveStart(p, d, refund)
         PROVE  ClaimsAreBacked'
    BY <2>1 DEF ResolveStart
  <2>2. CASE ResolveRefund(p)
    <3>1. \A o \in Orders : refunds[o] # "none" => refunds'[o] # "none"
      BY <2>2, AnswersAreStatuses DEF ResolveRefund
    <3> QED BY <2>2, <3>1 DEF ResolveRefund
  <2>3. CASE ResolveTransfer(p)
    BY <2>3 DEF ResolveTransfer, Transfer
  <2>4. CASE ResolveRecord(p)
    BY <2>4 DEF ResolveRecord, SetDispute
  <2>5. CASE ResolvePayment(p)
    BY <2>5 DEF ResolvePayment, SetPayment
  <2>6. CASE ResolveOrder(p)
    BY <2>6 DEF ResolveOrder, SetOrder
  <2>7. CASE ResolveCommit(p)
    BY <2>7 DEF ResolveCommit
  <2> QED BY <1>5, <2>1, <2>2, <2>3, <2>4, <2>5, <2>6, <2>7 DEF Resolve
<1>6. ASSUME NEW p \in Requests, Delete(p) PROVE ClaimsAreBacked'
  <2>1. ASSUME NEW l \in Listings, DeleteStart(p, l) PROVE ClaimsAreBacked'
    BY <2>1 DEF DeleteStart
  <2>2. CASE SoftDelete(p)
    BY <2>2 DEF SoftDelete
  <2> QED BY <1>6, <2>1, <2>2 DEF Delete
<1>7. ASSUME NEW p \in Requests, Fail(p) PROVE ClaimsAreBacked'
  BY <1>7 DEF Fail, SetEvent
<1>8. CASE Environment
  BY <1>8 DEF Environment, DispatchSets, Exists, SetOrder, MinutePasses,
    ChargeSettles, PayoutSettles, RefundSettles, Restart
<1>9. CASE UNCHANGED vars
  BY <1>9 DEF vars
<1> QED BY <1>1, <1>2, <1>3, <1>4, <1>5, <1>6, <1>7, <1>8, <1>9 DEF Next,
  Handle

\* Every step keeps DeliveryRecordedOnce.
LEMMA DeliveryStep ==
  ASSUME TypeOK, SubjectInv, ScanInv, DeliveryRecordedOnce, [Next]_vars
  PROVE  DeliveryRecordedOnce'
<1>0. /\ req \in [Requests -> Request]
      /\ outbox \in [EventTypes -> [Orders -> Nat]]
  BY DEF TypeOK
<1> USE DoneUpdate, GotoUpdate, <1>0 DEF tables, orderRows, orderIds,
  records, disputes, payouts, paystack, At, Begin, RequestFor, IdleRequest,
  PurchaseSteps, WebhookSteps, ConfirmSteps, ResolveSteps, SubjectInv,
  ScanInv, ScanSteps, EventTypes, DeliveryRecordedOnce
<1>1. ASSUME NEW p \in Requests, Purchase(p) PROVE DeliveryRecordedOnce'
  <2>1. ASSUME NEW l \in Listings, NEW b \in Buyers, NEW o \in Orders,
               PurchaseStart(p, l, b, o)
         PROVE  DeliveryRecordedOnce'
    BY <2>1 DEF PurchaseStart
  <2>2. CASE PurchaseInitialize(p)
    BY <2>2 DEF PurchaseInitialize
  <2>3. CASE PurchaseFlip(p)
    BY <2>3 DEF PurchaseFlip
  <2>4. CASE PurchaseCreate(p)
    BY <2>4 DEF PurchaseCreate
  <2>5. CASE PurchaseCommit(p)
    BY <2>5 DEF PurchaseCommit
  <2> QED BY <1>1, <2>1, <2>2, <2>3, <2>4, <2>5 DEF Purchase
<1>2. ASSUME NEW p \in Requests, Webhook(p) PROVE DeliveryRecordedOnce'
  <2>1. ASSUME NEW o \in Orders, WebhookLookup(p, o)
         PROVE  DeliveryRecordedOnce'
    BY <2>1 DEF WebhookLookup
  <2>2. CASE WebhookReserve(p)
    BY <2>2 DEF WebhookReserve, SetEvent
  <2>3. CASE WebhookRead(p)
    BY <2>3 DEF WebhookRead
  <2>4. CASE WebhookHold(p)
    BY <2>4 DEF WebhookHold
  <2>5. CASE WebhookReverse(p)
    BY <2>5 DEF WebhookReverse
  <2>6. CASE WebhookComplete(p)
    BY <2>6 DEF WebhookComplete, SetEvent
  <2>7. CASE WebhookRefuse(p)
    BY <2>7 DEF WebhookRefuse, SetEvent
  <2> QED BY <1>2, <2>1, <2>2, <2>3, <2>4, <2>5, <2>6, <2>7 DEF Webhook
<1>3. ASSUME NEW p \in Requests, Confirm(p) PROVE DeliveryRecordedOnce'
  <2>1. ASSUME NEW o \in Orders, ConfirmStart(p, o)
         PROVE  DeliveryRecordedOnce'
    BY <2>1 DEF ConfirmStart, TxStatus, Exists
  <2>2. CASE ConfirmTransfer(p)
    BY <2>2 DEF ConfirmTransfer, Transfer
  <2>3. CASE ConfirmScan(p)
    BY <2>3 DEF ConfirmScan
  <2>4. CASE ConfirmRelease(p)
    BY <2>4 DEF ConfirmRelease, SetPayment
  <2>5. CASE ConfirmComplete(p)
    BY <2>5 DEF ConfirmComplete, SetOrder
  <2>6. CASE ConfirmCommit(p)
    BY <2>6 DEF ConfirmCommit
  <2> QED BY <1>3, <2>1, <2>2, <2>3, <2>4, <2>5, <2>6 DEF Confirm
<1>4. ASSUME NEW p \in Requests, Raise(p) PROVE DeliveryRecordedOnce'
  <2>1. ASSUME NEW o \in Orders, NEW d \in Disputes, RaiseStart(p, o, d)
         PROVE  DeliveryRecordedOnce'
    BY <2>1 DEF RaiseStart, TxStatus, Exists
  <2>2. CASE RaiseCreate(p)
    BY <2>2 DEF RaiseCreate, SetDispute
  <2> QED BY <1>4, <2>1, <2>2 DEF Raise
<1>5. ASSUME NEW p \in Requests, Resolve(p) PROVE DeliveryRecordedOnce'
  <2>1. ASSUME NEW d \in Disputes, NEW refund \in BOOLEAN,
               ResolveStart(p, d, refund)
         PROVE  DeliveryRecordedOnce'
    BY <2>1 DEF ResolveStart
  <2>2. CASE ResolveRefund(p)
    BY <2>2 DEF ResolveRefund
  <2>3. CASE ResolveTransfer(p)
    BY <2>3 DEF ResolveTransfer, Transfer
  <2>4. CASE ResolveRecord(p)
    BY <2>4 DEF ResolveRecord, SetDispute
  <2>5. CASE ResolvePayment(p)
    BY <2>5 DEF ResolvePayment, SetPayment
  <2>6. CASE ResolveOrder(p)
    BY <2>6 DEF ResolveOrder, SetOrder
  <2>7. CASE ResolveCommit(p)
    BY <2>7 DEF ResolveCommit
  <2> QED BY <1>5, <2>1, <2>2, <2>3, <2>4, <2>5, <2>6, <2>7 DEF Resolve
<1>6. ASSUME NEW p \in Requests, Delete(p) PROVE DeliveryRecordedOnce'
  <2>1. ASSUME NEW l \in Listings, DeleteStart(p, l)
         PROVE  DeliveryRecordedOnce'
    BY <2>1 DEF DeleteStart
  <2>2. CASE SoftDelete(p)
    BY <2>2 DEF SoftDelete
  <2> QED BY <1>6, <2>1, <2>2 DEF Delete
<1>7. ASSUME NEW p \in Requests, Fail(p) PROVE DeliveryRecordedOnce'
  BY <1>7 DEF Fail, SetEvent
<1>8. CASE Environment
  BY <1>8 DEF Environment, DispatchSets, Exists, SetOrder, MinutePasses,
    ChargeSettles, PayoutSettles, RefundSettles, Restart
<1>9. CASE UNCHANGED vars
  BY <1>9 DEF vars
<1> QED BY <1>1, <1>2, <1>3, <1>4, <1>5, <1>6, <1>7, <1>8, <1>9 DEF Next,
  Handle

\* Every step keeps FailedChargeNeverHeld.
LEMMA FailedChargeStep ==
  ASSUME TypeOK, OrderInv, SubjectInv, PurchaseInv, WebhookInv,
         FailedChargeNeverHeld, [Next]_vars
  PROVE  FailedChargeNeverHeld'
<1>0. /\ req \in [Requests -> Request]
      /\ charge \in [Orders -> ChargeStatus]
      /\ payment \in [Orders -> PaymentStatus]
      /\ event \in [Orders -> {"none", "processing", "failed", "completed"}]
  BY DEF TypeOK
<1> USE DoneUpdate, GotoUpdate, <1>0 DEF tables, orderRows, orderIds,
  records, disputes, payouts, paystack, At, Begin, RequestFor, IdleRequest,
  PurchaseSteps, WebhookSteps, ConfirmSteps, ResolveSteps, OrderInv,
  SubjectInv, PurchaseInv, WebhookInv, Settled, Outcomes, FailedChargeNeverHeld
<1>1. ASSUME NEW p \in Requests, Purchase(p) PROVE FailedChargeNeverHeld'
  <2>1. ASSUME NEW l \in Listings, NEW b \in Buyers, NEW o \in Orders,
               PurchaseStart(p, l, b, o)
         PROVE  FailedChargeNeverHeld'
    BY <2>1 DEF PurchaseStart
  <2>2. CASE PurchaseInitialize(p)
    BY <2>2 DEF PurchaseInitialize
  <2>3. CASE PurchaseFlip(p)
    BY <2>3 DEF PurchaseFlip
  <2>4. CASE PurchaseCreate(p)
    BY <2>4 DEF PurchaseCreate
  <2>5. CASE PurchaseCommit(p)
    BY <2>5 DEF PurchaseCommit
  <2> QED BY <1>1, <2>1, <2>2, <2>3, <2>4, <2>5 DEF Purchase
<1>2. ASSUME NEW p \in Requests, Webhook(p) PROVE FailedChargeNeverHeld'
  <2>1. ASSUME NEW o \in Orders, WebhookLookup(p, o)
         PROVE  FailedChargeNeverHeld'
    BY <2>1 DEF WebhookLookup
  <2>2. CASE WebhookReserve(p)
    BY <2>2 DEF WebhookReserve, SetEvent
  <2>3. CASE WebhookRead(p)
    BY <2>3 DEF WebhookRead
  <2>4. CASE WebhookHold(p)
    BY <2>4 DEF WebhookHold
  <2>5. CASE WebhookReverse(p)
    BY <2>5 DEF WebhookReverse
  <2>6. CASE WebhookComplete(p)
    BY <2>6 DEF WebhookComplete, SetEvent
  <2>7. CASE WebhookRefuse(p)
    BY <2>7 DEF WebhookRefuse, SetEvent
  <2> QED BY <1>2, <2>1, <2>2, <2>3, <2>4, <2>5, <2>6, <2>7 DEF Webhook
<1>3. ASSUME NEW p \in Requests, Confirm(p) PROVE FailedChargeNeverHeld'
  <2>1. ASSUME NEW o \in Orders, ConfirmStart(p, o)
         PROVE  FailedChargeNeverHeld'
    BY <2>1 DEF ConfirmStart, TxStatus, Exists
  <2>2. CASE ConfirmTransfer(p)
    BY <2>2 DEF ConfirmTransfer, Transfer
  <2>3. CASE ConfirmScan(p)
    BY <2>3 DEF ConfirmScan
  <2>4. CASE ConfirmRelease(p)
    BY <2>4 DEF ConfirmRelease, SetPayment
  <2>5. CASE ConfirmComplete(p)
    BY <2>5 DEF ConfirmComplete, SetOrder
  <2>6. CASE ConfirmCommit(p)
    BY <2>6 DEF ConfirmCommit
  <2> QED BY <1>3, <2>1, <2>2, <2>3, <2>4, <2>5, <2>6 DEF Confirm
<1>4. ASSUME NEW p \in Requests, Raise(p) PROVE FailedChargeNeverHeld'
  <2>1. ASSUME NEW o \in Orders, NEW d \in Disputes, RaiseStart(p, o, d)
         PROVE  FailedChargeNeverHeld'
    BY <2>1 DEF RaiseStart, TxStatus, Exists
  <2>2. CASE RaiseCreate(p)
    BY <2>2 DEF RaiseCreate, SetDispute
  <2> QED BY <1>4, <2>1, <2>2 DEF Raise
<1>5. ASSUME NEW p \in Requests, Resolve(p) PROVE FailedChargeNeverHeld'
  <2>1. ASSUME NEW d \in Disputes, NEW refund \in BOOLEAN,
               ResolveStart(p, d, refund)
         PROVE  FailedChargeNeverHeld'
    BY <2>1 DEF ResolveStart
  <2>2. CASE ResolveRefund(p)
    BY <2>2 DEF ResolveRefund
  <2>3. CASE ResolveTransfer(p)
    BY <2>3 DEF ResolveTransfer, Transfer
  <2>4. CASE ResolveRecord(p)
    BY <2>4 DEF ResolveRecord, SetDispute
  <2>5. CASE ResolvePayment(p)
    BY <2>5 DEF ResolvePayment, SetPayment
  <2>6. CASE ResolveOrder(p)
    BY <2>6 DEF ResolveOrder, SetOrder
  <2>7. CASE ResolveCommit(p)
    BY <2>7 DEF ResolveCommit
  <2> QED BY <1>5, <2>1, <2>2, <2>3, <2>4, <2>5, <2>6, <2>7 DEF Resolve
<1>6. ASSUME NEW p \in Requests, Delete(p) PROVE FailedChargeNeverHeld'
  <2>1. ASSUME NEW l \in Listings, DeleteStart(p, l)
         PROVE  FailedChargeNeverHeld'
    BY <2>1 DEF DeleteStart
  <2>2. CASE SoftDelete(p)
    BY <2>2 DEF SoftDelete
  <2> QED BY <1>6, <2>1, <2>2 DEF Delete
<1>7. ASSUME NEW p \in Requests, Fail(p) PROVE FailedChargeNeverHeld'
  BY <1>7 DEF Fail, SetEvent
<1>8. CASE Environment
  BY <1>8 DEF Environment, DispatchSets, Exists, SetOrder, MinutePasses,
    ChargeSettles, PayoutSettles, RefundSettles, Restart
<1>9. CASE UNCHANGED vars
  BY <1>9 DEF vars
<1> QED BY <1>1, <1>2, <1>3, <1>4, <1>5, <1>6, <1>7, <1>8, <1>9 DEF Next,
  Handle

\* A step that writes no ORDER_PLACED event and picks no listing for an order
\* leaves the sales alone.
LEMMA SaleUnchanged ==
  ASSUME UNCHANGED <<outbox, listingOf>> PROVE sale' = sale
BY DEF sale

\* Every step is a step of Sale or leaves the listings and sales alone.
LEMMA MarketStep ==
  ASSUME TypeOK, OrderInv, SubjectInv, PurchaseInv, FlipInv, [Next]_vars
  PROVE  [Market!Next]_(Market!vars)
<1>0. /\ req \in [Requests -> Request]
      /\ listing \in [Listings -> ListingStatus]
      /\ listingOf \in [Orders -> Listings \cup {None}]
      /\ outbox \in [EventTypes -> [Orders -> Nat]]
  BY DEF TypeOK
<1> USE SaleUnchanged, <1>0, NoneIsNoIdentifier DEF tables, orderRows,
  orderIds, records, disputes, payouts, paystack, OrderInv, SubjectInv, At,
  EventTypes, Market!vars
<1>1. ASSUME NEW p \in Requests, Purchase(p) PROVE [Market!Next]_(Market!vars)
  <2>1. ASSUME NEW l \in Listings, NEW b \in Buyers, NEW o \in Orders,
               PurchaseStart(p, l, b, o)
        PROVE  [Market!Next]_(Market!vars)
    <3>1. \A x \in Orders : sale'[x] = sale[x]
      BY <2>1 DEF PurchaseStart, sale
    <3>2. sale' = sale
      BY <3>1 DEF sale
    <3> QED BY <2>1, <3>2 DEF PurchaseStart
  <2>2. CASE PurchaseInitialize(p)
    BY <2>2 DEF PurchaseInitialize
  <2>3. CASE PurchaseFlip(p)
    BY <2>3 DEF PurchaseFlip
  <2>4. CASE PurchaseCreate(p)
    BY <2>4 DEF PurchaseCreate
  <2>5. CASE PurchaseCommit(p)
    <3> DEFINE o == req[p].order
    <3>1. o \in Orders /\ listingOf[o] \in Listings
      BY <2>5 DEF PurchaseCommit, PurchaseSteps
    <3>2. listing[listingOf[o]] = "active" /\ sale[o] = None
      BY <2>5, <3>1 DEF PurchaseCommit, PurchaseInv, PurchaseSteps, FlipInv,
        FlippedSteps, sale
    <3>3. listing' = [listing EXCEPT ![listingOf[o]] = "sold"]
      BY <2>5 DEF PurchaseCommit
    <3>4. sale' = [sale EXCEPT ![o] = listingOf[o]]
      <4>1. /\ listingOf' = listingOf
            /\ outbox' = [outbox EXCEPT !["ORDER_PLACED"][o] = @ + 1]
        BY <2>5 DEF PurchaseCommit
      <4>2. outbox'["ORDER_PLACED"] =
              [outbox["ORDER_PLACED"] EXCEPT ![o] = @ + 1]
        BY <4>1, <3>1
      <4>3. \A x \in Orders :
              sale'[x] = IF x = o THEN listingOf[o] ELSE sale[x]
        BY <4>1, <4>2, <3>1 DEF sale
      <4> QED BY <4>3, <3>1 DEF sale
    <3>5. Market!Sell(o, listingOf[o])
      BY <3>1, <3>2, <3>3, <3>4 DEF Market!Sell
    <3> QED BY <3>1, <3>5 DEF Market!Next
  <2> QED BY <1>1, <2>1, <2>2, <2>3, <2>4, <2>5 DEF Purchase
<1>2. ASSUME NEW p \in Requests, Webhook(p) PROVE [Market!Next]_(Market!vars)
  <2>1. ASSUME NEW o \in Orders,
               WebhookLookup(p, o)
        PROVE  [Market!Next]_(Market!vars)
    BY <2>1 DEF WebhookLookup
  <2>2. CASE WebhookReserve(p)
    BY <2>2 DEF WebhookReserve, SetEvent
  <2>3. CASE WebhookRead(p)
    BY <2>3 DEF WebhookRead
  <2>4. CASE WebhookHold(p)
    BY <2>4 DEF WebhookHold
  <2>5. CASE WebhookReverse(p)
    <3>1. Market!Relist(listingOf[req[p].order])
      BY <2>5 DEF WebhookReverse, Market!Relist
    <3> QED BY <2>5, <3>1 DEF WebhookReverse, Market!Next
  <2>6. CASE WebhookComplete(p)
    BY <2>6 DEF WebhookComplete, SetEvent
  <2>7. CASE WebhookRefuse(p)
    BY <2>7 DEF WebhookRefuse, SetEvent
  <2> QED BY <1>2, <2>1, <2>2, <2>3, <2>4, <2>5, <2>6, <2>7 DEF Webhook
<1>3. ASSUME NEW p \in Requests, Confirm(p) PROVE [Market!Next]_(Market!vars)
  <2>1. ASSUME NEW o \in Orders,
               ConfirmStart(p, o)
        PROVE  [Market!Next]_(Market!vars)
    BY <2>1 DEF ConfirmStart, TxStatus, Exists
  <2>2. CASE ConfirmTransfer(p)
    BY <2>2 DEF ConfirmTransfer, Transfer
  <2>3. CASE ConfirmScan(p)
    BY <2>3 DEF ConfirmScan
  <2>4. CASE ConfirmRelease(p)
    BY <2>4 DEF ConfirmRelease, SetPayment
  <2>5. CASE ConfirmComplete(p)
    BY <2>5 DEF ConfirmComplete, SetOrder
  <2>6. CASE ConfirmCommit(p)
    <3>1. /\ outbox'["ORDER_PLACED"] = outbox["ORDER_PLACED"]
          /\ UNCHANGED <<listing, listingOf>>
      BY <2>6 DEF ConfirmCommit
    <3>2. sale' = sale
      BY <3>1 DEF sale
    <3> QED BY <3>1, <3>2
  <2> QED BY <1>3, <2>1, <2>2, <2>3, <2>4, <2>5, <2>6 DEF Confirm
<1>4. ASSUME NEW p \in Requests, Raise(p) PROVE [Market!Next]_(Market!vars)
  <2>1. ASSUME NEW o \in Orders, NEW d \in Disputes, RaiseStart(p, o, d)
         PROVE  [Market!Next]_(Market!vars)
    BY <2>1 DEF RaiseStart, TxStatus, Exists
  <2>2. CASE RaiseCreate(p)
    BY <2>2 DEF RaiseCreate, SetDispute
  <2> QED BY <1>4, <2>1, <2>2 DEF Raise
<1>5. ASSUME NEW p \in Requests, Resolve(p) PROVE [Market!Next]_(Market!vars)
  <2>1. ASSUME NEW d \in Disputes, NEW refund \in BOOLEAN,
               ResolveStart(p, d, refund)
         PROVE  [Market!Next]_(Market!vars)
    BY <2>1 DEF ResolveStart
  <2>2. CASE ResolveRefund(p)
    BY <2>2 DEF ResolveRefund
  <2>3. CASE ResolveTransfer(p)
    BY <2>3 DEF ResolveTransfer, Transfer
  <2>4. CASE ResolveRecord(p)
    BY <2>4 DEF ResolveRecord, SetDispute
  <2>5. CASE ResolvePayment(p)
    BY <2>5 DEF ResolvePayment, SetPayment
  <2>6. CASE ResolveOrder(p)
    BY <2>6 DEF ResolveOrder, SetOrder
  <2>7. CASE ResolveCommit(p)
    <3>1. CASE req[p].refund
      <4>1. Market!Relist(listingOf[req[p].order])
        BY <2>7, <3>1 DEF ResolveCommit, Market!Relist
      <4> QED BY <2>7, <4>1 DEF ResolveCommit, Market!Next
    <3>2. CASE ~req[p].refund
      BY <2>7, <3>2 DEF ResolveCommit
    <3> QED BY <3>1, <3>2
  <2> QED BY <1>5, <2>1, <2>2, <2>3, <2>4, <2>5, <2>6, <2>7 DEF Resolve
<1>6. ASSUME NEW p \in Requests, Delete(p) PROVE [Market!Next]_(Market!vars)
  <2>1. ASSUME NEW l \in Listings,
               DeleteStart(p, l)
        PROVE  [Market!Next]_(Market!vars)
    BY <2>1 DEF DeleteStart
  <2>2. CASE SoftDelete(p)
    <3>1. Market!Withdraw(req[p].listing)
      BY <2>2 DEF SoftDelete, Market!Withdraw
    <3> QED BY <2>2, <3>1 DEF SoftDelete, Market!Next
  <2> QED BY <1>6, <2>1, <2>2 DEF Delete
<1>7. ASSUME NEW p \in Requests, Fail(p) PROVE [Market!Next]_(Market!vars)
  BY <1>7 DEF Fail, SetEvent
<1>8. CASE Environment
  BY <1>8 DEF Environment, DispatchSets, Exists, SetOrder, MinutePasses,
    ChargeSettles, PayoutSettles, RefundSettles, Restart
<1>9. CASE UNCHANGED vars
  BY <1>9 DEF vars
<1> QED BY <1>1, <1>2, <1>3, <1>4, <1>5, <1>6, <1>7, <1>8, <1>9 DEF Next,
  Handle

-----------------------------------------------------------------------------
LEMMA InitInv == Init => TypeOK /\ Inv
<1> SUFFICES ASSUME Init PROVE TypeOK /\ Inv
  OBVIOUS
<1>1. \A p \in Requests : req[p] = IdleRequest
  BY DEF Init
<1>2. TypeOK
  BY RequestTypes DEF Init, TypeOK, ListingStatus, OrderStatus, PaymentStatus,
    ChargeStatus, RefundStatus
<1>3. OrderInv /\ DisputeInv
  BY DEF Init, OrderInv, DisputeInv, Settled, Outcomes, EventTypes
<1>4. /\ SubjectInv /\ PurchaseInv /\ FlipInv /\ ScanInv /\ MoneyInv
      /\ WebhookInv
  BY <1>1 DEF IdleRequest, SubjectInv, PurchaseInv, FlipInv, ScanInv,
    MoneyInv, WebhookInv, FlippedSteps, ScanSteps, PurchaseSteps,
    WebhookSteps, ConfirmSteps, ResolveSteps
<1>5. ResolveInv /\ SoldInv
  BY <1>1 DEF Init, IdleRequest, ResolveInv, SoldInv, ResolveSteps
<1> QED BY <1>2, <1>3, <1>4, <1>5 DEF Inv

\* The inductive invariant: in every reachable state, for any number of
\* listings, orders, disputes and concurrent requests.
THEOREM Invariance == Spec => [](TypeOK /\ Inv)
<1>1. ASSUME TypeOK, Inv, [Next]_vars PROVE TypeOK' /\ Inv'
  BY <1>1, TypeStep, SubjectStep, OrderStep, DisputeStep, PurchaseStep,
    FlipStep, ScanStep, MoneyStep, WebhookStep, ResolveStep, SoldStep DEF Inv
<1> QED BY <1>1, InitInv, PTL DEF Spec

\* The variables of Escrow keep their types.
THEOREM TypeCorrect == Spec => []TypeOK
BY Invariance, PTL

\* Whatever requests overlap or fail, and wherever: an order is released,
\* completed or scanned only with a payout behind it, and refunded or
\* cancelled only with a refund or a declined charge behind it.
THEOREM MoneyIsReal == Spec => []ClaimsAreBacked
<1>1. Init => ClaimsAreBacked
  BY DEF Init, ClaimsAreBacked
<1>2. ASSUME TypeOK, Inv, ClaimsAreBacked, [Next]_vars
      PROVE  ClaimsAreBacked'
  BY <1>2, ClaimsStep DEF Inv
<1> QED BY <1>1, <1>2, Invariance, PTL DEF Spec

\* However many confirmations of an order race or are retried, its delivery
\* is recorded in the outbox exactly when it is in qr_scans, and once.
THEOREM DeliveryIsRecordedOnce == Spec => []DeliveryRecordedOnce
<1>1. Init => DeliveryRecordedOnce
  BY DEF Init, DeliveryRecordedOnce, EventTypes
<1>2. ASSUME TypeOK, Inv, DeliveryRecordedOnce, [Next]_vars
      PROVE  DeliveryRecordedOnce'
  BY <1>2, DeliveryStep DEF Inv
<1> QED BY <1>1, <1>2, Invariance, PTL DEF Spec

\* A declined charge whose webhook is marked completed leaves no order that
\* claims to hold the buyer's money, whatever deliveries overlapped.
THEOREM FailedChargeIsReversed == Spec => []FailedChargeNeverHeld
<1>1. Init => FailedChargeNeverHeld
  BY DEF Init, FailedChargeNeverHeld
<1>2. ASSUME TypeOK, Inv, FailedChargeNeverHeld, [Next]_vars
      PROVE  FailedChargeNeverHeld'
  BY <1>2, FailedChargeStep DEF Inv
<1> QED BY <1>1, <1>2, Invariance, PTL DEF Spec

\* As long as no dispute has been resolved, every sold listing has an order
\* that was not cancelled, whatever purchases, reversals, confirmations and
\* deletions overlap or fail.
THEOREM SoldIsAccountedFor ==
  Spec => []((\A d \in Disputes : dispute[d] # "resolved") => SoldListingHasOrder)
<1>1. ASSUME TypeOK, Inv, \A d \in Disputes : dispute[d] # "resolved"
      PROVE  SoldListingHasOrder
  <2> SUFFICES ASSUME NEW l \in Listings, listing[l] = "sold"
               PROVE  \E o \in Orders : listingOf[o] = l /\ Live(o)
    BY DEF SoldListingHasOrder
  <2>1. PICK o \in Orders : listingOf[o] = l /\ Accounted(o)
    BY <1>1 DEF Inv, SoldInv
  <2>2. orderStatus[o] \notin {"none", "cancelled"} /\ payment[o] # "refunded"
    BY <1>1, <2>1 DEF Accounted, Disputed
  <2>3. Live(o)
    BY <2>2 DEF Live, Exists, TxStatus
  <2> QED BY <2>1, <2>3
<1> QED BY <1>1, Invariance, PTL

\* The interleaved statements of purchases, reversals, refunds and deletions
\* implement the atomic sales of module Sale.
THEOREM Refinement == Spec => ImplementsSale
<1>1. Init => Market!Init
  BY DEF Init, Market!Init, sale, EventTypes
<1>2. ASSUME TypeOK, Inv, [Next]_vars
      PROVE  [Market!Next]_(Market!vars)
  BY <1>2, MarketStep DEF Inv
<1> QED BY <1>1, <1>2, Invariance, PTL DEF Spec, ImplementsSale, Market!Spec
=============================================================================

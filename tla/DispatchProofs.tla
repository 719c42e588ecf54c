--------------------------- MODULE DispatchProofs ---------------------------
(***************************************************************************)
(* Proofs of the safety properties of module Dispatch, for any orders,     *)
(* drivers, handlers, workers and bounds.                                  *)
(***************************************************************************)
EXTENDS Dispatch, FiniteSetTheorems, TLAPS

MakeSteps   == {"find", "count", "create"}
TargetSteps == AcceptSteps \cup {"decline", "complete", "free"}
RowSteps    == {"lapse", "read", "overwrite"}
DutySteps   == ExhaustSteps \cup {"overwrite", "next"}

\* A handler knows its order, which was placed; the offer it answers was made.
Subject(p) ==
  /\ proc[p].pc \notin WorkerSteps \cup {"idle"} => proc[p].order \in Orders
  /\ proc[p].pc \in MakeSteps => orderStatus[proc[p].order] # "none"
  /\ proc[p].pc \in {"count", "create"} => proc[p].todo # {}
  /\ proc[p].pc = "create" => proc[p].slot \in Slots
  /\ proc[p].pc \in TargetSteps =>
       proc[p].slot \in Slots /\ offer[proc[p].order][proc[p].slot] # "none"
  /\ proc[p].pc \in RowSteps => \A r \in proc[p].rows : offer[r[1]][r[2]] # "none"

SubjectInv == \A p \in Processes : Subject(p)

\* Only workers have a list of orders, and only while they go through it.
WorkInv ==
  \A p \in Processes :
    p \notin Workers \/ proc[p].pc \notin DutySteps => proc[p].orders = {}

\* An offer that was made is some driver's.
OfferInv ==
  \A o \in Orders, n \in Slots : offer[o][n] # "none" => driverOf[o][n] \in Drivers

\* The offers process p has still to make for order o.
ToMake(p, o) ==
  IF proc[p].order # o THEN {}
  ELSE IF proc[p].pc = "find" THEN Drivers
  ELSE IF proc[p].pc \in {"count", "create"} THEN proc[p].todo
  ELSE {}

Unmade(o) == {x \in Processes \X Drivers : x[2] \in ToMake(x[1], o)}

\* The offers made and to be made are one to each driver and the manual ones.
Counted(o) ==
  /\ IsFiniteSet(Unmade(o))
  /\ orderStatus[o] = "none" => Offers(o) = {} /\ Unmade(o) = {}
  /\ Cardinality(Offers(o)) + Cardinality(Unmade(o)) <= Cardinality(Drivers) + manuals

CountInv == \A o \in Orders : Counted(o)

\* The offers that p has locked are open, and no other process has locked them.
Holds(p, o, n) ==
  \/ At(p, "claimed") /\ proc[p].order = o /\ proc[p].slot = n
  \/ At(p, "lapse") /\ <<o, n>> \in proc[p].rows

LockInv ==
  \A p \in Processes, o \in Orders, n \in Slots :
    Holds(p, o, n) =>
      /\ offer[o][n] = "notified"
      /\ \A q \in Processes : Holds(q, o, n) => q = p

Accepted(o)  == {n \in Slots : offer[o][n] = "accepted"}
Undisturbed(o) == past[o] \subseteq {"claimed"}

\* While nothing has disturbed the claims of an order, there is one uncommitted
\* claim and no driver, or no claim and the driver of the one that committed.
ClaimInv ==
  \A o \in Orders : Undisturbed(o) =>
    /\ "claimed" \notin past[o] => Accepted(o) = {}
    /\ "claimed" \in past[o] => \E n \in Slots : Accepted(o) = {n}
    /\ \A p \in Processes : At(p, "claimed") /\ proc[p].order = o =>
         /\ "claimed" \notin past[o]
         /\ \A q \in Processes : At(q, "claimed") /\ proc[q].order = o => q = p

\* A driver goes on after his claim has committed.
ClaimedInv ==
  \A p \in Processes :
    proc[p].pc \in {"expire", "offline", "assign"} => "claimed" \in past[proc[p].order]

\* Process p will still count the live offers of o, or alert the admins.
OnDuty(p, o) ==
  \/ proc[p].pc \in ExhaustSteps /\ proc[p].order = o
  \/ o \in proc[p].orders

AlertInv ==
  \A o \in Orders :
    /\ "claimed" \notin past[o] /\ failures = 0
    /\ Offers(o) # {} /\ LiveOffers(o) = {} /\ alerts[o] = 0
    => \E p \in Processes : OnDuty(p, o)

IInv ==
  /\ TypeOK
  /\ SubjectInv
  /\ WorkInv
  /\ OfferInv
  /\ CountInv
  /\ LockInv
  /\ ClaimInv
  /\ ClaimedInv
  /\ AlertInv
-----------------------------------------------------------------------------
(* Processes                                                               *)

\* What a step makes of process p; it leaves the others alone.
Becomes(p, pc, order, slot, todo, its_rows, its_orders) ==
  /\ proc' \in [Processes -> Process]
  /\ \A q \in Processes \ {p} : proc'[q] = proc[q]
  /\ proc'[p].pc = pc
  /\ proc'[p].order = order
  /\ proc'[p].slot = slot
  /\ proc'[p].todo = todo
  /\ proc'[p].rows = its_rows
  /\ proc'[p].orders = its_orders

\* The types of the fields of a process.
LEMMA ProcessTypes ==
  ASSUME TypeOK, NEW p \in Processes
  PROVE  /\ proc \in [Processes -> Process]
         /\ proc[p].pc \in Steps
         /\ proc[p].order \in Orders \cup {None}
         /\ proc[p].slot \in Slots \cup {0}
         /\ proc[p].todo \in SUBSET Drivers
         /\ proc[p].rows \in SUBSET Rows
         /\ proc[p].orders \in SUBSET Orders
<1>1. proc \in [Processes -> Process]
  BY DEF TypeOK
<1>2. proc[p] \in Process
  BY <1>1
<1>3. QED
  BY <1>1, <1>2 DEF Process

\* A process is set to a record.
LEMMA ChangeProc ==
  ASSUME TypeOK, NEW p \in Processes, NEW r \in Process,
         proc' = [proc EXCEPT ![p] = r]
  PROVE  Becomes(p, r.pc, r.order, r.slot, r.todo, r.rows, r.orders)
BY ProcessTypes DEF Becomes

\* The ends of handlers and single statements, as Becomes.
LEMMA DoneProc ==
  ASSUME TypeOK, NEW p \in Processes, Done(p)
  PROVE  Becomes(p, "idle", None, 0, {}, {}, {})
<1>1. Idle \in Process
  BY DEF Idle, Process, Steps
<1>2. QED
  BY <1>1, ChangeProc DEF Done, Idle

LEMMA GotoProc ==
  ASSUME TypeOK, NEW p \in Processes, NEW s \in Steps, Goto(p, s)
  PROVE  Becomes(p, s, proc[p].order, proc[p].slot, proc[p].todo, proc[p].rows,
                 proc[p].orders)
<1> DEFINE r == [proc[p] EXCEPT !.pc = s]
<1>1. proc[p] \in Process
  BY DEF TypeOK
<1>2. r \in Process
  BY <1>1 DEF Process
<1>3. proc' = [proc EXCEPT ![p] = r]
  BY DEF Goto
<1>4. Becomes(p, r.pc, r.order, r.slot, r.todo, r.rows, r.orders)
  BY <1>2, <1>3, ChangeProc
<1>5. QED
  BY <1>1, <1>4 DEF Process

LEMMA ReturnProc ==
  ASSUME TypeOK, NEW p \in Processes, Return(p)
  PROVE  \/ /\ p \in Workers
            /\ Becomes(p, "next", proc[p].order, proc[p].slot, proc[p].todo,
                       proc[p].rows, proc[p].orders)
         \/ p \notin Workers /\ Becomes(p, "idle", None, 0, {}, {}, {})
BY DoneProc, GotoProc DEF Return, Steps, WorkerSteps

\* The first steps of requests and of worker runs.
LEMMA BeginProc ==
  ASSUME TypeOK, NEW p \in Processes, NEW s \in Steps, NEW o \in Orders,
         Begin(p, [Idle EXCEPT !.pc = s, !.order = o])
  PROVE  Becomes(p, s, o, 0, {}, {}, {})
<1> DEFINE r == [Idle EXCEPT !.pc = s, !.order = o]
<1>1. r \in Process
  BY DEF Idle, Process
<1>2. Becomes(p, r.pc, r.order, r.slot, r.todo, r.rows, r.orders)
  BY <1>1, ChangeProc DEF Begin
<1>3. QED
  BY <1>2 DEF Idle

LEMMA BeginOffer ==
  ASSUME TypeOK, NEW p \in Processes, NEW s \in Steps, NEW o \in Orders, NEW n \in Slots,
         Begin(p, [Idle EXCEPT !.pc = s, !.order = o, !.slot = n])
  PROVE  Becomes(p, s, o, n, {}, {}, {})
<1> DEFINE r == [Idle EXCEPT !.pc = s, !.order = o, !.slot = n]
<1>1. r \in Process
  BY DEF Idle, Process
<1>2. Becomes(p, r.pc, r.order, r.slot, r.todo, r.rows, r.orders)
  BY <1>1, ChangeProc DEF Begin
<1>3. QED
  BY <1>2 DEF Idle

LEMMA BeginManual ==
  ASSUME TypeOK, NEW p \in Processes, NEW o \in Orders, NEW d \in Drivers,
         Begin(p, [Idle EXCEPT !.pc = "count", !.order = o, !.todo = {d}])
  PROVE  Becomes(p, "count", o, 0, {d}, {}, {})
<1> DEFINE r == [Idle EXCEPT !.pc = "count", !.order = o, !.todo = {d}]
<1>1. r \in Process
  BY DEF Idle, Process, Steps, CreateSteps
<1>2. Becomes(p, r.pc, r.order, r.slot, r.todo, r.rows, r.orders)
  BY <1>1, ChangeProc DEF Begin
<1>3. QED
  BY <1>2 DEF Idle

LEMMA BeginRun ==
  ASSUME TypeOK, NEW p \in Processes, NEW s \in Steps, NEW R \in SUBSET Rows,
         Begin(p, [Idle EXCEPT !.pc = s, !.rows = R])
  PROVE  Becomes(p, s, None, 0, {}, R, {})
<1> DEFINE r == [Idle EXCEPT !.pc = s, !.rows = R]
<1>1. r \in Process
  BY DEF Idle, Process
<1>2. Becomes(p, r.pc, r.order, r.slot, r.todo, r.rows, r.orders)
  BY <1>1, ChangeProc DEF Begin
<1>3. QED
  BY <1>2 DEF Idle

\* The steps that change more than the statement a process has come to.
LEMMA FindProc ==
  ASSUME TypeOK, NEW p \in Processes, NEW s \in Steps, NEW D \in SUBSET Drivers,
         proc' = [proc EXCEPT ![p].pc = s, ![p].todo = D]
  PROVE  Becomes(p, s, proc[p].order, proc[p].slot, D, proc[p].rows, proc[p].orders)
<1> DEFINE r == [proc[p] EXCEPT !.pc = s, !.todo = D]
<1>1. proc[p] \in Process
  BY DEF TypeOK
<1>2. r \in Process
  BY <1>1 DEF Process
<1>3. proc' = [proc EXCEPT ![p] = r]
  OBVIOUS
<1>4. Becomes(p, r.pc, r.order, r.slot, r.todo, r.rows, r.orders)
  BY <1>2, <1>3, ChangeProc
<1>5. QED
  BY <1>1, <1>4 DEF Process

LEMMA SlotProc ==
  ASSUME TypeOK, NEW p \in Processes, NEW s \in Steps, NEW n \in Slots,
         proc' = [proc EXCEPT ![p].pc = s, ![p].slot = n]
  PROVE  Becomes(p, s, proc[p].order, n, proc[p].todo, proc[p].rows, proc[p].orders)
<1> DEFINE r == [proc[p] EXCEPT !.pc = s, !.slot = n]
<1>1. proc[p] \in Process
  BY DEF TypeOK
<1>2. r \in Process
  BY <1>1 DEF Process
<1>3. proc' = [proc EXCEPT ![p] = r]
  OBVIOUS
<1>4. Becomes(p, r.pc, r.order, r.slot, r.todo, r.rows, r.orders)
  BY <1>2, <1>3, ChangeProc
<1>5. QED
  BY <1>1, <1>4 DEF Process

LEMMA TodoProc ==
  ASSUME TypeOK, NEW p \in Processes, NEW s \in Steps, NEW d \in Drivers,
         proc' = [proc EXCEPT ![p].pc = s, ![p].todo = @ \ {d}]
  PROVE  Becomes(p, s, proc[p].order, proc[p].slot, proc[p].todo \ {d}, proc[p].rows,
                 proc[p].orders)
<1> DEFINE r == [proc[p] EXCEPT !.pc = s, !.todo = @ \ {d}]
<1>1. proc[p] \in Process
  BY DEF TypeOK
<1>2. r \in Process
  BY <1>1 DEF Process
<1>3. proc' = [proc EXCEPT ![p] = r]
  OBVIOUS
<1>4. Becomes(p, r.pc, r.order, r.slot, r.todo, r.rows, r.orders)
  BY <1>2, <1>3, ChangeProc
<1>5. QED
  BY <1>1, <1>4 DEF Process

LEMMA LapseProc ==
  ASSUME TypeOK, NEW p \in Processes, NEW s \in Steps, NEW O \in SUBSET Orders,
         proc' = [proc EXCEPT ![p].pc = s, ![p].rows = {}, ![p].orders = O]
  PROVE  Becomes(p, s, proc[p].order, proc[p].slot, proc[p].todo, {}, O)
<1> DEFINE r == [proc[p] EXCEPT !.pc = s, !.rows = {}, !.orders = O]
<1>1. proc[p] \in Process
  BY DEF TypeOK
<1>2. r \in Process
  BY <1>1 DEF Process
<1>3. proc' = [proc EXCEPT ![p] = r]
  OBVIOUS
<1>4. Becomes(p, r.pc, r.order, r.slot, r.todo, r.rows, r.orders)
  BY <1>2, <1>3, ChangeProc
<1>5. QED
  BY <1>1, <1>4 DEF Process

LEMMA ReadProc ==
  ASSUME TypeOK, NEW p \in Processes, NEW s \in Steps, NEW R \in SUBSET Rows,
         proc' = [proc EXCEPT ![p].pc = s, ![p].rows = R]
  PROVE  Becomes(p, s, proc[p].order, proc[p].slot, proc[p].todo, R, proc[p].orders)
<1> DEFINE r == [proc[p] EXCEPT !.pc = s, !.rows = R]
<1>1. proc[p] \in Process
  BY DEF TypeOK
<1>2. r \in Process
  BY <1>1 DEF Process
<1>3. proc' = [proc EXCEPT ![p] = r]
  OBVIOUS
<1>4. Becomes(p, r.pc, r.order, r.slot, r.todo, r.rows, r.orders)
  BY <1>2, <1>3, ChangeProc
<1>5. QED
  BY <1>1, <1>4 DEF Process

LEMMA OverwriteProc ==
  ASSUME TypeOK, NEW p \in Processes, NEW s \in Steps, NEW x, NEW o \in Orders,
         proc' = [proc EXCEPT ![p].rows = @ \ {x}, ![p].orders = @ \cup {o}, ![p].pc = s]
  PROVE  Becomes(p, s, proc[p].order, proc[p].slot, proc[p].todo, proc[p].rows \ {x},
                 proc[p].orders \cup {o})
<1> DEFINE r == [proc[p] EXCEPT !.rows = @ \ {x}, !.orders = @ \cup {o}, !.pc = s]
<1>1. proc[p] \in Process
  BY DEF TypeOK
<1>2. r \in Process
  BY <1>1 DEF Process
<1>3. proc' = [proc EXCEPT ![p] = r]
  OBVIOUS
<1>4. Becomes(p, r.pc, r.order, r.slot, r.todo, r.rows, r.orders)
  BY <1>2, <1>3, ChangeProc
<1>5. QED
  BY <1>1, <1>4 DEF Process

LEMMA NextProc ==
  ASSUME TypeOK, NEW p \in Processes, NEW s \in Steps, NEW o \in Orders,
         proc' = [proc EXCEPT ![p].pc = s, ![p].order = o, ![p].orders = @ \ {o}]
  PROVE  Becomes(p, s, o, proc[p].slot, proc[p].todo, proc[p].rows, proc[p].orders \ {o})
<1> DEFINE r == [proc[p] EXCEPT !.pc = s, !.order = o, !.orders = @ \ {o}]
<1>1. proc[p] \in Process
  BY DEF TypeOK
<1>2. r \in Process
  BY <1>1 DEF Process
<1>3. proc' = [proc EXCEPT ![p] = r]
  OBVIOUS
<1>4. Becomes(p, r.pc, r.order, r.slot, r.todo, r.rows, r.orders)
  BY <1>2, <1>3, ChangeProc
<1>5. QED
  BY <1>1, <1>4 DEF Process

-----------------------------------------------------------------------------
(* What the actions make of their processes                                *)

Ends(p) == Becomes(p, "idle", None, 0, {}, {}, {})

Goes(p, s) ==
  Becomes(p, s, proc[p].order, proc[p].slot, proc[p].todo, proc[p].rows, proc[p].orders)

Returns(p) == (p \in Workers /\ Goes(p, "next")) \/ (p \notin Workers /\ Ends(p))

\* The numbers of offers are positive integers.
LEMMA SlotsAreNat == Cardinality(Drivers) \in Nat /\ Slots \subseteq Nat \ {0}
BY DriversAreFinite, BoundsAreNat, FS_CardinalityType DEF Slots

\* The offers of an order can be counted.
LEMMA OffersAreFinite ==
  ASSUME NEW o \in Orders
  PROVE  IsFiniteSet(Offers(o)) /\ Cardinality(Offers(o)) \in Nat
<1>1. IsFiniteSet(Slots)
  BY SlotsAreNat, BoundsAreNat, FS_Interval DEF Slots
<1>2. Offers(o) \in SUBSET Slots
  BY DEF Offers
<1>3. QED
  BY <1>1, <1>2, FS_Subset, FS_CardinalityType

\* The number counted for the next offer is one of those there are.
LEMMA SlotInRange ==
  ASSUME TypeOK, SubjectInv, CountInv, NEW p \in Processes, At(p, "count")
  PROVE  Cardinality(Offers(proc[p].order)) + 1 \in Slots
<1> DEFINE o == proc[p].order
<1>1. o \in Orders /\ proc[p].todo # {} /\ proc[p].todo \subseteq Drivers
  BY ProcessTypes DEF SubjectInv, Subject, At, WorkerSteps
<1>2. PICK d \in Drivers : d \in proc[p].todo
  BY <1>1
<1>3. <<p, d>> \in Unmade(o)
  BY <1>1, <1>2 DEF Unmade, ToMake, At
<1>4. IsFiniteSet(Unmade(o)) /\ Cardinality(Unmade(o)) \in Nat /\ Cardinality(Unmade(o)) # 0
  BY <1>1, <1>3, FS_EmptySet, FS_CardinalityType DEF CountInv, Counted
<1>5. Cardinality(Offers(o)) + Cardinality(Unmade(o)) <= Cardinality(Drivers) + manuals
  BY <1>1 DEF CountInv, Counted
<1>6. manuals \in Nat /\ manuals <= MaxManual
  BY BoundsAreNat DEF TypeOK
<1>7. Cardinality(Offers(o)) + 1 \in 1 .. (Cardinality(Drivers) + MaxManual)
  BY <1>1, <1>4, <1>5, <1>6, OffersAreFinite, SlotsAreNat, BoundsAreNat
<1>8. QED
  BY <1>7 DEF Slots

\* The steps of assignDriver and manualAssignDriver.
LEMMA AssignProc ==
  ASSUME TypeOK, SubjectInv, CountInv, NEW p \in Processes
  PROVE  /\ \A o \in Orders : Place(p, o) => Becomes(p, "find", o, 0, {}, {}, {})
         /\ FindDrivers(p) =>
              \/ Ends(p)
              \/ /\ available # {}
                 /\ Becomes(p, "count", proc[p].order, proc[p].slot, available,
                            proc[p].rows, proc[p].orders)
         /\ \A o \in Orders, d \in Drivers :
              ManualAssign(p, o, d) => Becomes(p, "count", o, 0, {d}, {}, {})
         /\ CountOffers(p) =>
              Becomes(p, "create", proc[p].order, Cardinality(Offers(proc[p].order)) + 1,
                      proc[p].todo, proc[p].rows, proc[p].orders)
         /\ \A d \in Drivers : CreateOffer(p, d) =>
              \/ Ends(p) /\ (offer[proc[p].order][proc[p].slot] = "none" => proc[p].todo = {d})
              \/ /\ offer[proc[p].order][proc[p].slot] = "none"
                 /\ proc[p].todo # {d} /\ d \in proc[p].todo
                 /\ Becomes(p, "count", proc[p].order, proc[p].slot, proc[p].todo \ {d},
                            proc[p].rows, proc[p].orders)
<1>1. \A o \in Orders : Place(p, o) => Becomes(p, "find", o, 0, {}, {}, {})
  BY BeginProc DEF Place, Steps, CreateSteps
<1>2. ASSUME FindDrivers(p), available # {}
      PROVE  Becomes(p, "count", proc[p].order, proc[p].slot, available,
                     proc[p].rows, proc[p].orders)
  <2>1. proc' = [proc EXCEPT ![p].pc = "count", ![p].todo = available]
    BY <1>2 DEF FindDrivers
  <2>2. QED
    BY <2>1, FindProc DEF TypeOK, Steps, CreateSteps
<1>3. FindDrivers(p) /\ available = {} => Ends(p)
  BY DoneProc DEF FindDrivers, Ends
<1>4. \A o \in Orders, d \in Drivers :
        ManualAssign(p, o, d) => Becomes(p, "count", o, 0, {d}, {}, {})
  BY BeginManual DEF ManualAssign
<1>5. ASSUME CountOffers(p)
      PROVE  Becomes(p, "create", proc[p].order, Cardinality(Offers(proc[p].order)) + 1,
                     proc[p].todo, proc[p].rows, proc[p].orders)
  <2> DEFINE n == Cardinality(Offers(proc[p].order)) + 1
  <2>1. proc' = [proc EXCEPT ![p].pc = "create", ![p].slot = n]
    BY <1>5 DEF CountOffers
  <2>2. n \in Slots
    BY <1>5, SlotInRange DEF CountOffers
  <2> HIDE DEF n
  <2>3. Becomes(p, "create", proc[p].order, n, proc[p].todo, proc[p].rows, proc[p].orders)
    BY <2>1, <2>2, SlotProc DEF Steps, CreateSteps
  <2>4. QED
    BY <2>3 DEF n
<1>6. ASSUME NEW d \in Drivers, CreateOffer(p, d)
      PROVE  \/ Ends(p) /\ (offer[proc[p].order][proc[p].slot] = "none" => proc[p].todo = {d})
             \/ /\ offer[proc[p].order][proc[p].slot] = "none"
                /\ proc[p].todo # {d} /\ d \in proc[p].todo
                /\ Becomes(p, "count", proc[p].order, proc[p].slot, proc[p].todo \ {d},
                           proc[p].rows, proc[p].orders)
  <2>1. CASE Done(p) /\ (offer[proc[p].order][proc[p].slot] = "none" => proc[p].todo = {d})
    BY <2>1, DoneProc DEF Ends
  <2>2. CASE /\ offer[proc[p].order][proc[p].slot] = "none"
             /\ proc[p].todo # {d} /\ d \in proc[p].todo
             /\ proc' = [proc EXCEPT ![p].pc = "count", ![p].todo = @ \ {d}]
    BY <2>2, TodoProc DEF Steps, CreateSteps
  <2>3. QED
    BY <1>6, <2>1, <2>2 DEF CreateOffer
<1>7. QED
  BY <1>1, <1>2, <1>3, <1>4, <1>5, <1>6

\* The steps of acceptJob.
LEMMA AcceptProc ==
  ASSUME TypeOK, NEW p \in Processes
  PROVE  /\ \A o \in Orders, n \in Slots :
              AcceptStart(p, o, n) => Becomes(p, "claim", o, n, {}, {}, {})
         /\ AcceptClaim(p) => \/ Ends(p) /\ UNCHANGED past
                              \/ /\ Goes(p, "claimed")
                                 /\ offer[proc[p].order][proc[p].slot] = "notified"
         /\ AcceptCommit(p)  => Goes(p, "expire")
         /\ AcceptExpire(p)  => Goes(p, "offline")
         /\ AcceptOffline(p) => Goes(p, "assign")
         /\ AcceptAssign(p)  => Ends(p)
<1>1. \A o \in Orders, n \in Slots :
        AcceptStart(p, o, n) => Becomes(p, "claim", o, n, {}, {}, {})
  BY BeginOffer DEF AcceptStart, Steps, AcceptSteps
<1>2. QED
  BY <1>1, GotoProc, DoneProc DEF Goes, Ends, Steps, AcceptSteps, AcceptClaim, AcceptCommit,
    AcceptExpire, AcceptOffline, AcceptAssign

\* The steps of declineJob.
LEMMA DeclineProc ==
  ASSUME TypeOK, NEW p \in Processes
  PROVE  /\ \A o \in Orders, n \in Slots :
              DeclineStart(p, o, n) => Becomes(p, "decline", o, n, {}, {}, {})
         /\ DeclineWrite(p) => Goes(p, "exhaust")
<1>1. \A o \in Orders, n \in Slots :
        DeclineStart(p, o, n) => Becomes(p, "decline", o, n, {}, {}, {})
  BY BeginOffer DEF DeclineStart, Steps
<1>2. QED
  BY <1>1, GotoProc DEF Goes, Steps, ExhaustSteps, DeclineWrite

\* The steps of handleExhaustionIfNeeded.
LEMMA ExhaustProc ==
  ASSUME TypeOK, NEW p \in Processes
  PROVE  /\ CountLive(p) => \/ LiveOffers(proc[p].order) # {} /\ Returns(p)
                            \/ Goes(p, "reset")
         /\ ResetOrder(p)  => Goes(p, "alert")
         /\ AlertAdmins(p) => Returns(p)
BY GotoProc, ReturnProc DEF Goes, Ends, Returns, Steps, ExhaustSteps, CountLive, ResetOrder,
  AlertAdmins

\* The steps of a delivery.
LEMMA CompleteProc ==
  ASSUME TypeOK, NEW p \in Processes
  PROVE  /\ \A o \in Orders :
              DeliverStart(p, o) => Becomes(p, "deliver", o, 0, {}, {}, {})
         /\ Deliver(p) => Goes(p, "find_active")
         /\ FindActive(p) =>
              \/ Ends(p)
              \/ \E n \in LiveOffers(proc[p].order) :
                   Becomes(p, "complete", proc[p].order, n, proc[p].todo, proc[p].rows,
                           proc[p].orders)
         /\ CompleteOffer(p) => Goes(p, "free")
         /\ FreeDriver(p) => Ends(p)
<1>1. \A o \in Orders : DeliverStart(p, o) => Becomes(p, "deliver", o, 0, {}, {}, {})
  BY BeginProc DEF DeliverStart, Steps, DeliverSteps
<1>2. ASSUME FindActive(p), ~Done(p)
      PROVE  \E n \in LiveOffers(proc[p].order) :
               Becomes(p, "complete", proc[p].order, n, proc[p].todo, proc[p].rows,
                       proc[p].orders)
  <2>1. PICK n \in LiveOffers(proc[p].order) :
          proc' = [proc EXCEPT ![p].pc = "complete", ![p].slot = n]
    BY <1>2 DEF FindActive
  <2>2. n \in Slots
    BY DEF LiveOffers
  <2>3. QED
    BY <2>1, <2>2, SlotProc DEF Steps, DeliverSteps
<1>3. QED
  BY <1>1, <1>2, GotoProc, DoneProc DEF Goes, Ends, Steps, DeliverSteps, Deliver,
    CompleteOffer, FreeDriver

\* The rows that the worker's poll finds are open offers.
LEMMA OverdueRows ==
  ASSUME TypeOK
  PROVE  Overdue \in SUBSET Rows /\ \A r \in Overdue : offer[r[1]][r[2]] = "notified"
BY DEF TypeOK, Overdue

\* The steps of the timeout worker.
LEMMA WorkProc ==
  ASSUME TypeOK, NEW w \in Processes
  PROVE  /\ Poll(w) =>
              \/ /\ \E R \in SUBSET Overdue : Becomes(w, "lapse", None, 0, {}, R, {})
                 /\ \A r \in proc'[w].rows : ~Locked(r[1], r[2])
              \/ Becomes(w, "read", None, 0, {}, Overdue, {})
         /\ PollFails(w) => Becomes(w, "read", None, 0, {}, Overdue, {})
         /\ Lapse(w) => Becomes(w, "next", proc[w].order, proc[w].slot, proc[w].todo, {},
                                OrdersOf(proc[w].rows))
         /\ FallbackRead(w) =>
              \/ Ends(w)
              \/ \E R \in SUBSET proc[w].rows :
                   Becomes(w, "overwrite", proc[w].order, proc[w].slot, proc[w].todo, R,
                           proc[w].orders)
         /\ \A r \in Rows : Overwrite(w, r) =>
              \E s \in {"next", "overwrite"} :
                Becomes(w, s, proc[w].order, proc[w].slot, proc[w].todo, proc[w].rows \ {r},
                        proc[w].orders \cup {r[1]})
         /\ NextOrder(w) =>
              \/ proc[w].orders = {} /\ Ends(w)
              \/ \E o \in proc[w].orders :
                   Becomes(w, "exhaust", o, proc[w].slot, proc[w].todo, proc[w].rows,
                           proc[w].orders \ {o})
<1> USE DEF Steps, WorkerSteps, ExhaustSteps
<1>1. ASSUME Poll(w)
      PROVE  \/ /\ \E R \in SUBSET Overdue : Becomes(w, "lapse", None, 0, {}, R, {})
                /\ \A r \in proc'[w].rows : ~Locked(r[1], r[2])
             \/ Becomes(w, "read", None, 0, {}, Overdue, {})
  <2> DEFINE free == {r \in Overdue : ~Locked(r[1], r[2])}
  <2>1. free \in SUBSET Rows /\ free \in SUBSET Overdue /\ \A r \in free : ~Locked(r[1], r[2])
    BY OverdueRows
  <2>2. \/ Begin(w, [Idle EXCEPT !.pc = "lapse", !.rows = free])
        \/ Begin(w, [Idle EXCEPT !.pc = "read", !.rows = Overdue])
    BY <1>1 DEF Poll
  <2> HIDE DEF free
  <2>3. \/ Becomes(w, "lapse", None, 0, {}, free, {})
        \/ Becomes(w, "read", None, 0, {}, Overdue, {})
    BY <2>1, <2>2, BeginRun, OverdueRows
  <2>4. QED
    BY <2>1, <2>3 DEF Becomes
<1>2. PollFails(w) => Becomes(w, "read", None, 0, {}, Overdue, {})
  BY BeginRun, OverdueRows DEF PollFails
<1>3. ASSUME Lapse(w)
      PROVE  Becomes(w, "next", proc[w].order, proc[w].slot, proc[w].todo, {},
                     OrdersOf(proc[w].rows))
  <2>1. OrdersOf(proc[w].rows) \in SUBSET Orders
    BY ProcessTypes DEF OrdersOf, Rows
  <2>2. QED
    BY <1>3, <2>1, LapseProc DEF Lapse
<1>4. ASSUME FallbackRead(w), ~Done(w)
      PROVE  \E R \in SUBSET proc[w].rows :
               Becomes(w, "overwrite", proc[w].order, proc[w].slot, proc[w].todo, R,
                       proc[w].orders)
  <2> DEFINE S == {r \in proc[w].rows : offer[r[1]][r[2]] = "notified"}
  <2>1. S \in SUBSET proc[w].rows /\ S \in SUBSET Rows
    BY ProcessTypes
  <2>2. proc' = [proc EXCEPT ![w].pc = "overwrite", ![w].rows = S]
    BY <1>4 DEF FallbackRead
  <2> HIDE DEF S
  <2>3. QED
    BY <2>1, <2>2, ReadProc
<1>5. ASSUME NEW r \in Rows, Overwrite(w, r)
      PROVE  \E s \in {"next", "overwrite"} :
               Becomes(w, s, proc[w].order, proc[w].slot, proc[w].todo, proc[w].rows \ {r},
                       proc[w].orders \cup {r[1]})
  <2> DEFINE s == IF proc[w].rows = {r} THEN "next" ELSE "overwrite"
  <2>1. s \in {"next", "overwrite"} /\ s \in Steps /\ r[1] \in Orders
    BY DEF Rows
  <2>2. proc' = [proc EXCEPT ![w].rows = @ \ {r}, ![w].orders = @ \cup {r[1]}, ![w].pc = s]
    BY <1>5 DEF Overwrite
  <2> HIDE DEF s
  <2>3. Becomes(w, s, proc[w].order, proc[w].slot, proc[w].todo, proc[w].rows \ {r},
                proc[w].orders \cup {r[1]})
    BY <2>1, <2>2, OverwriteProc
  <2>4. QED
    BY <2>1, <2>3
<1>6. ASSUME NextOrder(w), ~(proc[w].orders = {} /\ Done(w))
      PROVE  \E o \in proc[w].orders :
               Becomes(w, "exhaust", o, proc[w].slot, proc[w].todo, proc[w].rows,
                       proc[w].orders \ {o})
  <2>1. PICK o \in proc[w].orders :
          proc' = [proc EXCEPT ![w].pc = "exhaust", ![w].order = o, ![w].orders = @ \ {o}]
    BY <1>6 DEF NextOrder
  <2>2. o \in Orders
    BY ProcessTypes
  <2>3. QED
    BY <2>1, <2>2, NextProc
<1>7. QED
  BY <1>1, <1>2, <1>3, <1>4, <1>5, <1>6, DoneProc DEF Ends, FallbackRead, NextOrder

\* What a failure makes of its process.
LEMMA FailProc ==
  ASSUME TypeOK, NEW p \in Processes, Fail(p)
  PROVE  \/ p \in Workers /\ proc[p].pc \in ExhaustSteps /\ Goes(p, "next")
         \/ Ends(p)
BY GotoProc, DoneProc DEF Fail, Goes, Ends, Steps, WorkerSteps

\* A new offer keeps the types of its tables.
LEMMA OfferTypes ==
  ASSUME TypeOK, NEW o \in Orders, NEW n \in Slots, NEW d \in Drivers,
         SetOffer(o, n, "notified"), driverOf' = [driverOf EXCEPT ![o][n] = d]
  PROVE  /\ offer' \in [Orders -> [Slots -> {"none", "notified", "accepted", "declined",
                                             "expired"}]]
         /\ driverOf' \in [Orders -> [Slots -> Drivers \cup {None}]]
BY DEF TypeOK, SetOffer

\* What the insertion of an offer makes of the rows, and what it leaves alone.
LEMMA CreateRows ==
  ASSUME TypeOK, SubjectInv, NEW p \in Processes, NEW d \in Drivers, CreateOffer(p, d)
  PROVE  \E o \in Orders, n \in Slots :
           /\ At(p, "create") /\ proc[p].order = o /\ proc[p].slot = n
           /\ \/ offer[o][n] # "none" /\ UNCHANGED <<offer, driverOf, alerts>>
              \/ /\ offer[o][n] = "none"
                 /\ \A x \in Orders, m \in Slots :
                      /\ offer'[x][m] = IF x = o /\ m = n THEN "notified" ELSE offer[x][m]
                      /\ driverOf'[x][m] = IF x = o /\ m = n THEN d ELSE driverOf[x][m]
                 /\ \A x \in Orders : alerts'[x] = IF x = o THEN 0 ELSE alerts[x]
<1> DEFINE o == proc[p].order
           n == proc[p].slot
<1>1. o \in Orders /\ n \in Slots /\ At(p, "create")
  BY DEF CreateOffer, SubjectInv, Subject, At, WorkerSteps
<1>2. CASE offer[o][n] # "none"
  BY <1>1, <1>2 DEF CreateOffer, rows
<1>3. CASE offer[o][n] = "none"
  <2>1. /\ offer' = [offer EXCEPT ![o][n] = "notified"]
        /\ driverOf' = [driverOf EXCEPT ![o][n] = d]
        /\ alerts' = [alerts EXCEPT ![o] = 0]
    BY <1>3 DEF CreateOffer, SetOffer
  <2> HIDE DEF o, n
  <2>2. \A x \in Orders, m \in Slots :
          /\ offer'[x][m] = IF x = o /\ m = n THEN "notified" ELSE offer[x][m]
          /\ driverOf'[x][m] = IF x = o /\ m = n THEN d ELSE driverOf[x][m]
    BY <1>1, <2>1 DEF TypeOK
  <2>3. \A x \in Orders : alerts'[x] = IF x = o THEN 0 ELSE alerts[x]
    BY <2>1 DEF TypeOK
  <2>4. QED
    BY <1>1, <1>3, <2>2, <2>3 DEF o, n
<1>4. QED
  BY <1>2, <1>3

\* Every step keeps the types.
LEMMA TypeStep ==
  ASSUME TypeOK, SubjectInv, OfferInv, CountInv, [Next]_vars
  PROVE  TypeOK'
<1> USE BoundsAreNat DEF TypeOK, tables, rows, counts, Becomes, Ends, Goes, Returns, Processes
<1>1. ASSUME NEW p \in Requests, Assign(p) PROVE TypeOK'
  <2>1. ASSUME NEW o \in Orders, Place(p, o)
         PROVE  TypeOK'
    BY <2>1, AssignProc DEF Place
  <2>2. CASE FindDrivers(p)
    BY <2>2, AssignProc DEF FindDrivers
  <2>3. ASSUME NEW o \in Orders, NEW d \in Drivers, ManualAssign(p, o, d)
         PROVE  TypeOK'
    <3>1. proc' \in [Processes -> Process]
      BY <2>3, AssignProc
    <3>2. manuals' \in 0 .. MaxManual
      BY <2>3 DEF ManualAssign
    <3>3. QED
      BY <2>3, <3>1, <3>2 DEF ManualAssign
  <2>4. CASE CountOffers(p)
    BY <2>4, AssignProc DEF CountOffers
  <2>5. ASSUME NEW d \in Drivers, CreateOffer(p, d)
         PROVE  TypeOK'
    <3>1. proc' \in [Processes -> Process]
      BY <2>5, AssignProc
    <3>2. proc[p].order \in Orders /\ proc[p].slot \in Slots
      BY <2>5 DEF CreateOffer, SubjectInv, Subject, At, WorkerSteps
    <3>3. CASE offer[proc[p].order][proc[p].slot] # "none"
      BY <2>5, <3>1, <3>3 DEF CreateOffer
    <3>4. CASE offer[proc[p].order][proc[p].slot] = "none"
      <4>1. /\ SetOffer(proc[p].order, proc[p].slot, "notified")
            /\ driverOf' = [driverOf EXCEPT ![proc[p].order][proc[p].slot] = d]
        BY <2>5, <3>4 DEF CreateOffer
      <4>2. /\ offer' \in [Orders -> [Slots -> {"none", "notified", "accepted", "declined",
                                                "expired"}]]
            /\ driverOf' \in [Orders -> [Slots -> Drivers \cup {None}]]
        BY <3>2, <4>1, OfferTypes
      <4>3. alerts' \in [Orders -> Nat] /\ late' = late
        BY <2>5, <3>4 DEF CreateOffer
      <4>4. QED
        BY <2>5, <3>1, <4>2, <4>3 DEF CreateOffer
    <3>5. QED
      BY <3>3, <3>4
  <2> QED BY <1>1, <2>1, <2>2, <2>3, <2>4, <2>5 DEF Assign
<1>2. ASSUME NEW p \in Requests, Accept(p) PROVE TypeOK'
  <2>1. ASSUME NEW o \in Orders, NEW n \in Slots, AcceptStart(p, o, n)
         PROVE  TypeOK'
    BY <2>1, AcceptProc DEF AcceptStart
  <2>2. CASE AcceptClaim(p)
    <3>1. proc' \in [Processes -> Process]
      BY <2>2, AcceptProc
    <3>2. past' \in [Orders -> SUBSET ClaimEvents]
      BY <2>2, SMTT(20) DEF AcceptClaim, Happened, ClaimEvents
    <3>3. QED
      BY <2>2, <3>1, <3>2 DEF AcceptClaim
  <2>3. CASE AcceptCommit(p)
    BY <2>3, AcceptProc DEF AcceptCommit, SetOffer, Happened, ClaimEvents
  <2>4. CASE AcceptExpire(p)
    <3>1. proc' \in [Processes -> Process]
      BY <2>4, AcceptProc
    <3>2. offer' \in [Orders -> [Slots -> {"none", "notified", "accepted", "declined",
                                          "expired"}]]
      BY <2>4 DEF AcceptExpire
    <3>3. QED
      BY <2>4, <3>1, <3>2 DEF AcceptExpire
  <2>5. CASE AcceptOffline(p)
    BY <2>5, AcceptProc DEF AcceptOffline
  <2>6. CASE AcceptAssign(p)
    BY <2>6, AcceptProc DEF AcceptAssign
  <2> QED BY <1>2, <2>1, <2>2, <2>3, <2>4, <2>5, <2>6 DEF Accept
<1>3. ASSUME NEW p \in Requests, Decline(p) PROVE TypeOK'
  <2>1. ASSUME NEW o \in Orders, NEW n \in Slots, DeclineStart(p, o, n)
         PROVE  TypeOK'
    BY <2>1, DeclineProc DEF DeclineStart
  <2>2. CASE DeclineWrite(p)
    BY <2>2, DeclineProc DEF DeclineWrite, SetOffer, Happened, OverClaim, ClaimEvents
  <2> QED BY <1>3, <2>1, <2>2 DEF Decline
<1>4. ASSUME NEW p \in Processes, Exhaust(p) PROVE TypeOK'
  <2>1. CASE CountLive(p)
    BY <2>1, ExhaustProc DEF CountLive
  <2>2. CASE ResetOrder(p)
    BY <2>2, ExhaustProc DEF ResetOrder
  <2>3. CASE AlertAdmins(p)
    <3>1. proc' \in [Processes -> Process]
      BY <2>3, ExhaustProc
    <3>2. alerts' \in [Orders -> Nat]
      BY <2>3 DEF AlertAdmins, SubjectInv, Subject, At, WorkerSteps
    <3>3. QED
      BY <2>3, <3>1, <3>2 DEF AlertAdmins
  <2> QED BY <1>4, <2>1, <2>2, <2>3 DEF Exhaust
<1>5. ASSUME NEW p \in Requests, Complete(p) PROVE TypeOK'
  <2>1. ASSUME NEW o \in Orders, DeliverStart(p, o)
         PROVE  TypeOK'
    BY <2>1, CompleteProc DEF DeliverStart
  <2>2. CASE Deliver(p)
    BY <2>2, CompleteProc DEF Deliver
  <2>3. CASE FindActive(p)
    BY <2>3, CompleteProc DEF FindActive
  <2>4. CASE CompleteOffer(p)
    BY <2>4, CompleteProc DEF CompleteOffer, SetOffer, Happened, ClaimEvents
  <2>5. CASE FreeDriver(p)
    BY <2>5, CompleteProc DEF FreeDriver, SubjectInv, Subject, OfferInv, TargetSteps, At,
      WorkerSteps
  <2> QED BY <1>5, <2>1, <2>2, <2>3, <2>4, <2>5 DEF Complete
<1>6. ASSUME NEW w \in Workers, Work(w) \/ PollFails(w) PROVE TypeOK'
  <2>1. CASE Poll(w)
    BY <2>1, WorkProc DEF Poll
  <2>2. CASE Lapse(w)
    <3>1. proc' \in [Processes -> Process]
      BY <2>2, WorkProc
    <3>2. offer' \in [Orders -> [Slots -> {"none", "notified", "accepted", "declined", "expired"}]]
      BY <2>2 DEF Lapse
    <3>3. QED
      BY <2>2, <3>1, <3>2 DEF Lapse
  <2>3. CASE FallbackRead(w)
    BY <2>3, WorkProc DEF FallbackRead
  <2>4. ASSUME NEW r \in Rows, Overwrite(w, r)
         PROVE  TypeOK'
    BY <2>4, WorkProc DEF Overwrite, SetOffer, Happened, OverClaim, ClaimEvents
  <2>5. CASE NextOrder(w)
    BY <2>5, WorkProc DEF NextOrder
  <2>6. CASE PollFails(w)
    BY <2>6, WorkProc DEF PollFails
  <2>7. CASE Exhaust(w)
    BY <1>4, <2>7 DEF Processes
  <2> QED BY <1>6, <2>1, <2>2, <2>3, <2>4, <2>5, <2>6, <2>7 DEF Work
<1>7. ASSUME NEW p \in Processes, Fail(p) PROVE TypeOK'
  BY <1>7, FailProc DEF Fail
<1>8. CASE Environment
  <2>1. ASSUME NEW o \in Orders, NEW status \in {"awaiting_driver", "completed", "cancelled"},
               EscrowSets(o, status)
         PROVE  TypeOK'
    BY <2>1 DEF EscrowSets
  <2>2. ASSUME NEW d \in Drivers, SetAvailability(d)
         PROVE  TypeOK'
    BY <2>2 DEF SetAvailability
  <2>3. ASSUME NEW o \in Orders, NEW n \in Slots, OfferAges(o, n)
         PROVE  TypeOK'
    <3>1. late' \in SUBSET Rows
      BY <2>3 DEF OfferAges, Rows
    <3>2. QED
      BY <2>3, <3>1 DEF OfferAges
  <2>4. QED
    BY <1>8, <2>1, <2>2, <2>3 DEF Environment
<1>9. CASE UNCHANGED vars
  BY <1>9 DEF vars
<1> QED BY <1>1, <1>2, <1>3, <1>4, <1>5, <1>6, <1>7, <1>8, <1>9 DEF Next,
  Handle, Processes

-----------------------------------------------------------------------------
(* Rows                                                                    *)

\* Orders and offers stay once they are made, and what has happened to the
\* claims of an order is not forgotten.
Kept ==
  /\ \A o \in Orders, n \in Slots : offer[o][n] # "none" => offer'[o][n] # "none"
  /\ \A o \in Orders : orderStatus[o] # "none" => orderStatus'[o] # "none"
  /\ \A o \in Orders : past[o] \subseteq past'[o]

\* Every step keeps what Kept says.
LEMMA KeptStep ==
  ASSUME TypeOK, SubjectInv, [Next]_vars
  PROVE  Kept
<1> USE DEF Kept, tables, rows, counts, Processes
<1>1. ASSUME NEW p \in Requests, Assign(p) PROVE Kept
  <2>1. ASSUME NEW o \in Orders, Place(p, o)
         PROVE  Kept
    BY <2>1 DEF Place, TypeOK
  <2>2. CASE FindDrivers(p)
    BY <2>2 DEF FindDrivers
  <2>3. ASSUME NEW o \in Orders, NEW d \in Drivers, ManualAssign(p, o, d)
         PROVE  Kept
    BY <2>3 DEF ManualAssign
  <2>4. CASE CountOffers(p)
    BY <2>4 DEF CountOffers
  <2>5. ASSUME NEW d \in Drivers, CreateOffer(p, d)
         PROVE  Kept
    BY <2>5, CreateRows DEF CreateOffer
  <2> QED BY <1>1, <2>1, <2>2, <2>3, <2>4, <2>5 DEF Assign
<1>2. ASSUME NEW p \in Requests, Accept(p) PROVE Kept
  <2>1. ASSUME NEW o \in Orders, NEW n \in Slots, AcceptStart(p, o, n)
         PROVE  Kept
    BY <2>1 DEF AcceptStart
  <2>2. CASE AcceptClaim(p)
    BY <2>2 DEF AcceptClaim, SetOffer, Happened, TypeOK
  <2>3. CASE AcceptCommit(p)
    BY <2>3 DEF AcceptCommit, SetOffer, Happened, TypeOK
  <2>4. CASE AcceptExpire(p)
    BY <2>4 DEF AcceptExpire, TypeOK
  <2>5. CASE AcceptOffline(p)
    BY <2>5 DEF AcceptOffline
  <2>6. CASE AcceptAssign(p)
    BY <2>6 DEF AcceptAssign, TypeOK
  <2> QED BY <1>2, <2>1, <2>2, <2>3, <2>4, <2>5, <2>6 DEF Accept
<1>3. ASSUME NEW p \in Requests, Decline(p) PROVE Kept
  <2>1. ASSUME NEW o \in Orders, NEW n \in Slots, DeclineStart(p, o, n)
         PROVE  Kept
    BY <2>1 DEF DeclineStart
  <2>2. CASE DeclineWrite(p)
    BY <2>2 DEF DeclineWrite, SetOffer, Happened, TypeOK
  <2> QED BY <1>3, <2>1, <2>2 DEF Decline
<1>4. ASSUME NEW p \in Processes, Exhaust(p) PROVE Kept
  <2>1. CASE CountLive(p)
    BY <2>1 DEF CountLive
  <2>2. CASE ResetOrder(p)
    BY <2>2 DEF ResetOrder, TypeOK
  <2>3. CASE AlertAdmins(p)
    BY <2>3 DEF AlertAdmins
  <2> QED BY <1>4, <2>1, <2>2, <2>3 DEF Exhaust
<1>5. ASSUME NEW p \in Requests, Complete(p) PROVE Kept
  <2>1. ASSUME NEW o \in Orders, DeliverStart(p, o)
         PROVE  Kept
    BY <2>1 DEF DeliverStart
  <2>2. CASE Deliver(p)
    BY <2>2 DEF Deliver, TypeOK
  <2>3. CASE FindActive(p)
    BY <2>3 DEF FindActive
  <2>4. CASE CompleteOffer(p)
    BY <2>4 DEF CompleteOffer, SetOffer, Happened, TypeOK
  <2>5. CASE FreeDriver(p)
    BY <2>5 DEF FreeDriver
  <2> QED BY <1>5, <2>1, <2>2, <2>3, <2>4, <2>5 DEF Complete
<1>6. ASSUME NEW w \in Workers, Work(w) \/ PollFails(w) PROVE Kept
  <2>1. CASE Poll(w)
    BY <2>1 DEF Poll
  <2>2. CASE Lapse(w)
    BY <2>2 DEF Lapse, TypeOK
  <2>3. CASE FallbackRead(w)
    BY <2>3 DEF FallbackRead
  <2>4. ASSUME NEW r \in Rows, Overwrite(w, r)
         PROVE  Kept
    BY <2>4 DEF Overwrite, SetOffer, Happened, TypeOK
  <2>5. CASE NextOrder(w)
    BY <2>5 DEF NextOrder
  <2>6. CASE PollFails(w)
    BY <2>6 DEF PollFails
  <2>7. CASE Exhaust(w)
    BY <1>4, <2>7 DEF Processes
  <2> QED BY <1>6, <2>1, <2>2, <2>3, <2>4, <2>5, <2>6, <2>7 DEF Work
<1>7. ASSUME NEW p \in Processes, Fail(p) PROVE Kept
  BY <1>7 DEF Fail
<1>8. CASE Environment
  BY <1>8 DEF Environment, EscrowSets, SetAvailability, OfferAges, TypeOK
<1>9. CASE UNCHANGED vars
  BY <1>9 DEF vars
<1> QED BY <1>1, <1>2, <1>3, <1>4, <1>5, <1>6, <1>7, <1>8, <1>9 DEF Next,
  Handle, Processes

-----------------------------------------------------------------------------
(* What handlers know                                                      *)

\* A process that does not act keeps its order and offers.
LEMMA KeptSubject ==
  ASSUME TypeOK, SubjectInv, [Next]_vars, NEW q \in Processes, proc'[q] = proc[q]
  PROVE  Subject(q)'
<1>1. Subject(q) /\ proc[q].rows \subseteq Rows
  BY ProcessTypes DEF SubjectInv
<1>2. proc[q].pc \in MakeSteps \cup TargetSteps => proc[q].order \in Orders
  BY <1>1 DEF Subject, MakeSteps, TargetSteps, AcceptSteps, WorkerSteps
<1>3. \A r \in Rows : offer[r[1]][r[2]] # "none" => offer'[r[1]][r[2]] # "none"
  BY KeptStep DEF Kept, Rows
<1>4. QED
  BY <1>1, <1>2, <1>3, KeptStep DEF Subject, Kept

\* Handlers keep their orders and offers, and get them right at first.
LEMMA SubjectStep ==
  ASSUME TypeOK, SubjectInv, CountInv, [Next]_vars
  PROVE  SubjectInv'
<1>0. Kept /\ \A p \in Processes : Subject(p)
  BY KeptStep DEF SubjectInv
<1> USE DEF Subject, tables, rows, counts, Processes, At, WorkerSteps, MakeSteps, TargetSteps,
  AcceptSteps, RowSteps, ExhaustSteps
<1>1. ASSUME NEW p \in Requests, Assign(p) PROVE SubjectInv'
  <2>1. ASSUME NEW o \in Orders, Place(p, o)
         PROVE  SubjectInv'
    <3>1. Becomes(p, "find", o, 0, {}, {}, {})
      BY <2>1, AssignProc DEF Processes
    <3>2. Subject(p)' /\ \A q \in Processes \ {p} : proc'[q] = proc[q]
      BY <1>0, <2>1, <3>1 DEF Place, TypeOK, Becomes, Ends, Goes
    <3>3. QED
      BY <3>2, KeptSubject DEF SubjectInv
  <2>2. CASE FindDrivers(p)
    <3>1. Subject(p)' /\ \A q \in Processes \ {p} : proc'[q] = proc[q]
      BY <1>0, <2>2, AssignProc DEF FindDrivers, Becomes, Ends, Goes, Returns
    <3>2. QED
      BY <3>1, KeptSubject DEF SubjectInv
  <2>3. ASSUME NEW o \in Orders, NEW d \in Drivers, ManualAssign(p, o, d)
         PROVE  SubjectInv'
    <3>1. Becomes(p, "count", o, 0, {d}, {}, {})
      BY <2>3, AssignProc DEF Processes
    <3>2. Subject(p)' /\ \A q \in Processes \ {p} : proc'[q] = proc[q]
      BY <1>0, <2>3, <3>1 DEF ManualAssign, Becomes, Ends, Goes
    <3>3. QED
      BY <3>2, KeptSubject DEF SubjectInv
  <2>4. CASE CountOffers(p)
    <3>1. Becomes(p, "create", proc[p].order, Cardinality(Offers(proc[p].order)) + 1,
                    proc[p].todo, proc[p].rows, proc[p].orders)
      BY <2>4, AssignProc DEF Processes
    <3>2. Subject(p)' /\ \A q \in Processes \ {p} : proc'[q] = proc[q]
      BY <1>0, <2>4, <3>1, SlotInRange DEF CountOffers, Becomes, Ends, Goes
    <3>3. QED
      BY <3>2, KeptSubject DEF SubjectInv
  <2>5. ASSUME NEW d \in Drivers, CreateOffer(p, d)
         PROVE  SubjectInv'
    <3>1. Subject(p)' /\ \A q \in Processes \ {p} : proc'[q] = proc[q]
      BY <1>0, <2>5, AssignProc DEF CreateOffer, Becomes, Ends, Goes, Returns
    <3>2. QED
      BY <3>1, KeptSubject DEF SubjectInv
  <2> QED BY <1>1, <2>1, <2>2, <2>3, <2>4, <2>5 DEF Assign
<1>2. ASSUME NEW p \in Requests, Accept(p) PROVE SubjectInv'
  <2>1. ASSUME NEW o \in Orders, NEW n \in Slots, AcceptStart(p, o, n)
         PROVE  SubjectInv'
    <3>1. Becomes(p, "claim", o, n, {}, {}, {})
      BY <2>1, AcceptProc DEF Processes
    <3>2. Subject(p)' /\ \A q \in Processes \ {p} : proc'[q] = proc[q]
      BY <1>0, <2>1, <3>1 DEF AcceptStart, Becomes, Ends, Goes
    <3>3. QED
      BY <3>2, KeptSubject DEF SubjectInv
  <2>2. CASE AcceptClaim(p)
    <3>1. Subject(p)' /\ \A q \in Processes \ {p} : proc'[q] = proc[q]
      BY <1>0, <2>2, AcceptProc DEF AcceptClaim, Becomes, Ends, Goes, Returns
    <3>2. QED
      BY <3>1, KeptSubject DEF SubjectInv
  <2>3. CASE AcceptCommit(p)
    <3>1. Goes(p, "expire")
      BY <2>3, AcceptProc DEF Processes
    <3>2. Subject(p)' /\ \A q \in Processes \ {p} : proc'[q] = proc[q]
      BY <1>0, <2>3, <3>1 DEF AcceptCommit, Kept, Becomes, Ends, Goes
    <3>3. QED
      BY <3>2, KeptSubject DEF SubjectInv
  <2>4. CASE AcceptExpire(p)
    <3>1. Subject(p)' /\ \A q \in Processes \ {p} : proc'[q] = proc[q]
      BY <1>0, <2>4, AcceptProc DEF AcceptExpire, Becomes, Ends, Goes, Returns
    <3>2. QED
      BY <3>1, KeptSubject DEF SubjectInv
  <2>5. CASE AcceptOffline(p)
    <3>1. Subject(p)' /\ \A q \in Processes \ {p} : proc'[q] = proc[q]
      BY <1>0, <2>5, AcceptProc DEF AcceptOffline, Becomes, Ends, Goes, Returns
    <3>2. QED
      BY <3>1, KeptSubject DEF SubjectInv
  <2>6. CASE AcceptAssign(p)
    <3>1. Subject(p)' /\ \A q \in Processes \ {p} : proc'[q] = proc[q]
      BY <1>0, <2>6, AcceptProc DEF AcceptAssign, Becomes, Ends, Goes, Returns
    <3>2. QED
      BY <3>1, KeptSubject DEF SubjectInv
  <2> QED BY <1>2, <2>1, <2>2, <2>3, <2>4, <2>5, <2>6 DEF Accept
<1>3. ASSUME NEW p \in Requests, Decline(p) PROVE SubjectInv'
  <2>1. ASSUME NEW o \in Orders, NEW n \in Slots, DeclineStart(p, o, n)
         PROVE  SubjectInv'
    <3>1. Becomes(p, "decline", o, n, {}, {}, {})
      BY <2>1, DeclineProc DEF Processes
    <3>2. Subject(p)' /\ \A q \in Processes \ {p} : proc'[q] = proc[q]
      BY <1>0, <2>1, <3>1 DEF DeclineStart, Becomes, Ends, Goes
    <3>3. QED
      BY <3>2, KeptSubject DEF SubjectInv
  <2>2. CASE DeclineWrite(p)
    <3>1. Subject(p)' /\ \A q \in Processes \ {p} : proc'[q] = proc[q]
      BY <1>0, <2>2, DeclineProc DEF DeclineWrite, Becomes, Ends, Goes, Returns
    <3>2. QED
      BY <3>1, KeptSubject DEF SubjectInv
  <2> QED BY <1>3, <2>1, <2>2 DEF Decline
<1>4. ASSUME NEW p \in Processes, Exhaust(p) PROVE SubjectInv'
  <2>1. CASE CountLive(p)
    <3>1. Subject(p)' /\ \A q \in Processes \ {p} : proc'[q] = proc[q]
      BY <1>0, <2>1, ExhaustProc DEF CountLive, Becomes, Ends, Goes, Returns
    <3>2. QED
      BY <3>1, KeptSubject DEF SubjectInv
  <2>2. CASE ResetOrder(p)
    <3>1. Subject(p)' /\ \A q \in Processes \ {p} : proc'[q] = proc[q]
      BY <1>0, <2>2, ExhaustProc DEF ResetOrder, Becomes, Ends, Goes, Returns
    <3>2. QED
      BY <3>1, KeptSubject DEF SubjectInv
  <2>3. CASE AlertAdmins(p)
    <3>1. Subject(p)' /\ \A q \in Processes \ {p} : proc'[q] = proc[q]
      BY <1>0, <2>3, ExhaustProc DEF AlertAdmins, Becomes, Ends, Goes, Returns
    <3>2. QED
      BY <3>1, KeptSubject DEF SubjectInv
  <2> QED BY <1>4, <2>1, <2>2, <2>3 DEF Exhaust
<1>5. ASSUME NEW p \in Requests, Complete(p) PROVE SubjectInv'
  <2>1. ASSUME NEW o \in Orders, DeliverStart(p, o)
         PROVE  SubjectInv'
    <3>1. Subject(p)' /\ \A q \in Processes \ {p} : proc'[q] = proc[q]
      BY <1>0, <2>1, CompleteProc DEF DeliverStart, Becomes, Ends, Goes, Returns
    <3>2. QED
      BY <3>1, KeptSubject DEF SubjectInv
  <2>2. CASE Deliver(p)
    <3>1. Subject(p)' /\ \A q \in Processes \ {p} : proc'[q] = proc[q]
      BY <1>0, <2>2, CompleteProc DEF Deliver, Becomes, Ends, Goes, Returns
    <3>2. QED
      BY <3>1, KeptSubject DEF SubjectInv
  <2>3. CASE FindActive(p)
    <3>1. Subject(p)' /\ \A q \in Processes \ {p} : proc'[q] = proc[q]
      BY <1>0, <2>3, CompleteProc DEF FindActive, LiveOffers, Live, Becomes, Ends, Goes,
        Returns
    <3>2. QED
      BY <3>1, KeptSubject DEF SubjectInv
  <2>4. CASE CompleteOffer(p)
    <3>1. Goes(p, "free")
      BY <2>4, CompleteProc DEF Processes
    <3>2. Subject(p)' /\ \A q \in Processes \ {p} : proc'[q] = proc[q]
      BY <1>0, <2>4, <3>1 DEF CompleteOffer, Kept, Becomes, Ends, Goes
    <3>3. QED
      BY <3>2, KeptSubject DEF SubjectInv
  <2>5. CASE FreeDriver(p)
    <3>1. Subject(p)' /\ \A q \in Processes \ {p} : proc'[q] = proc[q]
      BY <1>0, <2>5, CompleteProc DEF FreeDriver, Becomes, Ends, Goes, Returns
    <3>2. QED
      BY <3>1, KeptSubject DEF SubjectInv
  <2> QED BY <1>5, <2>1, <2>2, <2>3, <2>4, <2>5 DEF Complete
<1>6. ASSUME NEW w \in Workers, Work(w) \/ PollFails(w) PROVE SubjectInv'
  <2>1. CASE Poll(w)
    <3>1. Subject(w)' /\ \A q \in Processes \ {w} : proc'[q] = proc[q]
      BY <1>0, <2>1, WorkProc, OverdueRows DEF Poll, Becomes, Ends, Goes, Returns
    <3>2. QED
      BY <3>1, KeptSubject DEF SubjectInv
  <2>2. CASE Lapse(w)
    <3>1. Subject(w)' /\ \A q \in Processes \ {w} : proc'[q] = proc[q]
      BY <1>0, <2>2, WorkProc DEF Lapse, Becomes, Ends, Goes, Returns
    <3>2. QED
      BY <3>1, KeptSubject DEF SubjectInv
  <2>3. CASE FallbackRead(w)
    <3>1. Subject(w)' /\ \A q \in Processes \ {w} : proc'[q] = proc[q]
      BY <1>0, <2>3, WorkProc DEF FallbackRead, Becomes, Ends, Goes, Returns
    <3>2. QED
      BY <3>1, KeptSubject DEF SubjectInv
  <2>4. ASSUME NEW r \in Rows, Overwrite(w, r)
         PROVE  SubjectInv'
    <3>1. \E s \in {"next", "overwrite"} :
            Becomes(w, s, proc[w].order, proc[w].slot, proc[w].todo, proc[w].rows \ {r},
                    proc[w].orders \cup {r[1]})
      BY <2>4, WorkProc DEF Processes
    <3>2. \A x \in proc[w].rows : offer[x[1]][x[2]] # "none" => offer'[x[1]][x[2]] # "none"
      BY <1>0, ProcessTypes DEF Kept, Rows
    <3>3. Subject(w)' /\ \A q \in Processes \ {w} : proc'[q] = proc[q]
      BY <1>0, <2>4, <3>1, <3>2 DEF Overwrite, Becomes
    <3>4. QED
      BY <3>3, KeptSubject DEF SubjectInv
  <2>5. CASE NextOrder(w)
    <3>1. \/ Ends(w)
          \/ \E o \in proc[w].orders :
               Becomes(w, "exhaust", o, proc[w].slot, proc[w].todo, proc[w].rows,
                       proc[w].orders \ {o})
      BY <2>5, WorkProc DEF Processes
    <3>2. Subject(w)' /\ \A q \in Processes \ {w} : proc'[q] = proc[q]
      BY <1>0, <2>5, <3>1, ProcessTypes DEF NextOrder, Becomes, Ends, Goes
    <3>3. QED
      BY <3>2, KeptSubject DEF SubjectInv
  <2>6. CASE PollFails(w)
    <3>1. Subject(w)' /\ \A q \in Processes \ {w} : proc'[q] = proc[q]
      BY <1>0, <2>6, WorkProc, OverdueRows DEF PollFails, Becomes, Ends, Goes, Returns
    <3>2. QED
      BY <3>1, KeptSubject DEF SubjectInv
  <2>7. CASE Exhaust(w)
    BY <1>4, <2>7 DEF Processes
  <2> QED BY <1>6, <2>1, <2>2, <2>3, <2>4, <2>5, <2>6, <2>7 DEF Work
<1>7. ASSUME NEW p \in Processes, Fail(p) PROVE SubjectInv'
  <2>1. Subject(p)' /\ \A q \in Processes \ {p} : proc'[q] = proc[q]
    BY <1>0, <1>7, FailProc DEF Fail, Becomes, Ends, Goes
  <2>2. QED
    BY <2>1, KeptSubject DEF SubjectInv
<1>8. CASE Environment
  <2>1. UNCHANGED proc
    BY <1>8 DEF Environment, EscrowSets, SetAvailability, OfferAges
  <2>2. QED
    BY <2>1, KeptSubject DEF SubjectInv
<1>9. CASE UNCHANGED vars
  <2>1. UNCHANGED proc
    BY <1>9 DEF vars
  <2>2. QED
    BY <2>1, KeptSubject DEF SubjectInv
<1> QED BY <1>1, <1>2, <1>3, <1>4, <1>5, <1>6, <1>7, <1>8, <1>9 DEF Next,
  Handle, Processes

-----------------------------------------------------------------------------
(* Workers and offers                                                      *)

\* Only a worker has a list of orders.
LEMMA WorkStep ==
  ASSUME TypeOK, SubjectInv, CountInv, WorkInv, [Next]_vars
  PROVE  WorkInv'
<1> USE WorkersAreNoRequests DEF WorkInv, Processes, At, DutySteps, ExhaustSteps, counts
<1>1. ASSUME NEW p \in Requests, Assign(p) PROVE WorkInv'
  <2>1. ASSUME NEW o \in Orders, Place(p, o)
         PROVE  WorkInv'
    <3>1. Becomes(p, "find", o, 0, {}, {}, {})
      BY <2>1, AssignProc DEF Processes
    <3>2. QED
      BY <2>1, <3>1 DEF Place, Becomes, Ends
  <2>2. CASE FindDrivers(p)
    BY <2>2, AssignProc DEF FindDrivers, Becomes, Ends, Goes, Returns
  <2>3. ASSUME NEW o \in Orders, NEW d \in Drivers, ManualAssign(p, o, d)
         PROVE  WorkInv'
    <3>1. Becomes(p, "count", o, 0, {d}, {}, {})
      BY <2>3, AssignProc DEF Processes
    <3>2. QED
      BY <2>3, <3>1 DEF ManualAssign, Becomes, Ends
  <2>4. CASE CountOffers(p)
    <3>1. Becomes(p, "create", proc[p].order, Cardinality(Offers(proc[p].order)) + 1,
                    proc[p].todo, proc[p].rows, proc[p].orders)
      BY <2>4, AssignProc DEF Processes
    <3>2. QED
      BY <2>4, <3>1 DEF CountOffers, Becomes, Ends, Goes
  <2>5. ASSUME NEW d \in Drivers, CreateOffer(p, d)
         PROVE  WorkInv'
    <3>1. \/ Ends(p)
          \/ Becomes(p, "count", proc[p].order, proc[p].slot, proc[p].todo \ {d},
                     proc[p].rows, proc[p].orders)
      BY <2>5, AssignProc DEF Processes
    <3>2. QED
      BY <2>5, <3>1 DEF CreateOffer, Becomes, Ends
  <2> QED BY <1>1, <2>1, <2>2, <2>3, <2>4, <2>5 DEF Assign
<1>2. ASSUME NEW p \in Requests, Accept(p) PROVE WorkInv'
  <2>1. ASSUME NEW o \in Orders, NEW n \in Slots, AcceptStart(p, o, n)
         PROVE  WorkInv'
    <3>1. Becomes(p, "claim", o, n, {}, {}, {})
      BY <2>1, AcceptProc DEF Processes
    <3>2. QED
      BY <2>1, <3>1 DEF AcceptStart, Becomes, Ends
  <2>2. CASE AcceptClaim(p)
    BY <2>2, AcceptProc DEF AcceptClaim, Becomes, Ends, Goes, Returns
  <2>3. CASE AcceptCommit(p)
    BY <2>3, AcceptProc DEF AcceptCommit, Becomes, Ends, Goes, Returns
  <2>4. CASE AcceptExpire(p)
    BY <2>4, AcceptProc DEF AcceptExpire, Becomes, Ends, Goes, Returns
  <2>5. CASE AcceptOffline(p)
    BY <2>5, AcceptProc DEF AcceptOffline, Becomes, Ends, Goes, Returns
  <2>6. CASE AcceptAssign(p)
    BY <2>6, AcceptProc DEF AcceptAssign, Becomes, Ends, Goes, Returns
  <2> QED BY <1>2, <2>1, <2>2, <2>3, <2>4, <2>5, <2>6 DEF Accept
<1>3. ASSUME NEW p \in Requests, Decline(p) PROVE WorkInv'
  <2>1. ASSUME NEW o \in Orders, NEW n \in Slots, DeclineStart(p, o, n)
         PROVE  WorkInv'
    <3>1. Becomes(p, "decline", o, n, {}, {}, {})
      BY <2>1, DeclineProc DEF Processes
    <3>2. QED
      BY <2>1, <3>1 DEF DeclineStart, Becomes, Ends
  <2>2. CASE DeclineWrite(p)
    BY <2>2, DeclineProc DEF DeclineWrite, Becomes, Ends, Goes, Returns
  <2> QED BY <1>3, <2>1, <2>2 DEF Decline
<1>4. ASSUME NEW p \in Processes, Exhaust(p) PROVE WorkInv'
  <2>1. CASE CountLive(p)
    BY <2>1, ExhaustProc DEF CountLive, Becomes, Ends, Goes, Returns
  <2>2. CASE ResetOrder(p)
    <3>1. Goes(p, "alert")
      BY <2>2, ExhaustProc DEF Processes
    <3>2. QED
      BY <2>2, <3>1 DEF ResetOrder, Becomes, Ends, Goes
  <2>3. CASE AlertAdmins(p)
    BY <2>3, ExhaustProc DEF AlertAdmins, Becomes, Ends, Goes, Returns
  <2> QED BY <1>4, <2>1, <2>2, <2>3 DEF Exhaust
<1>5. ASSUME NEW p \in Requests, Complete(p) PROVE WorkInv'
  <2>1. ASSUME NEW o \in Orders, DeliverStart(p, o)
         PROVE  WorkInv'
    <3>1. Becomes(p, "deliver", o, 0, {}, {}, {})
      BY <2>1, CompleteProc DEF Processes
    <3>2. QED
      BY <2>1, <3>1 DEF DeliverStart, Becomes, Ends
  <2>2. CASE Deliver(p)
    BY <2>2, CompleteProc DEF Deliver, Becomes, Ends, Goes, Returns
  <2>3. CASE FindActive(p)
    <3>1. \/ Ends(p)
          \/ \E n \in LiveOffers(proc[p].order) :
               Becomes(p, "complete", proc[p].order, n, proc[p].todo, proc[p].rows,
                       proc[p].orders)
      BY <2>3, CompleteProc DEF Processes
    <3>2. QED
      BY <2>3, <3>1 DEF FindActive, Becomes, Ends, Goes
  <2>4. CASE CompleteOffer(p)
    BY <2>4, CompleteProc DEF CompleteOffer, Becomes, Ends, Goes, Returns
  <2>5. CASE FreeDriver(p)
    BY <2>5, CompleteProc DEF FreeDriver, Becomes, Ends, Goes, Returns
  <2> QED BY <1>5, <2>1, <2>2, <2>3, <2>4, <2>5 DEF Complete
<1>6. ASSUME NEW w \in Workers, Work(w) \/ PollFails(w) PROVE WorkInv'
  <2>1. CASE Poll(w)
    BY <2>1, WorkProc DEF Poll, Becomes, Ends, Goes, Returns
  <2>2. CASE Lapse(w)
    BY <2>2, WorkProc DEF Lapse, Becomes, Ends, Goes, Returns
  <2>3. CASE FallbackRead(w)
    BY <2>3, WorkProc DEF FallbackRead, Becomes, Ends, Goes, Returns
  <2>4. ASSUME NEW r \in Rows, Overwrite(w, r)
         PROVE  WorkInv'
    <3>1. \E s \in {"next", "overwrite"} :
            Becomes(w, s, proc[w].order, proc[w].slot, proc[w].todo, proc[w].rows \ {r},
                    proc[w].orders \cup {r[1]})
      BY <2>4, WorkProc DEF Processes
    <3>2. QED
      BY <2>4, <3>1 DEF Overwrite, Becomes, Ends, Goes
  <2>5. CASE NextOrder(w)
    <3>1. \/ Ends(w)
          \/ \E o \in proc[w].orders :
               Becomes(w, "exhaust", o, proc[w].slot, proc[w].todo, proc[w].rows,
                       proc[w].orders \ {o})
      BY <2>5, WorkProc DEF Processes
    <3>2. QED
      BY <2>5, <3>1 DEF NextOrder, Becomes, Ends, Goes
  <2>6. CASE PollFails(w)
    BY <2>6, WorkProc DEF PollFails, Becomes, Ends, Goes, Returns
  <2>7. CASE Exhaust(w)
    BY <1>4, <2>7 DEF Processes
  <2> QED BY <1>6, <2>1, <2>2, <2>3, <2>4, <2>5, <2>6, <2>7 DEF Work
<1>7. ASSUME NEW p \in Processes, Fail(p) PROVE WorkInv'
  BY <1>7, FailProc DEF Fail, Becomes, Ends, Goes
<1>8. CASE Environment
  BY <1>8 DEF Environment, EscrowSets, SetAvailability, OfferAges
<1>9. CASE UNCHANGED vars
  BY <1>9 DEF vars
<1> QED BY <1>1, <1>2, <1>3, <1>4, <1>5, <1>6, <1>7, <1>8, <1>9 DEF Next,
  Handle, Processes

\* An offer that is made has its driver, and keeps him.
LEMMA OfferStep ==
  ASSUME TypeOK, SubjectInv, OfferInv, [Next]_vars
  PROVE  OfferInv'
<1> USE DEF OfferInv, tables, rows, counts, Processes
<1>1. ASSUME NEW p \in Requests, Assign(p) PROVE OfferInv'
  <2>1. ASSUME NEW o \in Orders, Place(p, o)
         PROVE  OfferInv'
    BY <2>1 DEF Place
  <2>2. CASE FindDrivers(p)
    BY <2>2 DEF FindDrivers
  <2>3. ASSUME NEW o \in Orders, NEW d \in Drivers, ManualAssign(p, o, d)
         PROVE  OfferInv'
    BY <2>3 DEF ManualAssign
  <2>4. CASE CountOffers(p)
    BY <2>4 DEF CountOffers
  <2>5. ASSUME NEW d \in Drivers, CreateOffer(p, d)
         PROVE  OfferInv'
    BY <2>5, CreateRows DEF CreateOffer
  <2> QED BY <1>1, <2>1, <2>2, <2>3, <2>4, <2>5 DEF Assign
<1>2. ASSUME NEW p \in Requests, Accept(p) PROVE OfferInv'
  <2>1. ASSUME NEW o \in Orders, NEW n \in Slots, AcceptStart(p, o, n)
         PROVE  OfferInv'
    BY <2>1 DEF AcceptStart
  <2>2. CASE AcceptClaim(p)
    BY <2>2 DEF AcceptClaim
  <2>3. CASE AcceptCommit(p)
    BY <2>3 DEF AcceptCommit, SetOffer, TypeOK, Subject, SubjectInv, RowSteps, TargetSteps,
      AcceptSteps, WorkerSteps, At, Processes
  <2>4. CASE AcceptExpire(p)
    BY <2>4 DEF AcceptExpire, TypeOK, Subject, SubjectInv, RowSteps, TargetSteps,
      AcceptSteps, WorkerSteps, At, Processes
  <2>5. CASE AcceptOffline(p)
    BY <2>5 DEF AcceptOffline
  <2>6. CASE AcceptAssign(p)
    BY <2>6 DEF AcceptAssign
  <2> QED BY <1>2, <2>1, <2>2, <2>3, <2>4, <2>5, <2>6 DEF Accept
<1>3. ASSUME NEW p \in Requests, Decline(p) PROVE OfferInv'
  <2>1. ASSUME NEW o \in Orders, NEW n \in Slots, DeclineStart(p, o, n)
         PROVE  OfferInv'
    BY <2>1 DEF DeclineStart
  <2>2. CASE DeclineWrite(p)
    BY <2>2 DEF DeclineWrite, SetOffer, TypeOK, Subject, SubjectInv, RowSteps, TargetSteps,
      AcceptSteps, WorkerSteps, At, Processes
  <2> QED BY <1>3, <2>1, <2>2 DEF Decline
<1>4. ASSUME NEW p \in Processes, Exhaust(p) PROVE OfferInv'
  <2>1. CASE CountLive(p)
    BY <2>1 DEF CountLive
  <2>2. CASE ResetOrder(p)
    BY <2>2 DEF ResetOrder
  <2>3. CASE AlertAdmins(p)
    BY <2>3 DEF AlertAdmins
  <2> QED BY <1>4, <2>1, <2>2, <2>3 DEF Exhaust
<1>5. ASSUME NEW p \in Requests, Complete(p) PROVE OfferInv'
  <2>1. ASSUME NEW o \in Orders, DeliverStart(p, o)
         PROVE  OfferInv'
    BY <2>1 DEF DeliverStart
  <2>2. CASE Deliver(p)
    BY <2>2 DEF Deliver
  <2>3. CASE FindActive(p)
    BY <2>3 DEF FindActive
  <2>4. CASE CompleteOffer(p)
    BY <2>4 DEF CompleteOffer, SetOffer, TypeOK, Subject, SubjectInv, RowSteps,
      TargetSteps, AcceptSteps, WorkerSteps, At, Processes
  <2>5. CASE FreeDriver(p)
    BY <2>5 DEF FreeDriver
  <2> QED BY <1>5, <2>1, <2>2, <2>3, <2>4, <2>5 DEF Complete
<1>6. ASSUME NEW w \in Workers, Work(w) \/ PollFails(w) PROVE OfferInv'
  <2>1. CASE Poll(w)
    BY <2>1 DEF Poll
  <2>2. CASE Lapse(w)
    BY <2>2 DEF Lapse, TypeOK, Subject, SubjectInv, RowSteps, TargetSteps, AcceptSteps,
      WorkerSteps, At, Processes
  <2>3. CASE FallbackRead(w)
    BY <2>3 DEF FallbackRead
  <2>4. ASSUME NEW r \in Rows, Overwrite(w, r)
         PROVE  OfferInv'
    BY <2>4 DEF Overwrite, SetOffer, TypeOK, Subject, SubjectInv, RowSteps, TargetSteps,
      AcceptSteps, WorkerSteps, At, Processes
  <2>5. CASE NextOrder(w)
    BY <2>5 DEF NextOrder
  <2>6. CASE PollFails(w)
    BY <2>6 DEF PollFails
  <2>7. CASE Exhaust(w)
    BY <1>4, <2>7 DEF Processes
  <2> QED BY <1>6, <2>1, <2>2, <2>3, <2>4, <2>5, <2>6, <2>7 DEF Work
<1>7. ASSUME NEW p \in Processes, Fail(p) PROVE OfferInv'
  BY <1>7 DEF Fail
<1>8. CASE Environment
  BY <1>8 DEF Environment, EscrowSets, SetAvailability, OfferAges
<1>9. CASE UNCHANGED vars
  BY <1>9 DEF vars
<1> QED BY <1>1, <1>2, <1>3, <1>4, <1>5, <1>6, <1>7, <1>8, <1>9 DEF Next,
  Handle, Processes

-----------------------------------------------------------------------------
(* The number of offers                                                    *)

\* Only the broadcast and manual assignments make offers.
Made ==
  \/ \A o \in Orders : Offers(o)' = Offers(o)
  \/ \E p \in Processes, d \in Drivers : CreateOffer(p, d)

\* Every step but the insertion of an offer keeps the set of offers.
LEMMA MadeStep ==
  ASSUME TypeOK, SubjectInv, [Next]_vars
  PROVE  Made
<1> USE DEF Made, Offers, tables, rows, counts
<1>1. ASSUME NEW p \in Requests, Assign(p) PROVE Made
  <2>1. ASSUME NEW o \in Orders, Place(p, o)
         PROVE  Made
    BY <2>1 DEF Place
  <2>2. CASE FindDrivers(p)
    BY <2>2 DEF FindDrivers
  <2>3. ASSUME NEW o \in Orders, NEW d \in Drivers, ManualAssign(p, o, d)
         PROVE  Made
    BY <2>3 DEF ManualAssign
  <2>4. CASE CountOffers(p)
    BY <2>4 DEF CountOffers
  <2>5. ASSUME NEW d \in Drivers, CreateOffer(p, d)
         PROVE  Made
    BY <2>5 DEF Made, Processes
  <2> QED BY <1>1, <2>1, <2>2, <2>3, <2>4, <2>5 DEF Assign
<1>2. ASSUME NEW p \in Requests, Accept(p) PROVE Made
  <2>1. ASSUME NEW o \in Orders, NEW n \in Slots, AcceptStart(p, o, n)
         PROVE  Made
    BY <2>1 DEF AcceptStart
  <2>2. CASE AcceptClaim(p)
    BY <2>2 DEF AcceptClaim
  <2>3. CASE AcceptCommit(p)
    BY <2>3 DEF AcceptCommit, SetOffer, TypeOK, Subject, SubjectInv, RowSteps, TargetSteps,
      AcceptSteps, WorkerSteps, At, Processes
  <2>4. CASE AcceptExpire(p)
    BY <2>4 DEF AcceptExpire, TypeOK, Subject, SubjectInv, RowSteps, TargetSteps,
      AcceptSteps, WorkerSteps, At, Processes
  <2>5. CASE AcceptOffline(p)
    BY <2>5 DEF AcceptOffline
  <2>6. CASE AcceptAssign(p)
    BY <2>6 DEF AcceptAssign
  <2> QED BY <1>2, <2>1, <2>2, <2>3, <2>4, <2>5, <2>6 DEF Accept
<1>3. ASSUME NEW p \in Requests, Decline(p) PROVE Made
  <2>1. ASSUME NEW o \in Orders, NEW n \in Slots, DeclineStart(p, o, n)
         PROVE  Made
    BY <2>1 DEF DeclineStart
  <2>2. CASE DeclineWrite(p)
    BY <2>2 DEF DeclineWrite, SetOffer, TypeOK, Subject, SubjectInv, RowSteps, TargetSteps,
      AcceptSteps, WorkerSteps, At, Processes
  <2> QED BY <1>3, <2>1, <2>2 DEF Decline
<1>4. ASSUME NEW p \in Processes, Exhaust(p) PROVE Made
  <2>1. CASE CountLive(p)
    BY <2>1 DEF CountLive
  <2>2. CASE ResetOrder(p)
    BY <2>2 DEF ResetOrder
  <2>3. CASE AlertAdmins(p)
    BY <2>3 DEF AlertAdmins
  <2> QED BY <1>4, <2>1, <2>2, <2>3 DEF Exhaust
<1>5. ASSUME NEW p \in Requests, Complete(p) PROVE Made
  <2>1. ASSUME NEW o \in Orders, DeliverStart(p, o)
         PROVE  Made
    BY <2>1 DEF DeliverStart
  <2>2. CASE Deliver(p)
    BY <2>2 DEF Deliver
  <2>3. CASE FindActive(p)
    BY <2>3 DEF FindActive
  <2>4. CASE CompleteOffer(p)
    BY <2>4 DEF CompleteOffer, SetOffer, TypeOK, Subject, SubjectInv, RowSteps,
      TargetSteps, AcceptSteps, WorkerSteps, At, Processes
  <2>5. CASE FreeDriver(p)
    BY <2>5 DEF FreeDriver
  <2> QED BY <1>5, <2>1, <2>2, <2>3, <2>4, <2>5 DEF Complete
<1>6. ASSUME NEW w \in Workers, Work(w) \/ PollFails(w) PROVE Made
  <2>1. CASE Poll(w)
    BY <2>1 DEF Poll
  <2>2. CASE Lapse(w)
    BY <2>2 DEF Lapse, TypeOK, Subject, SubjectInv, RowSteps, TargetSteps, AcceptSteps,
      WorkerSteps, At, Processes
  <2>3. CASE FallbackRead(w)
    BY <2>3 DEF FallbackRead
  <2>4. ASSUME NEW r \in Rows, Overwrite(w, r)
         PROVE  Made
    BY <2>4 DEF Overwrite, SetOffer, TypeOK, Subject, SubjectInv, RowSteps, TargetSteps,
      AcceptSteps, WorkerSteps, At, Processes
  <2>5. CASE NextOrder(w)
    BY <2>5 DEF NextOrder
  <2>6. CASE PollFails(w)
    BY <2>6 DEF PollFails
  <2>7. CASE Exhaust(w)
    BY <1>4, <2>7 DEF Processes
  <2> QED BY <1>6, <2>1, <2>2, <2>3, <2>4, <2>5, <2>6, <2>7 DEF Work
<1>7. ASSUME NEW p \in Processes, Fail(p) PROVE Made
  BY <1>7 DEF Fail
<1>8. CASE Environment
  BY <1>8 DEF Environment, EscrowSets, SetAvailability, OfferAges
<1>9. CASE UNCHANGED vars
  BY <1>9 DEF vars
<1> QED BY <1>1, <1>2, <1>3, <1>4, <1>5, <1>6, <1>7, <1>8, <1>9 DEF Next,
  Handle, Processes

\* A process that has fewer offers to make than before, or as many.
LEMMA CountShrinks ==
  ASSUME TypeOK, NEW o \in Orders, Counted(o), NEW p \in Processes,
         \A q \in Processes \ {p} : proc'[q] = proc[q],
         ToMake(p, o)' \subseteq ToMake(p, o),
         Offers(o)' = Offers(o),
         orderStatus'[o] = "none" => orderStatus[o] = "none",
         manuals' \in Nat, manuals <= manuals'
  PROVE  Counted(o)'
<1>1. \A q \in Processes : ToMake(q, o)' \subseteq ToMake(q, o)
  BY DEF ToMake
<1>2. Unmade(o)' \in SUBSET Unmade(o)
  BY <1>1 DEF Unmade
<1>3. /\ IsFiniteSet(Unmade(o)') /\ Cardinality(Unmade(o)') <= Cardinality(Unmade(o))
      /\ Cardinality(Unmade(o)) \in Nat /\ Cardinality(Unmade(o)') \in Nat
  BY <1>2, FS_Subset, FS_CardinalityType DEF Counted
<1>4. manuals \in Nat /\ Cardinality(Drivers) \in Nat /\ Cardinality(Offers(o)) \in Nat
  BY OffersAreFinite, SlotsAreNat, BoundsAreNat DEF TypeOK
<1>5. Cardinality(Offers(o)) + Cardinality(Unmade(o)') <= Cardinality(Drivers) + manuals'
  BY <1>3, <1>4 DEF Counted
<1>6. orderStatus'[o] = "none" => Offers(o)' = {} /\ Unmade(o)' = {}
  BY <1>2 DEF Counted
<1>7. QED
  BY <1>3, <1>5, <1>6 DEF Counted

\* A new order has as many offers to make as there are drivers.
LEMMA PlaceCount ==
  ASSUME TypeOK, SubjectInv, CountInv, NEW p \in Requests, NEW o \in Orders,
         Place(p, o)
  PROVE  CountInv'
<1>1. Becomes(p, "find", o, 0, {}, {}, {}) /\ p \in Processes
  BY AssignProc DEF Processes
<1>2. /\ orderStatus[o] = "none" /\ UNCHANGED <<offer, manuals>>
      /\ orderStatus' = [orderStatus EXCEPT ![o] = "awaiting_driver"]
  BY DEF Place, rows, counts
<1>3. \A x \in Orders : Offers(x)' = Offers(x)
  BY <1>2 DEF Offers
<1>4. ASSUME NEW x \in Orders, x # o PROVE Counted(x)'
  <2>1. ToMake(p, x)' = {}
    BY <1>1, <1>4 DEF ToMake, Becomes
  <2>2. orderStatus'[x] = orderStatus[x]
    BY <1>2, <1>4 DEF TypeOK
  <2>3. manuals' \in Nat /\ manuals <= manuals'
    BY <1>2, BoundsAreNat DEF TypeOK
  <2>4. QED
    BY <1>1, <1>3, <2>1, <2>2, <2>3, CountShrinks DEF CountInv, Becomes
<1>5. Counted(o)'
  <2>1. Offers(o) = {} /\ Unmade(o) = {}
    BY <1>2 DEF CountInv, Counted
  <2>2. \A q \in Processes \ {p} : \A d \in Drivers : d \notin ToMake(q, o)'
    <3>1. SUFFICES ASSUME NEW q \in Processes \ {p}, NEW d \in Drivers PROVE d \notin ToMake(q, o)'
      OBVIOUS
    <3>2. <<q, d>> \notin Unmade(o)
      BY <2>1
    <3>3. d \notin ToMake(q, o)
      BY <3>2 DEF Unmade
    <3>4. QED
      BY <1>1, <3>3 DEF ToMake, Becomes
  <2>3. Unmade(o)' \in SUBSET ({p} \X Drivers)
    BY <2>2 DEF Unmade
  <2>4. /\ IsFiniteSet({p} \X Drivers)
        /\ Cardinality({p} \X Drivers) = Cardinality({p}) * Cardinality(Drivers)
    BY FS_Product, FS_Singleton, DriversAreFinite
  <2>5. Cardinality({p} \X Drivers) = Cardinality(Drivers)
    <3>1. Cardinality({p}) = 1
      BY FS_Singleton
    <3>2. QED
      BY <2>4, <3>1, SlotsAreNat
  <2>6. /\ IsFiniteSet(Unmade(o)') /\ Cardinality(Unmade(o)') \in Nat
        /\ Cardinality(Unmade(o)') <= Cardinality(Drivers)
    BY <2>3, <2>4, <2>5, FS_Subset, FS_CardinalityType
  <2>7. Cardinality(Offers(o)') = 0
    BY <1>3, <2>1, FS_EmptySet
  <2>8. Cardinality(Offers(o)') + Cardinality(Unmade(o)') <= Cardinality(Drivers) + manuals'
    BY <1>2, <2>6, <2>7, SlotsAreNat, BoundsAreNat DEF TypeOK
  <2>9. orderStatus'[o] # "none"
    BY <1>2 DEF TypeOK
  <2>10. QED
    BY <2>6, <2>8, <2>9 DEF Counted
<1>6. QED
  BY <1>4, <1>5 DEF CountInv

\* A manual assignment adds one offer to make, and is counted.
LEMMA ManualCount ==
  ASSUME TypeOK, SubjectInv, CountInv, NEW p \in Requests, NEW o \in Orders,
         NEW d \in Drivers, ManualAssign(p, o, d)
  PROVE  CountInv'
<1>1. Becomes(p, "count", o, 0, {d}, {}, {}) /\ p \in Processes
  BY AssignProc DEF Processes
<1>2. orderStatus[o] # "none" /\ UNCHANGED <<offer, orderStatus>> /\ manuals' = manuals + 1
  BY DEF ManualAssign, tables, rows
<1>3. \A x \in Orders : Offers(x)' = Offers(x)
  BY <1>2 DEF Offers
<1>4. manuals \in Nat /\ manuals' \in Nat /\ manuals <= manuals'
  BY <1>2, BoundsAreNat DEF TypeOK
<1>5. ASSUME NEW x \in Orders, x # o PROVE Counted(x)'
  <2>1. ToMake(p, x)' = {}
    BY <1>1, <1>5 DEF ToMake, Becomes
  <2>2. QED
    BY <1>1, <1>2, <1>3, <1>4, <2>1, CountShrinks DEF CountInv, Becomes
<1>6. Counted(o)'
  <2>1. \A q \in Processes \ {p} : ToMake(q, o)' = ToMake(q, o)
    BY <1>1 DEF ToMake, Becomes
  <2>2. ToMake(p, o)' = {d}
    BY <1>1 DEF ToMake, Becomes
  <2>3. Unmade(o)' \in SUBSET (Unmade(o) \cup {<<p, d>>})
    BY <2>1, <2>2 DEF Unmade
  <2>4. IsFiniteSet(Unmade(o)) /\ Cardinality(Unmade(o)) \in Nat
    BY FS_CardinalityType DEF CountInv, Counted
  <2>5. /\ IsFiniteSet(Unmade(o) \cup {<<p, d>>})
        /\ Cardinality(Unmade(o) \cup {<<p, d>>}) <= Cardinality(Unmade(o)) + 1
    <3> DEFINE S == Unmade(o)
               x == <<p, d>>
    <3> HIDE DEF S, x
    <3>1. IsFiniteSet(S) /\ Cardinality(S) \in Nat
      BY <2>4 DEF S
    <3>2. /\ IsFiniteSet(S \cup {x})
          /\ Cardinality(S \cup {x}) = IF x \in S THEN Cardinality(S) ELSE Cardinality(S) + 1
      BY <3>1, FS_AddElement
    <3>3. IsFiniteSet(S \cup {x}) /\ Cardinality(S \cup {x}) <= Cardinality(S) + 1
      BY <3>1, <3>2
    <3>4. QED
      BY <3>3 DEF S, x
  <2>6. /\ IsFiniteSet(Unmade(o)') /\ Cardinality(Unmade(o)') \in Nat
        /\ Cardinality(Unmade(o)') <= Cardinality(Unmade(o) \cup {<<p, d>>})
    BY <2>3, <2>5, FS_Subset, FS_CardinalityType
  <2>7. Cardinality(Unmade(o) \cup {<<p, d>>}) \in Nat
    BY <2>5, FS_CardinalityType
  <2>8. Cardinality(Offers(o)) + Cardinality(Unmade(o)') <= Cardinality(Drivers) + manuals'
    <3>1. Cardinality(Offers(o)) + Cardinality(Unmade(o)) <= Cardinality(Drivers) + manuals
      BY DEF CountInv, Counted
    <3>2. QED
      BY <1>2, <1>4, <2>4, <2>5, <2>6, <2>7, <3>1, OffersAreFinite, SlotsAreNat
  <2>9. QED
    BY <1>2, <1>3, <2>6, <2>8 DEF Counted
<1>7. QED
  BY <1>5, <1>6 DEF CountInv

\* Making an offer moves it from those to be made to those there are.
LEMMA CreateCount ==
  ASSUME TypeOK, SubjectInv, CountInv, NEW p \in Processes, NEW d \in Drivers,
         CreateOffer(p, d)
  PROVE  CountInv'
<1>1. /\ UNCHANGED <<orderStatus, manuals>> /\ d \in proc[p].todo
      /\ manuals \in Nat
  BY BoundsAreNat DEF CreateOffer, TypeOK
<1>2. PICK o \in Orders, n \in Slots :
        /\ At(p, "create") /\ proc[p].order = o /\ proc[p].slot = n
        /\ \/ offer[o][n] # "none" /\ UNCHANGED <<offer, driverOf, alerts>>
           \/ /\ offer[o][n] = "none"
              /\ \A x \in Orders, m \in Slots :
                   offer'[x][m] = IF x = o /\ m = n THEN "notified" ELSE offer[x][m]
  BY <1>1, CreateRows
<1>3. \/ Ends(p) /\ (offer[o][n] = "none" => proc[p].todo = {d})
      \/ Becomes(p, "count", o, n, proc[p].todo \ {d}, proc[p].rows, proc[p].orders)
  BY <1>1, <1>2, AssignProc
<1>4. /\ \A q \in Processes \ {p} : proc'[q] = proc[q]
      /\ \A x \in Orders : ToMake(p, x)' \subseteq ToMake(p, x)
      /\ offer[o][n] = "none" => d \notin ToMake(p, o)'
      /\ ToMake(p, o) = proc[p].todo
  BY <1>2, <1>3 DEF ToMake, Becomes, Ends, At
<1>5. ASSUME NEW x \in Orders, x # o \/ offer[o][n] # "none" PROVE Counted(x)'
  <2>1. Offers(x)' = Offers(x)
    BY <1>2, <1>5 DEF Offers
  <2>2. QED
    BY <1>1, <1>4, <2>1, CountShrinks DEF CountInv
<1>6. CASE offer[o][n] = "none"
  <2>1. Offers(o)' = Offers(o) \cup {n} /\ n \notin Offers(o)
    BY <1>2, <1>6 DEF Offers
  <2>2. Cardinality(Offers(o)') = Cardinality(Offers(o)) + 1
    BY <2>1, FS_AddElement, OffersAreFinite
  <2>3. \A q \in Processes : ToMake(q, o)' \subseteq ToMake(q, o)
    BY <1>4 DEF ToMake
  <2>4. Unmade(o)' \in SUBSET (Unmade(o) \ {<<p, d>>}) /\ <<p, d>> \in Unmade(o)
    BY <1>1, <1>4, <1>6, <2>3 DEF Unmade
  <2>5. IsFiniteSet(Unmade(o)) /\ Cardinality(Unmade(o)) \in Nat
    BY FS_CardinalityType DEF CountInv, Counted
  <2>6. /\ IsFiniteSet(Unmade(o) \ {<<p, d>>})
        /\ Cardinality(Unmade(o) \ {<<p, d>>}) = Cardinality(Unmade(o)) - 1
    BY <2>4, <2>5, FS_RemoveElement
  <2>7. /\ IsFiniteSet(Unmade(o)') /\ Cardinality(Unmade(o)') \in Nat
        /\ Cardinality(Unmade(o)') <= Cardinality(Unmade(o) \ {<<p, d>>})
    BY <2>4, <2>6, FS_Subset, FS_CardinalityType
  <2>8. Cardinality(Offers(o)') + Cardinality(Unmade(o)') <= Cardinality(Drivers) + manuals
    <3>1. Cardinality(Offers(o)) + Cardinality(Unmade(o)) <= Cardinality(Drivers) + manuals
      BY DEF CountInv, Counted
    <3>2. QED
      BY <1>1, <2>2, <2>5, <2>6, <2>7, <3>1, OffersAreFinite, SlotsAreNat
  <2>9. orderStatus[o] # "none"
    BY <2>4 DEF CountInv, Counted
  <2>10. Counted(o)'
    BY <1>1, <2>7, <2>8, <2>9 DEF Counted
  <2>11. QED
    BY <1>5, <2>10 DEF CountInv
<1>7. QED
  BY <1>5, <1>6 DEF CountInv

\* Every step keeps the number of offers, those that make none first.
LEMMA RestCount ==
  ASSUME TypeOK, SubjectInv, CountInv,
         \A o \in Orders : Offers(o)' = Offers(o), [Next]_vars
  PROVE  CountInv'
<1> USE DEF CountInv
<1>0. manuals \in Nat /\ manuals <= manuals
  BY BoundsAreNat DEF TypeOK
<1>1. ASSUME NEW p \in Requests, Assign(p) PROVE CountInv'
  <2>1. ASSUME NEW o \in Orders, Place(p, o)
         PROVE  CountInv'
    BY <2>1, PlaceCount DEF Processes
  <2>2. CASE FindDrivers(p)
    <3>1. available \subseteq Drivers
      BY DEF TypeOK
    <3>2. /\ \A q \in Processes \ {p} : proc'[q] = proc[q]
          /\ \A x \in Orders : ToMake(p, x)' \subseteq ToMake(p, x)
      <4>1. /\ proc[p].pc = "find"
            /\ \/ Ends(p)
               \/ Becomes(p, "count", proc[p].order, proc[p].slot, available,
                          proc[p].rows, proc[p].orders)
        BY <2>2, AssignProc DEF FindDrivers, At, Processes
      <4>2. CASE Ends(p)
        BY <4>2 DEF ToMake, Becomes, Ends
      <4>3. CASE ~Ends(p)
        BY <4>1, <4>3, <3>1 DEF ToMake, Becomes
      <4>4. QED
        BY <4>2, <4>3
    <3>3. UNCHANGED <<manuals, orderStatus>>
      BY <2>2 DEF FindDrivers, counts, tables
    <3>4. QED
      BY <3>2, <3>3, CountShrinks, <1>0 DEF Processes
  <2>3. ASSUME NEW o \in Orders, NEW d \in Drivers, ManualAssign(p, o, d)
         PROVE  CountInv'
    BY <2>3, ManualCount DEF Processes
  <2>4. CASE CountOffers(p)
    <3>1. /\ \A q \in Processes \ {p} : proc'[q] = proc[q]
          /\ \A x \in Orders : ToMake(p, x)' \subseteq ToMake(p, x)
      BY <2>4, AssignProc, ProcessTypes DEF CountOffers, At, Processes, ToMake, Becomes,
        Ends, Goes, Returns
    <3>2. UNCHANGED manuals /\ \A x \in Orders : orderStatus'[x] = "none" => orderStatus[x] = "none"
      BY <2>4 DEF CountOffers, counts, tables, TypeOK
    <3>3. QED
      BY <3>1, <3>2, CountShrinks, <1>0 DEF Processes
  <2>5. ASSUME NEW d \in Drivers, CreateOffer(p, d)
         PROVE  CountInv'
    BY <2>5, CreateCount DEF Processes
  <2> QED BY <1>1, <2>1, <2>2, <2>3, <2>4, <2>5 DEF Assign
<1>2. ASSUME NEW p \in Requests, Accept(p) PROVE CountInv'
  <2>1. ASSUME NEW o \in Orders, NEW n \in Slots, AcceptStart(p, o, n)
         PROVE  CountInv'
    <3>1. /\ \A q \in Processes \ {p} : proc'[q] = proc[q]
          /\ \A x \in Orders : ToMake(p, x)' \subseteq ToMake(p, x)
      BY <2>1, AcceptProc, ProcessTypes DEF AcceptStart, At, Processes, ToMake, Becomes,
        Ends, Goes, Returns
    <3>2. UNCHANGED manuals /\ \A x \in Orders : orderStatus'[x] = "none" => orderStatus[x] = "none"
      BY <2>1 DEF AcceptStart, counts, tables, TypeOK
    <3>3. QED
      BY <3>1, <3>2, CountShrinks, <1>0 DEF Processes
  <2>2. CASE AcceptClaim(p)
    <3>1. /\ \A q \in Processes \ {p} : proc'[q] = proc[q]
          /\ \A x \in Orders : ToMake(p, x)' \subseteq ToMake(p, x)
      BY <2>2, AcceptProc, ProcessTypes DEF AcceptClaim, At, Processes, ToMake, Becomes,
        Ends, Goes, Returns
    <3>2. UNCHANGED manuals /\ \A x \in Orders : orderStatus'[x] = "none" => orderStatus[x] = "none"
      BY <2>2 DEF AcceptClaim, counts, tables, TypeOK
    <3>3. QED
      BY <3>1, <3>2, CountShrinks, <1>0 DEF Processes
  <2>3. CASE AcceptCommit(p)
    <3>1. /\ \A q \in Processes \ {p} : proc'[q] = proc[q]
          /\ \A x \in Orders : ToMake(p, x)' \subseteq ToMake(p, x)
      BY <2>3, AcceptProc, ProcessTypes DEF AcceptCommit, At, Processes, ToMake, Becomes,
        Ends, Goes, Returns
    <3>2. UNCHANGED manuals /\ \A x \in Orders : orderStatus'[x] = "none" => orderStatus[x] = "none"
      BY <2>3 DEF AcceptCommit, counts, tables, TypeOK
    <3>3. QED
      BY <3>1, <3>2, CountShrinks, <1>0 DEF Processes
  <2>4. CASE AcceptExpire(p)
    <3>1. /\ \A q \in Processes \ {p} : proc'[q] = proc[q]
          /\ \A x \in Orders : ToMake(p, x)' \subseteq ToMake(p, x)
      BY <2>4, AcceptProc, ProcessTypes DEF AcceptExpire, At, Processes, ToMake, Becomes,
        Ends, Goes, Returns
    <3>2. UNCHANGED manuals /\ \A x \in Orders : orderStatus'[x] = "none" => orderStatus[x] = "none"
      BY <2>4 DEF AcceptExpire, counts, tables, TypeOK
    <3>3. QED
      BY <3>1, <3>2, CountShrinks, <1>0 DEF Processes
  <2>5. CASE AcceptOffline(p)
    <3>1. /\ \A q \in Processes \ {p} : proc'[q] = proc[q]
          /\ \A x \in Orders : ToMake(p, x)' \subseteq ToMake(p, x)
      BY <2>5, AcceptProc, ProcessTypes DEF AcceptOffline, At, Processes, ToMake, Becomes,
        Ends, Goes, Returns
    <3>2. UNCHANGED manuals /\ \A x \in Orders : orderStatus'[x] = "none" => orderStatus[x] = "none"
      BY <2>5 DEF AcceptOffline, counts, tables, TypeOK
    <3>3. QED
      BY <3>1, <3>2, CountShrinks, <1>0 DEF Processes
  <2>6. CASE AcceptAssign(p)
    <3>1. /\ \A q \in Processes \ {p} : proc'[q] = proc[q]
          /\ \A x \in Orders : ToMake(p, x)' \subseteq ToMake(p, x)
      BY <2>6, AcceptProc, ProcessTypes DEF AcceptAssign, At, Processes, ToMake, Becomes,
        Ends, Goes, Returns
    <3>2. UNCHANGED manuals /\ \A x \in Orders : orderStatus'[x] = "none" => orderStatus[x] = "none"
      BY <2>6 DEF AcceptAssign, counts, tables, TypeOK
    <3>3. QED
      BY <3>1, <3>2, CountShrinks, <1>0 DEF Processes
  <2> QED BY <1>2, <2>1, <2>2, <2>3, <2>4, <2>5, <2>6 DEF Accept
<1>3. ASSUME NEW p \in Requests, Decline(p) PROVE CountInv'
  <2>1. ASSUME NEW o \in Orders, NEW n \in Slots, DeclineStart(p, o, n)
         PROVE  CountInv'
    <3>1. /\ \A q \in Processes \ {p} : proc'[q] = proc[q]
          /\ \A x \in Orders : ToMake(p, x)' \subseteq ToMake(p, x)
      BY <2>1, DeclineProc, ProcessTypes DEF DeclineStart, At, Processes, ToMake, Becomes,
        Ends, Goes, Returns
    <3>2. UNCHANGED manuals /\ \A x \in Orders : orderStatus'[x] = "none" => orderStatus[x] = "none"
      BY <2>1 DEF DeclineStart, counts, tables, TypeOK
    <3>3. QED
      BY <3>1, <3>2, CountShrinks, <1>0 DEF Processes
  <2>2. CASE DeclineWrite(p)
    <3>1. /\ \A q \in Processes \ {p} : proc'[q] = proc[q]
          /\ \A x \in Orders : ToMake(p, x)' \subseteq ToMake(p, x)
      BY <2>2, DeclineProc, ProcessTypes DEF DeclineWrite, At, Processes, ToMake, Becomes,
        Ends, Goes, Returns
    <3>2. UNCHANGED manuals /\ \A x \in Orders : orderStatus'[x] = "none" => orderStatus[x] = "none"
      BY <2>2 DEF DeclineWrite, counts, tables, TypeOK
    <3>3. QED
      BY <3>1, <3>2, CountShrinks, <1>0 DEF Processes
  <2> QED BY <1>3, <2>1, <2>2 DEF Decline
<1>4. ASSUME NEW p \in Processes, Exhaust(p) PROVE CountInv'
  <2>1. CASE CountLive(p)
    <3>1. /\ \A q \in Processes \ {p} : proc'[q] = proc[q]
          /\ \A x \in Orders : ToMake(p, x)' \subseteq ToMake(p, x)
      BY <2>1, ExhaustProc, ProcessTypes DEF CountLive, At, Processes, ToMake, Becomes,
        Ends, Goes, Returns
    <3>2. UNCHANGED manuals /\ \A x \in Orders : orderStatus'[x] = "none" => orderStatus[x] = "none"
      BY <2>1 DEF CountLive, counts, tables, TypeOK
    <3>3. QED
      BY <3>1, <3>2, CountShrinks, <1>0 DEF Processes
  <2>2. CASE ResetOrder(p)
    <3>1. /\ \A q \in Processes \ {p} : proc'[q] = proc[q]
          /\ \A x \in Orders : ToMake(p, x)' \subseteq ToMake(p, x)
      BY <2>2, ExhaustProc, ProcessTypes DEF ResetOrder, At, Processes, ToMake, Becomes,
        Ends, Goes, Returns
    <3>2. UNCHANGED manuals /\ \A x \in Orders : orderStatus'[x] = "none" => orderStatus[x] = "none"
      BY <2>2 DEF ResetOrder, counts, tables, TypeOK
    <3>3. QED
      BY <3>1, <3>2, CountShrinks, <1>0 DEF Processes
  <2>3. CASE AlertAdmins(p)
    <3>1. /\ \A q \in Processes \ {p} : proc'[q] = proc[q]
          /\ \A x \in Orders : ToMake(p, x)' \subseteq ToMake(p, x)
      BY <2>3, ExhaustProc, ProcessTypes DEF AlertAdmins, At, Processes, ToMake, Becomes,
        Ends, Goes, Returns
    <3>2. UNCHANGED manuals /\ \A x \in Orders : orderStatus'[x] = "none" => orderStatus[x] = "none"
      BY <2>3 DEF AlertAdmins, counts, tables, TypeOK
    <3>3. QED
      BY <3>1, <3>2, CountShrinks, <1>0 DEF Processes
  <2> QED BY <1>4, <2>1, <2>2, <2>3 DEF Exhaust
<1>5. ASSUME NEW p \in Requests, Complete(p) PROVE CountInv'
  <2>1. ASSUME NEW o \in Orders, DeliverStart(p, o)
         PROVE  CountInv'
    <3>1. /\ \A q \in Processes \ {p} : proc'[q] = proc[q]
          /\ \A x \in Orders : ToMake(p, x)' \subseteq ToMake(p, x)
      BY <2>1, CompleteProc, ProcessTypes DEF DeliverStart, At, Processes, ToMake, Becomes,
        Ends, Goes, Returns
    <3>2. UNCHANGED manuals /\ \A x \in Orders : orderStatus'[x] = "none" => orderStatus[x] = "none"
      BY <2>1 DEF DeliverStart, counts, tables, TypeOK
    <3>3. QED
      BY <3>1, <3>2, CountShrinks, <1>0 DEF Processes
  <2>2. CASE Deliver(p)
    <3>1. /\ \A q \in Processes \ {p} : proc'[q] = proc[q]
          /\ \A x \in Orders : ToMake(p, x)' \subseteq ToMake(p, x)
      BY <2>2, CompleteProc, ProcessTypes DEF Deliver, At, Processes, ToMake, Becomes,
        Ends, Goes, Returns
    <3>2. UNCHANGED manuals /\ \A x \in Orders : orderStatus'[x] = "none" => orderStatus[x] = "none"
      BY <2>2 DEF Deliver, counts, tables, TypeOK
    <3>3. QED
      BY <3>1, <3>2, CountShrinks, <1>0 DEF Processes
  <2>3. CASE FindActive(p)
    <3>1. /\ \A q \in Processes \ {p} : proc'[q] = proc[q]
          /\ \A x \in Orders : ToMake(p, x)' \subseteq ToMake(p, x)
      BY <2>3, CompleteProc, ProcessTypes DEF FindActive, At, Processes, ToMake, Becomes,
        Ends, Goes, Returns
    <3>2. UNCHANGED manuals /\ \A x \in Orders : orderStatus'[x] = "none" => orderStatus[x] = "none"
      BY <2>3 DEF FindActive, counts, tables, TypeOK
    <3>3. QED
      BY <3>1, <3>2, CountShrinks, <1>0 DEF Processes
  <2>4. CASE CompleteOffer(p)
    <3>1. /\ \A q \in Processes \ {p} : proc'[q] = proc[q]
          /\ \A x \in Orders : ToMake(p, x)' \subseteq ToMake(p, x)
      BY <2>4, CompleteProc, ProcessTypes DEF CompleteOffer, At, Processes, ToMake,
        Becomes, Ends, Goes, Returns
    <3>2. UNCHANGED manuals /\ \A x \in Orders : orderStatus'[x] = "none" => orderStatus[x] = "none"
      BY <2>4 DEF CompleteOffer, counts, tables, TypeOK
    <3>3. QED
      BY <3>1, <3>2, CountShrinks, <1>0 DEF Processes
  <2>5. CASE FreeDriver(p)
    <3>1. /\ \A q \in Processes \ {p} : proc'[q] = proc[q]
          /\ \A x \in Orders : ToMake(p, x)' \subseteq ToMake(p, x)
      BY <2>5, CompleteProc, ProcessTypes DEF FreeDriver, At, Processes, ToMake, Becomes,
        Ends, Goes, Returns
    <3>2. UNCHANGED manuals /\ \A x \in Orders : orderStatus'[x] = "none" => orderStatus[x] = "none"
      BY <2>5 DEF FreeDriver, counts, tables, TypeOK
    <3>3. QED
      BY <3>1, <3>2, CountShrinks, <1>0 DEF Processes
  <2> QED BY <1>5, <2>1, <2>2, <2>3, <2>4, <2>5 DEF Complete
<1>6. ASSUME NEW w \in Workers, Work(w) \/ PollFails(w) PROVE CountInv'
  <2>1. CASE Poll(w)
    <3>1. /\ \A q \in Processes \ {w} : proc'[q] = proc[q]
          /\ \A x \in Orders : ToMake(w, x)' \subseteq ToMake(w, x)
      BY <2>1, WorkProc, ProcessTypes DEF Poll, At, Processes, ToMake, Becomes, Ends, Goes,
        Returns
    <3>2. UNCHANGED manuals /\ \A x \in Orders : orderStatus'[x] = "none" => orderStatus[x] = "none"
      BY <2>1 DEF Poll, counts, tables, TypeOK
    <3>3. QED
      BY <3>1, <3>2, CountShrinks, <1>0 DEF Processes
  <2>2. CASE Lapse(w)
    <3>1. /\ \A q \in Processes \ {w} : proc'[q] = proc[q]
          /\ \A x \in Orders : ToMake(w, x)' \subseteq ToMake(w, x)
      BY <2>2, WorkProc, ProcessTypes DEF Lapse, At, Processes, ToMake, Becomes, Ends,
        Goes, Returns
    <3>2. UNCHANGED manuals /\ \A x \in Orders : orderStatus'[x] = "none" => orderStatus[x] = "none"
      BY <2>2 DEF Lapse, counts, tables, TypeOK
    <3>3. QED
      BY <3>1, <3>2, CountShrinks, <1>0 DEF Processes
  <2>3. CASE FallbackRead(w)
    <3>1. /\ \A q \in Processes \ {w} : proc'[q] = proc[q]
          /\ \A x \in Orders : ToMake(w, x)' \subseteq ToMake(w, x)
      BY <2>3, WorkProc, ProcessTypes DEF FallbackRead, At, Processes, ToMake, Becomes,
        Ends, Goes, Returns
    <3>2. UNCHANGED manuals /\ \A x \in Orders : orderStatus'[x] = "none" => orderStatus[x] = "none"
      BY <2>3 DEF FallbackRead, counts, tables, TypeOK
    <3>3. QED
      BY <3>1, <3>2, CountShrinks, <1>0 DEF Processes
  <2>4. ASSUME NEW r \in Rows, Overwrite(w, r)
         PROVE  CountInv'
    <3>1. /\ \A q \in Processes \ {w} : proc'[q] = proc[q]
          /\ \A x \in Orders : ToMake(w, x)' \subseteq ToMake(w, x)
      BY <2>4, WorkProc, ProcessTypes DEF Overwrite, At, Processes, ToMake, Becomes, Ends,
        Goes, Returns
    <3>2. UNCHANGED manuals /\ \A x \in Orders : orderStatus'[x] = "none" => orderStatus[x] = "none"
      BY <2>4 DEF Overwrite, counts, tables, TypeOK
    <3>3. QED
      BY <3>1, <3>2, CountShrinks, <1>0 DEF Processes
  <2>5. CASE NextOrder(w)
    <3>1. /\ \A q \in Processes \ {w} : proc'[q] = proc[q]
          /\ \A x \in Orders : ToMake(w, x)' \subseteq ToMake(w, x)
      BY <2>5, WorkProc, ProcessTypes DEF NextOrder, At, Processes, ToMake, Becomes, Ends,
        Goes, Returns
    <3>2. UNCHANGED manuals /\ \A x \in Orders : orderStatus'[x] = "none" => orderStatus[x] = "none"
      BY <2>5 DEF NextOrder, counts, tables, TypeOK
    <3>3. QED
      BY <3>1, <3>2, CountShrinks, <1>0 DEF Processes
  <2>6. CASE PollFails(w)
    <3>1. /\ \A q \in Processes \ {w} : proc'[q] = proc[q]
          /\ \A x \in Orders : ToMake(w, x)' \subseteq ToMake(w, x)
      BY <2>6, WorkProc, ProcessTypes DEF PollFails, At, Processes, ToMake, Becomes, Ends,
        Goes, Returns
    <3>2. UNCHANGED manuals /\ \A x \in Orders : orderStatus'[x] = "none" => orderStatus[x] = "none"
      BY <2>6 DEF PollFails, counts, tables, TypeOK
    <3>3. QED
      BY <3>1, <3>2, CountShrinks, <1>0 DEF Processes
  <2>7. CASE Exhaust(w)
    BY <1>4, <2>7 DEF Processes
  <2> QED BY <1>6, <2>1, <2>2, <2>3, <2>4, <2>5, <2>6, <2>7 DEF Work
<1>7. ASSUME NEW p \in Processes, Fail(p) PROVE CountInv'
  <2>1. /\ \A q \in Processes \ {p} : proc'[q] = proc[q]
        /\ \A x \in Orders : ToMake(p, x)' \subseteq ToMake(p, x)
    BY <1>7, FailProc DEF ToMake, Becomes, Ends, Goes
  <2>2. UNCHANGED <<manuals, orderStatus>>
    BY <1>7 DEF Fail, tables
  <2>3. QED
    BY <2>1, <2>2, CountShrinks, <1>0
<1>8. CASE Environment
  <2>1. UNCHANGED <<proc, manuals>>
    BY <1>8 DEF Environment, EscrowSets, SetAvailability, OfferAges, counts
  <2>2. \A x \in Orders : orderStatus'[x] = "none" => orderStatus[x] = "none"
    BY <1>8 DEF Environment, EscrowSets, SetAvailability, OfferAges, TypeOK
  <2>3. \A x \in Orders : Unmade(x)' = Unmade(x)
    BY <2>1 DEF Unmade, ToMake
  <2>4. QED
    BY <2>1, <2>2, <2>3 DEF Counted
<1>9. CASE UNCHANGED vars
  <2>1. UNCHANGED <<proc, manuals, orderStatus>>
    BY <1>9 DEF vars, counts, tables
  <2>2. \A x \in Orders : Unmade(x)' = Unmade(x)
    BY <2>1 DEF Unmade, ToMake
  <2>3. QED
    BY <2>1, <2>2 DEF Counted
<1> QED BY <1>1, <1>2, <1>3, <1>4, <1>5, <1>6, <1>7, <1>8, <1>9 DEF Next,
  Handle, Processes

\* The offers made and to be made are counted through every step.
LEMMA CountStep ==
  ASSUME TypeOK, TypeOK', SubjectInv, CountInv, [Next]_vars
  PROVE  CountInv'
BY MadeStep, CreateCount, RestCount DEF Made

-----------------------------------------------------------------------------
(* Locks                                                                   *)

LockKept ==
  \A q \in Processes, o \in Orders, n \in Slots :
    Holds(q, o, n)' => Holds(q, o, n) /\ offer'[o][n] = offer[o][n]

\* An offer is locked where a process holds it.
LEMMA LockedIsHeld ==
  ASSUME NEW o, NEW n
  PROVE  Locked(o, n) <=> \E q \in Processes : Holds(q, o, n)
BY DEF Locked, Holds

\* Steps that take no lock keep the invariant of the locks.
LEMMA FewerLocks ==
  ASSUME LockInv, LockKept
  PROVE  LockInv'
<1>1. SUFFICES ASSUME NEW p \in Processes, NEW o \in Orders, NEW n \in Slots, Holds(p, o, n)'
               PROVE  /\ offer'[o][n] = "notified"
                      /\ \A q \in Processes : Holds(q, o, n)' => q = p
  BY DEF LockInv
<1>2. Holds(p, o, n) /\ offer'[o][n] = offer[o][n]
  BY <1>1 DEF LockKept
<1>3. QED
  BY <1>2 DEF LockInv, LockKept

\* Process p lets go of its locks, or has none; the offers it changes are not
\* held by others.
LEMMA OwnLocks ==
  ASSUME NEW p \in Processes, \A q \in Processes \ {p} : proc'[q] = proc[q],
         proc'[p].pc \notin {"claimed", "lapse"},
         \A q \in Processes \ {p}, o \in Orders, n \in Slots :
           Holds(q, o, n) => offer'[o][n] = offer[o][n]
  PROVE  LockKept
BY DEF LockKept, Holds, At

\* A process holds its offers alone.
LEMMA LockStep ==
  ASSUME TypeOK, SubjectInv, CountInv, LockInv, [Next]_vars
  PROVE  LockInv'
<1>1. ASSUME NEW p \in Requests, Assign(p) PROVE LockInv'
  <2>1. ASSUME NEW o \in Orders, Place(p, o)
         PROVE  LockInv'
    <3>1. /\ \A q \in Processes \ {p} : proc'[q] = proc[q]
          /\ proc'[p].pc \notin {"claimed", "lapse"}
      BY <2>1, AssignProc DEF Place, At, Processes, Becomes, Ends, Goes, Returns
    <3>2. UNCHANGED offer
      BY <2>1 DEF Place, tables, rows
    <3>3. QED
      BY <3>1, <3>2, OwnLocks, FewerLocks DEF Processes
  <2>2. CASE FindDrivers(p)
    <3>1. /\ \A q \in Processes \ {p} : proc'[q] = proc[q]
          /\ proc'[p].pc \notin {"claimed", "lapse"}
      BY <2>2, AssignProc DEF FindDrivers, At, Processes, Becomes, Ends, Goes, Returns
    <3>2. UNCHANGED offer
      BY <2>2 DEF FindDrivers, tables, rows
    <3>3. QED
      BY <3>1, <3>2, OwnLocks, FewerLocks DEF Processes
  <2>3. ASSUME NEW o \in Orders, NEW d \in Drivers, ManualAssign(p, o, d)
         PROVE  LockInv'
    <3>0. Becomes(p, "count", o, 0, {d}, {}, {})
      BY <2>3, AssignProc DEF Processes
    <3>1. /\ \A q \in Processes \ {p} : proc'[q] = proc[q]
          /\ proc'[p].pc \notin {"claimed", "lapse"}
      BY <3>0 DEF Becomes
    <3>2. UNCHANGED offer
      BY <2>3 DEF ManualAssign, tables, rows
    <3>3. QED
      BY <3>1, <3>2, OwnLocks, FewerLocks DEF Processes
  <2>4. CASE CountOffers(p)
    <3>1. /\ \A q \in Processes \ {p} : proc'[q] = proc[q]
          /\ proc'[p].pc \notin {"claimed", "lapse"}
      BY <2>4, AssignProc DEF CountOffers, At, Processes, Becomes, Ends, Goes, Returns
    <3>2. UNCHANGED offer
      BY <2>4 DEF CountOffers, tables, rows
    <3>3. QED
      BY <3>1, <3>2, OwnLocks, FewerLocks DEF Processes
  <2>5. ASSUME NEW d \in Drivers, CreateOffer(p, d)
         PROVE  LockInv'
    <3>1. /\ \A q \in Processes \ {p} : proc'[q] = proc[q]
          /\ proc'[p].pc \notin {"claimed", "lapse"}
      BY <2>5, AssignProc DEF Processes, Becomes, Ends, Goes, Returns
    <3>2. \A x \in Orders, m \in Slots : offer[x][m] # "none" => offer'[x][m] = offer[x][m]
      BY <2>5, CreateRows DEF Processes
    <3>3. \A q \in Processes \ {p}, x \in Orders, m \in Slots :
            Holds(q, x, m) => offer'[x][m] = offer[x][m]
      BY <3>2 DEF LockInv
    <3>4. QED
      BY <3>1, <3>3, OwnLocks, FewerLocks DEF Processes
  <2> QED BY <1>1, <2>1, <2>2, <2>3, <2>4, <2>5 DEF Assign
<1>2. ASSUME NEW p \in Requests, Accept(p) PROVE LockInv'
  <2>1. ASSUME NEW o \in Orders, NEW n \in Slots, AcceptStart(p, o, n)
         PROVE  LockInv'
    <3>1. /\ \A q \in Processes \ {p} : proc'[q] = proc[q]
          /\ proc'[p].pc \notin {"claimed", "lapse"}
      BY <2>1, AcceptProc DEF AcceptStart, At, Processes, Becomes, Ends, Goes, Returns
    <3>2. UNCHANGED offer
      BY <2>1 DEF AcceptStart, tables, rows
    <3>3. QED
      BY <3>1, <3>2, OwnLocks, FewerLocks DEF Processes
  <2>2. CASE AcceptClaim(p)
    <3>1. CASE proc'[p].pc # "claimed"
      <4>1. /\ \A q \in Processes \ {p} : proc'[q] = proc[q]
            /\ proc'[p].pc \notin {"claimed", "lapse"}
        BY <2>2, <3>1, AcceptProc DEF Processes, Becomes, Ends, Goes
      <4>2. UNCHANGED offer
        BY <2>2 DEF AcceptClaim, tables, rows
      <4>3. QED
        BY <4>1, <4>2, OwnLocks, FewerLocks DEF Processes
    <3>2. CASE proc'[p].pc = "claimed"
      <4>1. /\ Goes(p, "claimed") /\ UNCHANGED offer
            /\ offer[proc[p].order][proc[p].slot] = "notified"
            /\ ~Locked(proc[p].order, proc[p].slot)
        BY <2>2, <3>2, AcceptProc DEF AcceptClaim, tables, rows, Processes, Becomes, Ends
      <4>2. \A q \in Processes : ~Holds(q, proc[p].order, proc[p].slot)
        BY <4>1, LockedIsHeld
      <4>3. \A o \in Orders, n \in Slots :
              Holds(p, o, n)' => o = proc[p].order /\ n = proc[p].slot
        BY <4>1 DEF Holds, At, Goes, Becomes
      <4>4. \A q \in Processes \ {p}, o \in Orders, n \in Slots :
              Holds(q, o, n)' <=> Holds(q, o, n)
        BY <4>1 DEF Holds, At, Goes, Becomes
      <4>5. QED
        BY <4>1, <4>2, <4>3, <4>4 DEF LockInv
    <3>3. QED
      BY <3>1, <3>2
  <2>3. CASE AcceptCommit(p)
    <3>1. /\ \A q \in Processes \ {p} : proc'[q] = proc[q]
          /\ proc'[p].pc \notin {"claimed", "lapse"}
      BY <2>3, AcceptProc DEF Processes, Becomes, Ends, Goes, Returns
    <3>2. \A q \in Processes \ {p}, x \in Orders, m \in Slots :
            Holds(q, x, m) => offer'[x][m] = offer[x][m]
      BY <2>3, LockedIsHeld DEF AcceptCommit, SetOffer, TypeOK, LockInv, Holds, At,
        Processes
    <3>3. QED
      BY <3>1, <3>2, OwnLocks, FewerLocks DEF Processes
  <2>4. CASE AcceptExpire(p)
    <3>1. /\ \A q \in Processes \ {p} : proc'[q] = proc[q]
          /\ proc'[p].pc \notin {"claimed", "lapse"}
      BY <2>4, AcceptProc DEF Processes, Becomes, Ends, Goes, Returns
    <3>2. \A q \in Processes \ {p}, x \in Orders, m \in Slots :
            Holds(q, x, m) => offer'[x][m] = offer[x][m]
      BY <2>4, LockedIsHeld DEF AcceptExpire, SetOffer, TypeOK, LockInv, Holds, At,
        Processes
    <3>3. QED
      BY <3>1, <3>2, OwnLocks, FewerLocks DEF Processes
  <2>5. CASE AcceptOffline(p)
    <3>1. /\ \A q \in Processes \ {p} : proc'[q] = proc[q]
          /\ proc'[p].pc \notin {"claimed", "lapse"}
      BY <2>5, AcceptProc DEF AcceptOffline, At, Processes, Becomes, Ends, Goes, Returns
    <3>2. UNCHANGED offer
      BY <2>5 DEF AcceptOffline, tables, rows
    <3>3. QED
      BY <3>1, <3>2, OwnLocks, FewerLocks DEF Processes
  <2>6. CASE AcceptAssign(p)
    <3>1. /\ \A q \in Processes \ {p} : proc'[q] = proc[q]
          /\ proc'[p].pc \notin {"claimed", "lapse"}
      BY <2>6, AcceptProc DEF AcceptAssign, At, Processes, Becomes, Ends, Goes, Returns
    <3>2. UNCHANGED offer
      BY <2>6 DEF AcceptAssign, tables, rows
    <3>3. QED
      BY <3>1, <3>2, OwnLocks, FewerLocks DEF Processes
  <2> QED BY <1>2, <2>1, <2>2, <2>3, <2>4, <2>5, <2>6 DEF Accept
<1>3. ASSUME NEW p \in Requests, Decline(p) PROVE LockInv'
  <2>1. ASSUME NEW o \in Orders, NEW n \in Slots, DeclineStart(p, o, n)
         PROVE  LockInv'
    <3>1. /\ \A q \in Processes \ {p} : proc'[q] = proc[q]
          /\ proc'[p].pc \notin {"claimed", "lapse"}
      BY <2>1, DeclineProc DEF DeclineStart, At, Processes, Becomes, Ends, Goes, Returns
    <3>2. UNCHANGED offer
      BY <2>1 DEF DeclineStart, tables, rows
    <3>3. QED
      BY <3>1, <3>2, OwnLocks, FewerLocks DEF Processes
  <2>2. CASE DeclineWrite(p)
    <3>1. /\ \A q \in Processes \ {p} : proc'[q] = proc[q]
          /\ proc'[p].pc \notin {"claimed", "lapse"}
      BY <2>2, DeclineProc DEF Processes, Becomes, Ends, Goes, Returns
    <3>2. \A q \in Processes \ {p}, x \in Orders, m \in Slots :
            Holds(q, x, m) => offer'[x][m] = offer[x][m]
      BY <2>2, LockedIsHeld DEF DeclineWrite, SetOffer, TypeOK, LockInv, Holds, At,
        Processes
    <3>3. QED
      BY <3>1, <3>2, OwnLocks, FewerLocks DEF Processes
  <2> QED BY <1>3, <2>1, <2>2 DEF Decline
<1>4. ASSUME NEW p \in Processes, Exhaust(p) PROVE LockInv'
  <2>1. CASE CountLive(p)
    <3>1. /\ \A q \in Processes \ {p} : proc'[q] = proc[q]
          /\ proc'[p].pc \notin {"claimed", "lapse"}
      BY <2>1, ExhaustProc DEF CountLive, At, Processes, Becomes, Ends, Goes, Returns
    <3>2. UNCHANGED offer
      BY <2>1 DEF CountLive, tables, rows
    <3>3. QED
      BY <3>1, <3>2, OwnLocks, FewerLocks DEF Processes
  <2>2. CASE ResetOrder(p)
    <3>1. /\ \A q \in Processes \ {p} : proc'[q] = proc[q]
          /\ proc'[p].pc \notin {"claimed", "lapse"}
      BY <2>2, ExhaustProc DEF ResetOrder, At, Processes, Becomes, Ends, Goes, Returns
    <3>2. UNCHANGED offer
      BY <2>2 DEF ResetOrder, tables, rows
    <3>3. QED
      BY <3>1, <3>2, OwnLocks, FewerLocks DEF Processes
  <2>3. CASE AlertAdmins(p)
    <3>1. /\ \A q \in Processes \ {p} : proc'[q] = proc[q]
          /\ proc'[p].pc \notin {"claimed", "lapse"}
      BY <2>3, ExhaustProc DEF AlertAdmins, At, Processes, Becomes, Ends, Goes, Returns
    <3>2. UNCHANGED offer
      BY <2>3 DEF AlertAdmins, tables, rows
    <3>3. QED
      BY <3>1, <3>2, OwnLocks, FewerLocks DEF Processes
  <2> QED BY <1>4, <2>1, <2>2, <2>3 DEF Exhaust
<1>5. ASSUME NEW p \in Requests, Complete(p) PROVE LockInv'
  <2>1. ASSUME NEW o \in Orders, DeliverStart(p, o)
         PROVE  LockInv'
    <3>1. /\ \A q \in Processes \ {p} : proc'[q] = proc[q]
          /\ proc'[p].pc \notin {"claimed", "lapse"}
      BY <2>1, CompleteProc DEF DeliverStart, At, Processes, Becomes, Ends, Goes, Returns
    <3>2. UNCHANGED offer
      BY <2>1 DEF DeliverStart, tables, rows
    <3>3. QED
      BY <3>1, <3>2, OwnLocks, FewerLocks DEF Processes
  <2>2. CASE Deliver(p)
    <3>1. /\ \A q \in Processes \ {p} : proc'[q] = proc[q]
          /\ proc'[p].pc \notin {"claimed", "lapse"}
      BY <2>2, CompleteProc DEF Deliver, At, Processes, Becomes, Ends, Goes, Returns
    <3>2. UNCHANGED offer
      BY <2>2 DEF Deliver, tables, rows
    <3>3. QED
      BY <3>1, <3>2, OwnLocks, FewerLocks DEF Processes
  <2>3. CASE FindActive(p)
    <3>1. /\ \A q \in Processes \ {p} : proc'[q] = proc[q]
          /\ proc'[p].pc \notin {"claimed", "lapse"}
      BY <2>3, CompleteProc DEF FindActive, At, Processes, Becomes, Ends, Goes, Returns
    <3>2. UNCHANGED offer
      BY <2>3 DEF FindActive, tables, rows
    <3>3. QED
      BY <3>1, <3>2, OwnLocks, FewerLocks DEF Processes
  <2>4. CASE CompleteOffer(p)
    <3>1. /\ \A q \in Processes \ {p} : proc'[q] = proc[q]
          /\ proc'[p].pc \notin {"claimed", "lapse"}
      BY <2>4, CompleteProc DEF Processes, Becomes, Ends, Goes, Returns
    <3>2. \A q \in Processes \ {p}, x \in Orders, m \in Slots :
            Holds(q, x, m) => offer'[x][m] = offer[x][m]
      BY <2>4, LockedIsHeld DEF CompleteOffer, SetOffer, TypeOK, LockInv, Holds, At,
        Processes
    <3>3. QED
      BY <3>1, <3>2, OwnLocks, FewerLocks DEF Processes
  <2>5. CASE FreeDriver(p)
    <3>1. /\ \A q \in Processes \ {p} : proc'[q] = proc[q]
          /\ proc'[p].pc \notin {"claimed", "lapse"}
      BY <2>5, CompleteProc DEF FreeDriver, At, Processes, Becomes, Ends, Goes, Returns
    <3>2. UNCHANGED offer
      BY <2>5 DEF FreeDriver, tables, rows
    <3>3. QED
      BY <3>1, <3>2, OwnLocks, FewerLocks DEF Processes
  <2> QED BY <1>5, <2>1, <2>2, <2>3, <2>4, <2>5 DEF Complete
<1>6. ASSUME NEW w \in Workers, Work(w) \/ PollFails(w) PROVE LockInv'
  <2>1. CASE Poll(w)
    <3>1. CASE Becomes(w, "read", None, 0, {}, Overdue, {})
      <4>1. UNCHANGED offer
        BY <2>1 DEF Poll, tables, rows
      <4>2. QED
        BY <3>1, <4>1, OwnLocks, FewerLocks DEF Becomes, Processes
    <3>2. ASSUME NEW R \in SUBSET Overdue, Becomes(w, "lapse", None, 0, {}, R, {}),
                 \A r \in proc'[w].rows : ~Locked(r[1], r[2])
          PROVE  LockInv'
      <4>1. UNCHANGED offer /\ proc'[w].rows = R /\ \A r \in R : ~Locked(r[1], r[2])
        BY <2>1, <3>2 DEF Poll, tables, rows, Becomes
      <4>2. \A o \in Orders, n \in Slots : Holds(w, o, n)' => <<o, n>> \in R
        BY <3>2 DEF Holds, At, Becomes
      <4>3. \A q \in Processes \ {w}, o \in Orders, n \in Slots :
              Holds(q, o, n)' <=> Holds(q, o, n)
        BY <3>2 DEF Holds, At, Becomes
      <4>4. \A o \in Orders, n \in Slots : <<o, n>> \in R =>
              offer[o][n] = "notified" /\ \A q \in Processes : ~Holds(q, o, n)
        BY <4>1, OverdueRows, LockedIsHeld
      <4>5. SUFFICES ASSUME NEW q \in Processes, NEW o \in Orders, NEW n \in Slots,
                            Holds(q, o, n)'
                     PROVE  /\ offer[o][n] = "notified"
                            /\ \A x \in Processes : Holds(x, o, n)' => x = q
        BY <4>1 DEF LockInv
      <4>6. CASE <<o, n>> \in R
        BY <4>3, <4>4, <4>5, <4>6
      <4>7. CASE <<o, n>> \notin R
        BY <4>2, <4>3, <4>5, <4>7 DEF LockInv
      <4>8. QED
        BY <4>6, <4>7
    <3>3. QED
      BY <2>1, <3>1, <3>2, WorkProc DEF Processes
  <2>2. CASE Lapse(w)
    <3>1. /\ \A q \in Processes \ {w} : proc'[q] = proc[q]
          /\ proc'[w].pc \notin {"claimed", "lapse"}
      BY <2>2, WorkProc DEF Processes, Becomes, Ends, Goes, Returns
    <3>2. \A q \in Processes \ {w}, x \in Orders, m \in Slots :
            Holds(q, x, m) => offer'[x][m] = offer[x][m]
      BY <2>2, LockedIsHeld DEF Lapse, SetOffer, TypeOK, LockInv, Holds, At, Processes
    <3>3. QED
      BY <3>1, <3>2, OwnLocks, FewerLocks DEF Processes
  <2>3. CASE FallbackRead(w)
    <3>1. /\ \A q \in Processes \ {w} : proc'[q] = proc[q]
          /\ proc'[w].pc \notin {"claimed", "lapse"}
      BY <2>3, WorkProc DEF FallbackRead, At, Processes, Becomes, Ends, Goes, Returns
    <3>2. UNCHANGED offer
      BY <2>3 DEF FallbackRead, tables, rows
    <3>3. QED
      BY <3>1, <3>2, OwnLocks, FewerLocks DEF Processes
  <2>4. ASSUME NEW r \in Rows, Overwrite(w, r)
         PROVE  LockInv'
    <3>1. /\ \A q \in Processes \ {w} : proc'[q] = proc[q]
          /\ proc'[w].pc \notin {"claimed", "lapse"}
      BY <2>4, WorkProc DEF Processes, Becomes, Ends, Goes, Returns
    <3>2. \A q \in Processes \ {w}, x \in Orders, m \in Slots :
            Holds(q, x, m) => offer'[x][m] = offer[x][m]
      BY <2>4, LockedIsHeld DEF Overwrite, SetOffer, TypeOK, LockInv, Holds, At, Processes
    <3>3. QED
      BY <3>1, <3>2, OwnLocks, FewerLocks DEF Processes
  <2>5. CASE NextOrder(w)
    <3>1. /\ \A q \in Processes \ {w} : proc'[q] = proc[q]
          /\ proc'[w].pc \notin {"claimed", "lapse"}
      BY <2>5, WorkProc DEF NextOrder, At, Processes, Becomes, Ends, Goes, Returns
    <3>2. UNCHANGED offer
      BY <2>5 DEF NextOrder, tables, rows
    <3>3. QED
      BY <3>1, <3>2, OwnLocks, FewerLocks DEF Processes
  <2>6. CASE PollFails(w)
    <3>1. /\ \A q \in Processes \ {w} : proc'[q] = proc[q]
          /\ proc'[w].pc \notin {"claimed", "lapse"}
      BY <2>6, WorkProc DEF PollFails, At, Processes, Becomes, Ends, Goes, Returns
    <3>2. UNCHANGED offer
      BY <2>6 DEF PollFails, tables, rows
    <3>3. QED
      BY <3>1, <3>2, OwnLocks, FewerLocks DEF Processes
  <2>7. CASE Exhaust(w)
    BY <1>4, <2>7 DEF Processes
  <2> QED BY <1>6, <2>1, <2>2, <2>3, <2>4, <2>5, <2>6, <2>7 DEF Work
<1>7. ASSUME NEW p \in Processes, Fail(p) PROVE LockInv'
  <2>1. /\ \A q \in Processes \ {p} : proc'[q] = proc[q]
        /\ proc'[p].pc \notin {"claimed", "lapse"}
    BY <1>7, FailProc DEF Becomes, Ends, Goes
  <2>2. UNCHANGED offer
    BY <1>7 DEF Fail, tables, rows
  <2>3. QED
    BY <2>1, <2>2, OwnLocks, FewerLocks
<1>8. CASE Environment
  <2>1. UNCHANGED <<proc, offer>>
    BY <1>8 DEF Environment, EscrowSets, SetAvailability, OfferAges, rows
  <2>2. QED
    BY <2>1, FewerLocks DEF LockKept, Holds, At
<1>9. CASE UNCHANGED vars
  <2>1. UNCHANGED <<proc, offer>>
    BY <1>9 DEF vars, tables, rows
  <2>2. QED
    BY <2>1, FewerLocks DEF LockKept, Holds, At
<1> QED BY <1>1, <1>2, <1>3, <1>4, <1>5, <1>6, <1>7, <1>8, <1>9 DEF Next,
  Handle, Processes

-----------------------------------------------------------------------------
(* Claims                                                                  *)

\* What Happened does to the history.
LEMMA HappenedTo ==
  ASSUME TypeOK, NEW o \in Orders, NEW S, Happened(o, S)
  PROVE  \A x \in Orders : past'[x] = IF x = o THEN past[x] \cup S ELSE past[x]
BY DEF TypeOK, Happened

\* What SetOffer does to the offers.
LEMMA OfferSet ==
  ASSUME TypeOK, NEW o \in Orders, NEW n \in Slots, NEW s, SetOffer(o, n, s)
  PROVE  \A x \in Orders, m \in Slots :
           offer'[x][m] = IF x = o /\ m = n THEN s ELSE offer[x][m]
BY DEF TypeOK, SetOffer

\* No claim is forgotten, and p goes on only after its own.
LEMMA StillClaimed ==
  ASSUME SubjectInv, ClaimedInv, Kept, NEW p \in Processes,
         \A q \in Processes \ {p} : proc'[q] = proc[q],
         proc'[p].pc \in {"expire", "offline", "assign"} =>
           "claimed" \in past'[proc'[p].order]
  PROVE  ClaimedInv'
<1>1. SUFFICES ASSUME NEW q \in Processes, proc'[q].pc \in {"expire", "offline", "assign"}
               PROVE  "claimed" \in past'[proc'[q].order]
  BY DEF ClaimedInv
<1>2. CASE q = p
  BY <1>1, <1>2
<1>3. CASE q # p
  <2>1. proc'[q] = proc[q] /\ "claimed" \in past[proc[q].order]
    BY <1>1, <1>3 DEF ClaimedInv
  <2>2. proc[q].order \in Orders
    BY <1>1, <2>1 DEF SubjectInv, Subject, WorkerSteps
  <2>3. QED
    BY <2>1, <2>2 DEF Kept
<1>4. QED
  BY <1>2, <1>3

\* The claim of a driver who goes on has committed.
LEMMA ClaimedStep ==
  ASSUME TypeOK, SubjectInv, CountInv, ClaimedInv, [Next]_vars
  PROVE  ClaimedInv'
<1>1. ASSUME NEW p \in Requests, Assign(p) PROVE ClaimedInv'
  <2>1. ASSUME NEW o \in Orders, Place(p, o)
         PROVE  ClaimedInv'
    <3>0. Becomes(p, "find", o, 0, {}, {}, {})
      BY <2>1, AssignProc DEF Processes
    <3>1. /\ \A q \in Processes \ {p} : proc'[q] = proc[q]
          /\ proc'[p].pc \notin {"expire", "offline", "assign"}
      BY <3>0 DEF Becomes, Ends, Goes
    <3>2. QED
      BY <3>1, KeptStep, StillClaimed DEF Processes
  <2>2. CASE FindDrivers(p)
    <3>1. /\ \A q \in Processes \ {p} : proc'[q] = proc[q]
          /\ proc'[p].pc \notin {"expire", "offline", "assign"}
      BY <2>2, AssignProc DEF Becomes, Ends, Goes, Processes
    <3>2. QED
      BY <3>1, KeptStep, StillClaimed DEF Processes
  <2>3. ASSUME NEW o \in Orders, NEW d \in Drivers, ManualAssign(p, o, d)
         PROVE  ClaimedInv'
    <3>0. Becomes(p, "count", o, 0, {d}, {}, {})
      BY <2>3, AssignProc DEF Processes
    <3>1. /\ \A q \in Processes \ {p} : proc'[q] = proc[q]
          /\ proc'[p].pc \notin {"expire", "offline", "assign"}
      BY <3>0 DEF Becomes, Ends, Goes
    <3>2. QED
      BY <3>1, KeptStep, StillClaimed DEF Processes
  <2>4. CASE CountOffers(p)
    <3>0. Becomes(p, "create", proc[p].order, Cardinality(Offers(proc[p].order)) + 1,
                    proc[p].todo, proc[p].rows, proc[p].orders)
      BY <2>4, AssignProc DEF Processes
    <3>1. /\ \A q \in Processes \ {p} : proc'[q] = proc[q]
          /\ proc'[p].pc \notin {"expire", "offline", "assign"}
      BY <3>0 DEF Becomes, Ends, Goes
    <3>2. QED
      BY <3>1, KeptStep, StillClaimed DEF Processes
  <2>5. ASSUME NEW d \in Drivers, CreateOffer(p, d)
         PROVE  ClaimedInv'
    <3>0. \/ Ends(p)
          \/ Becomes(p, "count", proc[p].order, proc[p].slot, proc[p].todo \ {d},
                     proc[p].rows, proc[p].orders)
      BY <2>5, AssignProc DEF Processes
    <3>1. /\ \A q \in Processes \ {p} : proc'[q] = proc[q]
          /\ proc'[p].pc \notin {"expire", "offline", "assign"}
      BY <3>0 DEF Becomes, Ends, Goes
    <3>2. QED
      BY <3>1, KeptStep, StillClaimed DEF Processes
  <2> QED BY <1>1, <2>1, <2>2, <2>3, <2>4, <2>5 DEF Assign
<1>2. ASSUME NEW p \in Requests, Accept(p) PROVE ClaimedInv'
  <2>1. ASSUME NEW o \in Orders, NEW n \in Slots, AcceptStart(p, o, n)
         PROVE  ClaimedInv'
    <3>0. Becomes(p, "claim", o, n, {}, {}, {})
      BY <2>1, AcceptProc DEF Processes
    <3>1. /\ \A q \in Processes \ {p} : proc'[q] = proc[q]
          /\ proc'[p].pc \notin {"expire", "offline", "assign"}
      BY <3>0 DEF Becomes, Ends, Goes
    <3>2. QED
      BY <3>1, KeptStep, StillClaimed DEF Processes
  <2>2. CASE AcceptClaim(p)
    <3>1. /\ \A q \in Processes \ {p} : proc'[q] = proc[q]
          /\ proc'[p].pc \notin {"expire", "offline", "assign"}
      BY <2>2, AcceptProc DEF Becomes, Ends, Goes, Processes
    <3>2. QED
      BY <3>1, KeptStep, StillClaimed DEF Processes
  <2>3. CASE AcceptCommit(p)
    <3>1. Goes(p, "expire") /\ p \in Processes /\ proc[p].order \in Orders
      BY <2>3, AcceptProc DEF AcceptCommit, Processes, At, SubjectInv, Subject, WorkerSteps
    <3>2. "claimed" \in past'[proc[p].order]
      BY <2>3, <3>1 DEF AcceptCommit, Happened, TypeOK
    <3>3. /\ \A q \in Processes \ {p} : proc'[q] = proc[q]
          /\ "claimed" \in past'[proc'[p].order]
      BY <3>1, <3>2 DEF Goes, Becomes
    <3>4. QED
      BY <3>1, <3>3, KeptStep, StillClaimed
  <2>4. CASE AcceptExpire(p)
    <3>1. Goes(p, "offline") /\ p \in Processes /\ At(p, "expire")
      BY <2>4, AcceptProc DEF AcceptExpire, Processes
    <3>2. "claimed" \in past[proc[p].order] /\ proc[p].order \in Orders
      BY <3>1 DEF ClaimedInv, At, SubjectInv, Subject, WorkerSteps
    <3>3. /\ \A q \in Processes \ {p} : proc'[q] = proc[q]
          /\ "claimed" \in past'[proc'[p].order]
      BY <3>1, <3>2, KeptStep DEF Kept, Goes, Becomes
    <3>4. QED
      BY <3>1, <3>3, KeptStep, StillClaimed
  <2>5. CASE AcceptOffline(p)
    <3>1. Goes(p, "assign") /\ p \in Processes /\ At(p, "offline")
      BY <2>5, AcceptProc DEF AcceptOffline, Processes
    <3>2. "claimed" \in past[proc[p].order] /\ proc[p].order \in Orders
      BY <3>1 DEF ClaimedInv, At, SubjectInv, Subject, WorkerSteps
    <3>3. /\ \A q \in Processes \ {p} : proc'[q] = proc[q]
          /\ "claimed" \in past'[proc'[p].order]
      BY <3>1, <3>2, KeptStep DEF Kept, Goes, Becomes
    <3>4. QED
      BY <3>1, <3>3, KeptStep, StillClaimed
  <2>6. CASE AcceptAssign(p)
    <3>1. /\ \A q \in Processes \ {p} : proc'[q] = proc[q]
          /\ proc'[p].pc \notin {"expire", "offline", "assign"}
      BY <2>6, AcceptProc DEF Becomes, Ends, Goes, Processes
    <3>2. QED
      BY <3>1, KeptStep, StillClaimed DEF Processes
  <2> QED BY <1>2, <2>1, <2>2, <2>3, <2>4, <2>5, <2>6 DEF Accept
<1>3. ASSUME NEW p \in Requests, Decline(p) PROVE ClaimedInv'
  <2>1. ASSUME NEW o \in Orders, NEW n \in Slots, DeclineStart(p, o, n)
         PROVE  ClaimedInv'
    <3>0. Becomes(p, "decline", o, n, {}, {}, {})
      BY <2>1, DeclineProc DEF Processes
    <3>1. /\ \A q \in Processes \ {p} : proc'[q] = proc[q]
          /\ proc'[p].pc \notin {"expire", "offline", "assign"}
      BY <3>0 DEF Becomes, Ends, Goes
    <3>2. QED
      BY <3>1, KeptStep, StillClaimed DEF Processes
  <2>2. CASE DeclineWrite(p)
    <3>1. /\ \A q \in Processes \ {p} : proc'[q] = proc[q]
          /\ proc'[p].pc \notin {"expire", "offline", "assign"}
      BY <2>2, DeclineProc DEF Becomes, Ends, Goes, Processes
    <3>2. QED
      BY <3>1, KeptStep, StillClaimed DEF Processes
  <2> QED BY <1>3, <2>1, <2>2 DEF Decline
<1>4. ASSUME NEW p \in Processes, Exhaust(p) PROVE ClaimedInv'
  <2>1. CASE CountLive(p)
    <3>1. /\ \A q \in Processes \ {p} : proc'[q] = proc[q]
          /\ proc'[p].pc \notin {"expire", "offline", "assign"}
      BY <2>1, ExhaustProc DEF Becomes, Ends, Goes, Returns, Processes
    <3>2. QED
      BY <3>1, KeptStep, StillClaimed DEF Processes
  <2>2. CASE ResetOrder(p)
    <3>1. /\ \A q \in Processes \ {p} : proc'[q] = proc[q]
          /\ proc'[p].pc \notin {"expire", "offline", "assign"}
      BY <2>2, ExhaustProc DEF Becomes, Ends, Goes, Returns, Processes
    <3>2. QED
      BY <3>1, KeptStep, StillClaimed DEF Processes
  <2>3. CASE AlertAdmins(p)
    <3>1. /\ \A q \in Processes \ {p} : proc'[q] = proc[q]
          /\ proc'[p].pc \notin {"expire", "offline", "assign"}
      BY <2>3, ExhaustProc DEF Becomes, Ends, Goes, Returns, Processes
    <3>2. QED
      BY <3>1, KeptStep, StillClaimed DEF Processes
  <2> QED BY <1>4, <2>1, <2>2, <2>3 DEF Exhaust
<1>5. ASSUME NEW p \in Requests, Complete(p) PROVE ClaimedInv'
  <2>1. ASSUME NEW o \in Orders, DeliverStart(p, o)
         PROVE  ClaimedInv'
    <3>0. Becomes(p, "deliver", o, 0, {}, {}, {})
      BY <2>1, CompleteProc DEF Processes
    <3>1. /\ \A q \in Processes \ {p} : proc'[q] = proc[q]
          /\ proc'[p].pc \notin {"expire", "offline", "assign"}
      BY <3>0 DEF Becomes, Ends, Goes
    <3>2. QED
      BY <3>1, KeptStep, StillClaimed DEF Processes
  <2>2. CASE Deliver(p)
    <3>1. /\ \A q \in Processes \ {p} : proc'[q] = proc[q]
          /\ proc'[p].pc \notin {"expire", "offline", "assign"}
      BY <2>2, CompleteProc DEF Becomes, Ends, Goes, Processes
    <3>2. QED
      BY <3>1, KeptStep, StillClaimed DEF Processes
  <2>3. CASE FindActive(p)
    <3>1. /\ \A q \in Processes \ {p} : proc'[q] = proc[q]
          /\ proc'[p].pc \notin {"expire", "offline", "assign"}
      BY <2>3, CompleteProc DEF Becomes, Ends, Goes, Processes
    <3>2. QED
      BY <3>1, KeptStep, StillClaimed DEF Processes
  <2>4. CASE CompleteOffer(p)
    <3>0. Goes(p, "free")
      BY <2>4, CompleteProc DEF Processes
    <3>1. /\ \A q \in Processes \ {p} : proc'[q] = proc[q]
          /\ proc'[p].pc \notin {"expire", "offline", "assign"}
      BY <3>0 DEF Becomes, Ends, Goes
    <3>2. QED
      BY <3>1, KeptStep, StillClaimed DEF Processes
  <2>5. CASE FreeDriver(p)
    <3>1. /\ \A q \in Processes \ {p} : proc'[q] = proc[q]
          /\ proc'[p].pc \notin {"expire", "offline", "assign"}
      BY <2>5, CompleteProc DEF Becomes, Ends, Goes, Processes
    <3>2. QED
      BY <3>1, KeptStep, StillClaimed DEF Processes
  <2> QED BY <1>5, <2>1, <2>2, <2>3, <2>4, <2>5 DEF Complete
<1>6. ASSUME NEW w \in Workers, Work(w) \/ PollFails(w) PROVE ClaimedInv'
  <2>1. CASE Poll(w)
    <3>1. /\ \A q \in Processes \ {w} : proc'[q] = proc[q]
          /\ proc'[w].pc \notin {"expire", "offline", "assign"}
      BY <2>1, WorkProc DEF Becomes, Ends, Goes, Processes
    <3>2. QED
      BY <3>1, KeptStep, StillClaimed DEF Processes
  <2>2. CASE Lapse(w)
    <3>1. /\ \A q \in Processes \ {w} : proc'[q] = proc[q]
          /\ proc'[w].pc \notin {"expire", "offline", "assign"}
      BY <2>2, WorkProc DEF Becomes, Ends, Goes, Processes
    <3>2. QED
      BY <3>1, KeptStep, StillClaimed DEF Processes
  <2>3. CASE FallbackRead(w)
    <3>1. /\ \A q \in Processes \ {w} : proc'[q] = proc[q]
          /\ proc'[w].pc \notin {"expire", "offline", "assign"}
      BY <2>3, WorkProc DEF Becomes, Ends, Goes, Processes
    <3>2. QED
      BY <3>1, KeptStep, StillClaimed DEF Processes
  <2>4. ASSUME NEW r \in Rows, Overwrite(w, r)
         PROVE  ClaimedInv'
    <3>0. \E s \in {"next", "overwrite"} :
            Becomes(w, s, proc[w].order, proc[w].slot, proc[w].todo, proc[w].rows \ {r},
                    proc[w].orders \cup {r[1]})
      BY <2>4, WorkProc DEF Processes
    <3>1. /\ \A q \in Processes \ {w} : proc'[q] = proc[q]
          /\ proc'[w].pc \notin {"expire", "offline", "assign"}
      BY <3>0 DEF Becomes, Ends, Goes
    <3>2. QED
      BY <3>1, KeptStep, StillClaimed DEF Processes
  <2>5. CASE NextOrder(w)
    <3>0. \/ Ends(w)
          \/ \E o \in proc[w].orders :
               Becomes(w, "exhaust", o, proc[w].slot, proc[w].todo, proc[w].rows,
                       proc[w].orders \ {o})
      BY <2>5, WorkProc DEF Processes
    <3>1. /\ \A q \in Processes \ {w} : proc'[q] = proc[q]
          /\ proc'[w].pc \notin {"expire", "offline", "assign"}
      BY <3>0 DEF Becomes, Ends, Goes
    <3>2. QED
      BY <3>1, KeptStep, StillClaimed DEF Processes
  <2>6. CASE PollFails(w)
    <3>1. /\ \A q \in Processes \ {w} : proc'[q] = proc[q]
          /\ proc'[w].pc \notin {"expire", "offline", "assign"}
      BY <2>6, WorkProc DEF Becomes, Ends, Goes, Processes
    <3>2. QED
      BY <3>1, KeptStep, StillClaimed DEF Processes
  <2>7. CASE Exhaust(w)
    BY <1>4, <2>7 DEF Processes
  <2> QED BY <1>6, <2>1, <2>2, <2>3, <2>4, <2>5, <2>6, <2>7 DEF Work
<1>7. ASSUME NEW p \in Processes, Fail(p) PROVE ClaimedInv'
  <2>1. /\ \A q \in Processes \ {p} : proc'[q] = proc[q]
        /\ proc'[p].pc \notin {"expire", "offline", "assign"}
    BY <1>7, FailProc DEF Becomes, Ends, Goes
  <2>2. QED
    BY <2>1, KeptStep, StillClaimed
<1>8. CASE Environment
  <2>1. UNCHANGED <<proc, past>>
    BY <1>8 DEF Environment, EscrowSets, SetAvailability, OfferAges, counts
  <2>2. QED
    BY <2>1 DEF ClaimedInv
<1>9. CASE UNCHANGED vars
  <2>1. UNCHANGED <<proc, past>>
    BY <1>9 DEF vars, counts
  <2>2. QED
    BY <2>1 DEF ClaimedInv
<1> QED BY <1>1, <1>2, <1>3, <1>4, <1>5, <1>6, <1>7, <1>8, <1>9 DEF Next,
  Handle, Processes

\* Process p has no claim that is about to commit, and whatever changes the
\* claims of an order is noted.
LEMMA ClaimsLeft ==
  ASSUME ClaimInv, NEW p \in Processes,
         \A q \in Processes \ {p} : proc'[q] = proc[q],
         proc'[p].pc # "claimed",
         \A o \in Orders : Undisturbed(o)' =>
           past'[o] = past[o] /\ Accepted(o)' = Accepted(o)
  PROVE  ClaimInv'
<1>1. SUFFICES ASSUME NEW o \in Orders, Undisturbed(o)'
               PROVE  /\ "claimed" \notin past'[o] => Accepted(o)' = {}
                      /\ "claimed" \in past'[o] => \E n \in Slots : Accepted(o)' = {n}
                      /\ \A q \in Processes : At(q, "claimed")' /\ proc'[q].order = o =>
                           /\ "claimed" \notin past'[o]
                           /\ \A x \in Processes :
                                At(x, "claimed")' /\ proc'[x].order = o => x = q
  BY DEF ClaimInv
<1>2. past'[o] = past[o] /\ Accepted(o)' = Accepted(o) /\ Undisturbed(o)
  BY <1>1 DEF Undisturbed
<1>3. \A q \in Processes : At(q, "claimed")' /\ proc'[q].order = o =>
                             At(q, "claimed") /\ proc[q].order = o
  BY DEF At
<1>4. QED
  BY <1>2, <1>3 DEF ClaimInv

\* An offer is written over, and that is noted if it was accepted.
LEMMA OverwrittenClaim ==
  ASSUME TypeOK, NEW o \in Orders, NEW n \in Slots, NEW s \in {"declined", "expired"},
         SetOffer(o, n, s), Happened(o, OverClaim(o, n))
  PROVE  \A x \in Orders : Undisturbed(x)' =>
           past'[x] = past[x] /\ Accepted(x)' = Accepted(x)
<1>1. SUFFICES ASSUME NEW x \in Orders, Undisturbed(x)'
               PROVE  past'[x] = past[x] /\ Accepted(x)' = Accepted(x)
  OBVIOUS
<1>2. CASE x # o
  BY <1>2 DEF SetOffer, Happened, Accepted, TypeOK
<1>3. CASE x = o
  <2>1. past'[o] = past[o] \cup OverClaim(o, n)
    BY DEF Happened, TypeOK
  <2>2. offer[o][n] # "accepted"
    BY <1>1, <1>3, <2>1 DEF Undisturbed, OverClaim
  <2>3. past'[o] = past[o]
    BY <2>1, <2>2 DEF OverClaim
  <2>4. \A m \in Slots : offer'[o][m] = IF m = n THEN s ELSE offer[o][m]
    BY DEF SetOffer, TypeOK
  <2>5. QED
    BY <1>3, <2>2, <2>3, <2>4 DEF Accepted
<1>4. QED
  BY <1>2, <1>3

\* Claims that nothing disturbs leave one driver.
LEMMA ClaimStep ==
  ASSUME TypeOK, SubjectInv, CountInv, LockInv, ClaimInv, [Next]_vars
  PROVE  ClaimInv'
<1>1. ASSUME NEW p \in Requests, Assign(p) PROVE ClaimInv'
  <2>1. ASSUME NEW o \in Orders, Place(p, o)
         PROVE  ClaimInv'
    <3>0. Becomes(p, "find", o, 0, {}, {}, {})
      BY <2>1, AssignProc DEF Processes
    <3>1. /\ \A q \in Processes \ {p} : proc'[q] = proc[q]
          /\ proc'[p].pc # "claimed"
      BY <3>0 DEF Becomes, Ends, Goes
    <3>2. UNCHANGED <<past, offer>>
      BY <2>1 DEF Place, tables, rows, counts
    <3>3. QED
      BY <3>1, <3>2, ClaimsLeft DEF Processes, Accepted
  <2>2. CASE FindDrivers(p)
    <3>1. /\ \A q \in Processes \ {p} : proc'[q] = proc[q]
          /\ proc'[p].pc # "claimed"
      BY <2>2, AssignProc DEF Becomes, Ends, Goes, Processes
    <3>2. UNCHANGED <<past, offer>>
      BY <2>2 DEF FindDrivers, tables, rows, counts
    <3>3. QED
      BY <3>1, <3>2, ClaimsLeft DEF Processes, Accepted
  <2>3. ASSUME NEW o \in Orders, NEW d \in Drivers, ManualAssign(p, o, d)
         PROVE  ClaimInv'
    <3>0. Becomes(p, "count", o, 0, {d}, {}, {})
      BY <2>3, AssignProc DEF Processes
    <3>1. /\ \A q \in Processes \ {p} : proc'[q] = proc[q]
          /\ proc'[p].pc # "claimed"
      BY <3>0 DEF Becomes, Ends, Goes
    <3>2. UNCHANGED <<past, offer>>
      BY <2>3 DEF ManualAssign, tables, rows, counts
    <3>3. QED
      BY <3>1, <3>2, ClaimsLeft DEF Processes, Accepted
  <2>4. CASE CountOffers(p)
    <3>0. Becomes(p, "create", proc[p].order, Cardinality(Offers(proc[p].order)) + 1,
                    proc[p].todo, proc[p].rows, proc[p].orders)
      BY <2>4, AssignProc DEF Processes
    <3>1. /\ \A q \in Processes \ {p} : proc'[q] = proc[q]
          /\ proc'[p].pc # "claimed"
      BY <3>0 DEF Becomes, Ends, Goes
    <3>2. UNCHANGED <<past, offer>>
      BY <2>4 DEF CountOffers, tables, rows, counts
    <3>3. QED
      BY <3>1, <3>2, ClaimsLeft DEF Processes, Accepted
  <2>5. ASSUME NEW d \in Drivers, CreateOffer(p, d)
         PROVE  ClaimInv'
    <3>0. \/ Ends(p)
          \/ Becomes(p, "count", proc[p].order, proc[p].slot, proc[p].todo \ {d},
                     proc[p].rows, proc[p].orders)
      BY <2>5, AssignProc DEF Processes
    <3>1. /\ \A q \in Processes \ {p} : proc'[q] = proc[q]
          /\ proc'[p].pc # "claimed"
      BY <3>0 DEF Becomes, Ends, Goes
    <3>2. UNCHANGED past
      BY <2>5 DEF CreateOffer
    <3>3. \A x \in Orders, m \in Slots :
            offer'[x][m] = "accepted" <=> offer[x][m] = "accepted"
      BY <2>5, CreateRows DEF Processes
    <3>4. QED
      BY <3>1, <3>2, <3>3, ClaimsLeft DEF Processes, Accepted
  <2> QED BY <1>1, <2>1, <2>2, <2>3, <2>4, <2>5 DEF Assign
<1>2. ASSUME NEW p \in Requests, Accept(p) PROVE ClaimInv'
  <2>1. ASSUME NEW o \in Orders, NEW n \in Slots, AcceptStart(p, o, n)
         PROVE  ClaimInv'
    <3>0. Becomes(p, "claim", o, n, {}, {}, {})
      BY <2>1, AcceptProc DEF Processes
    <3>1. /\ \A q \in Processes \ {p} : proc'[q] = proc[q]
          /\ proc'[p].pc # "claimed"
      BY <3>0 DEF Becomes, Ends, Goes
    <3>2. UNCHANGED <<past, offer>>
      BY <2>1 DEF AcceptStart, tables, rows, counts
    <3>3. QED
      BY <3>1, <3>2, ClaimsLeft DEF Processes, Accepted
  <2>2. CASE AcceptClaim(p)
    <3>1. CASE proc'[p].pc # "claimed"
      <4>1. /\ \A q \in Processes \ {p} : proc'[q] = proc[q]
            /\ UNCHANGED past
        BY <2>2, <3>1, AcceptProc DEF Processes, Becomes, Ends, Goes
      <4>2. UNCHANGED offer
        BY <2>2 DEF AcceptClaim, tables, rows
      <4>3. QED
        BY <3>1, <4>1, <4>2, ClaimsLeft DEF Processes, Accepted
    <3>2. CASE proc'[p].pc = "claimed"
      <4>0. PICK o \in Orders : proc[p].order = o
        BY <2>2 DEF AcceptClaim, SubjectInv, Subject, WorkerSteps, At, Processes
      <4>1. Goes(p, "claimed") /\ UNCHANGED offer /\ p \in Processes
            /\ proc[p].pc = "claim"
        BY <2>2, <3>2, AcceptProc DEF AcceptClaim, tables, rows, Processes, Becomes, Ends,
          At
      <4>2. /\ \A n \in Slots : offer[o][n] # "accepted"
            /\ Happened(o, IF Claiming(o) THEN {"overlap"} ELSE {})
        <5>1. proc'[p].pc # "idle"
          BY <3>2
        <5>2. ~Done(p)
          BY <5>1, <4>1, DoneProc DEF Becomes
        <5>3. QED
          BY <2>2, <4>0, <5>2 DEF AcceptClaim
      <4>3. \A q \in Processes, x \in Orders : q # p \/ x # o =>
              (At(q, "claimed")' /\ proc'[q].order = x =>
                 At(q, "claimed") /\ proc[q].order = x)
        BY <4>0, <4>1 DEF At, Goes, Becomes
      <4>4. SUFFICES ASSUME NEW x \in Orders, Undisturbed(x)'
                     PROVE  /\ "claimed" \notin past'[x] => Accepted(x)' = {}
                            /\ "claimed" \in past'[x] => \E n \in Slots : Accepted(x)' = {n}
                            /\ \A q \in Processes : At(q, "claimed")' /\ proc'[q].order = x =>
                                 /\ "claimed" \notin past'[x]
                                 /\ \A y \in Processes :
                                      At(y, "claimed")' /\ proc'[y].order = x => y = q
        BY DEF ClaimInv
      <4>5. CASE x # o
        <5>1. past'[x] = past[x] /\ Accepted(x)' = Accepted(x) /\ Undisturbed(x)
          BY <4>1, <4>2, <4>4, <4>5, HappenedTo DEF Accepted, Undisturbed
        <5>2. QED
          BY <4>3, <4>5, <5>1 DEF ClaimInv
      <4>6. CASE x = o
        <5>1. past'[o] = past[o] \cup IF Claiming(o) THEN {"overlap"} ELSE {}
          BY <4>2, HappenedTo
        <5>2. ~Claiming(o)
          BY <4>4, <4>6, <5>1 DEF Undisturbed
        <5>3. past'[o] = past[o] /\ Undisturbed(o)
          BY <4>4, <4>6, <5>1, <5>2 DEF Undisturbed
        <5>4. Accepted(o) = {} /\ Accepted(o)' = {}
          BY <4>1, <4>2 DEF Accepted
        <5>5. "claimed" \notin past[o]
          BY <4>1, <5>3, <5>4 DEF ClaimInv
        <5>6. \A q \in Processes : At(q, "claimed")' /\ proc'[q].order = o => q = p
          BY <4>1, <4>3, <5>2 DEF Claiming
        <5>7. QED
          BY <4>6, <5>3, <5>4, <5>5, <5>6
      <4>7. QED
        BY <4>5, <4>6
    <3>3. QED
      BY <3>1, <3>2
  <2>3. CASE AcceptCommit(p)
    <3>0. PICK o \in Orders, n \in Slots : proc[p].order = o /\ proc[p].slot = n
      BY <2>3 DEF AcceptCommit, Processes, SubjectInv, Subject, WorkerSteps, TargetSteps,
        AcceptSteps, At
    <3>1. /\ Goes(p, "expire") /\ p \in Processes /\ At(p, "claimed")
          /\ Happened(o, {"claimed"}) /\ SetOffer(o, n, "accepted")
      BY <2>3, <3>0, AcceptProc DEF AcceptCommit, Processes
    <3>1a. /\ \A x \in Orders :
                past'[x] = IF x = o THEN past[x] \cup {"claimed"} ELSE past[x]
           /\ \A x \in Orders, m \in Slots :
                offer'[x][m] = IF x = o /\ m = n THEN "accepted" ELSE offer[x][m]
      BY <3>1, HappenedTo, OfferSet
    <3>2. SUFFICES ASSUME NEW x \in Orders, Undisturbed(x)'
                   PROVE  /\ "claimed" \notin past'[x] => Accepted(x)' = {}
                          /\ "claimed" \in past'[x] => \E m \in Slots : Accepted(x)' = {m}
                          /\ \A q \in Processes : At(q, "claimed")' /\ proc'[q].order = x =>
                               /\ "claimed" \notin past'[x]
                               /\ \A y \in Processes :
                                    At(y, "claimed")' /\ proc'[y].order = x => y = q
      BY DEF ClaimInv
    <3>3. \A q \in Processes : At(q, "claimed")' /\ proc'[q].order = x =>
                                q # p /\ At(q, "claimed") /\ proc[q].order = x
      BY <3>1 DEF At, Goes, Becomes
    <3>4. CASE x # o
      <4>1. past'[x] = past[x] /\ Accepted(x)' = Accepted(x) /\ Undisturbed(x)
        <5>1. past'[x] = past[x] /\ \A m \in Slots : offer'[x][m] = offer[x][m]
          BY <3>1a, <3>4
        <5>2. QED
          BY <3>2, <5>1 DEF Accepted, Undisturbed
      <4>2. QED
        BY <3>3, <4>1 DEF ClaimInv
    <3>5. CASE x = o
      <4>1. past'[o] = past[o] \cup {"claimed"} /\ Undisturbed(o)
        BY <3>1a, <3>2, <3>5 DEF Undisturbed
      <4>2. /\ "claimed" \notin past[o]
            /\ \A q \in Processes : At(q, "claimed") /\ proc[q].order = o => q = p
        BY <3>0, <3>1, <4>1 DEF ClaimInv
      <4>3. Accepted(o) = {}
        BY <3>1, <4>1, <4>2 DEF ClaimInv
      <4>5. Accepted(o)' = {n}
        BY <3>1a, <4>3 DEF Accepted
      <4>6. QED
        BY <3>1, <3>3, <3>5, <4>1, <4>2, <4>5
    <3>6. QED
      BY <3>4, <3>5
  <2>4. CASE AcceptExpire(p)
    <3>1. /\ \A q \in Processes \ {p} : proc'[q] = proc[q]
          /\ proc'[p].pc # "claimed"
      BY <2>4, AcceptProc DEF Becomes, Ends, Goes, Processes
    <3>2. UNCHANGED past /\ proc[p].order \in Orders
      BY <2>4 DEF AcceptExpire, counts, At, SubjectInv, Subject, WorkerSteps, Processes
    <3>3. \A x \in Orders, m \in Slots :
            offer'[x][m] = "accepted" <=> offer[x][m] = "accepted"
      BY <2>4, <3>2 DEF AcceptExpire, TypeOK
    <3>4. QED
      BY <3>1, <3>2, <3>3, ClaimsLeft DEF Processes, Accepted
  <2>5. CASE AcceptOffline(p)
    <3>1. /\ \A q \in Processes \ {p} : proc'[q] = proc[q]
          /\ proc'[p].pc # "claimed"
      BY <2>5, AcceptProc DEF Becomes, Ends, Goes, Processes
    <3>2. UNCHANGED <<past, offer>>
      BY <2>5 DEF AcceptOffline, tables, rows, counts
    <3>3. QED
      BY <3>1, <3>2, ClaimsLeft DEF Processes, Accepted
  <2>6. CASE AcceptAssign(p)
    <3>1. /\ \A q \in Processes \ {p} : proc'[q] = proc[q]
          /\ proc'[p].pc # "claimed"
      BY <2>6, AcceptProc DEF Becomes, Ends, Goes, Processes
    <3>2. UNCHANGED <<past, offer>>
      BY <2>6 DEF AcceptAssign, tables, rows, counts
    <3>3. QED
      BY <3>1, <3>2, ClaimsLeft DEF Processes, Accepted
  <2> QED BY <1>2, <2>1, <2>2, <2>3, <2>4, <2>5, <2>6 DEF Accept
<1>3. ASSUME NEW p \in Requests, Decline(p) PROVE ClaimInv'
  <2>1. ASSUME NEW o \in Orders, NEW n \in Slots, DeclineStart(p, o, n)
         PROVE  ClaimInv'
    <3>0. Becomes(p, "decline", o, n, {}, {}, {})
      BY <2>1, DeclineProc DEF Processes
    <3>1. /\ \A q \in Processes \ {p} : proc'[q] = proc[q]
          /\ proc'[p].pc # "claimed"
      BY <3>0 DEF Becomes, Ends, Goes
    <3>2. UNCHANGED <<past, offer>>
      BY <2>1 DEF DeclineStart, tables, rows, counts
    <3>3. QED
      BY <3>1, <3>2, ClaimsLeft DEF Processes, Accepted
  <2>2. CASE DeclineWrite(p)
    <3>1. /\ \A q \in Processes \ {p} : proc'[q] = proc[q]
          /\ proc'[p].pc # "claimed"
      BY <2>2, DeclineProc DEF Becomes, Ends, Goes, Processes
    <3>2. proc[p].order \in Orders /\ proc[p].slot \in Slots
      BY <2>2 DEF DeclineWrite, At, SubjectInv, Subject, WorkerSteps, TargetSteps, Processes
    <3>3. SetOffer(proc[p].order, proc[p].slot, "declined")
          /\ Happened(proc[p].order, OverClaim(proc[p].order, proc[p].slot))
      BY <2>2 DEF DeclineWrite
    <3>4. QED
      BY <3>1, <3>2, <3>3, OverwrittenClaim, ClaimsLeft DEF Processes
  <2> QED BY <1>3, <2>1, <2>2 DEF Decline
<1>4. ASSUME NEW p \in Processes, Exhaust(p) PROVE ClaimInv'
  <2>1. CASE CountLive(p)
    <3>1. /\ \A q \in Processes \ {p} : proc'[q] = proc[q]
          /\ proc'[p].pc # "claimed"
      BY <2>1, ExhaustProc DEF Becomes, Ends, Goes, Returns, Processes
    <3>2. UNCHANGED <<past, offer>>
      BY <2>1 DEF CountLive, tables, rows, counts
    <3>3. QED
      BY <3>1, <3>2, ClaimsLeft DEF Processes, Accepted
  <2>2. CASE ResetOrder(p)
    <3>1. /\ \A q \in Processes \ {p} : proc'[q] = proc[q]
          /\ proc'[p].pc # "claimed"
      BY <2>2, ExhaustProc DEF Becomes, Ends, Goes, Returns, Processes
    <3>2. UNCHANGED <<past, offer>>
      BY <2>2 DEF ResetOrder, tables, rows, counts
    <3>3. QED
      BY <3>1, <3>2, ClaimsLeft DEF Processes, Accepted
  <2>3. CASE AlertAdmins(p)
    <3>1. /\ \A q \in Processes \ {p} : proc'[q] = proc[q]
          /\ proc'[p].pc # "claimed"
      BY <2>3, ExhaustProc DEF Becomes, Ends, Goes, Returns, Processes
    <3>2. UNCHANGED <<past, offer>>
      BY <2>3 DEF AlertAdmins, tables, rows, counts
    <3>3. QED
      BY <3>1, <3>2, ClaimsLeft DEF Processes, Accepted
  <2> QED BY <1>4, <2>1, <2>2, <2>3 DEF Exhaust
<1>5. ASSUME NEW p \in Requests, Complete(p) PROVE ClaimInv'
  <2>1. ASSUME NEW o \in Orders, DeliverStart(p, o)
         PROVE  ClaimInv'
    <3>0. Becomes(p, "deliver", o, 0, {}, {}, {})
      BY <2>1, CompleteProc DEF Processes
    <3>1. /\ \A q \in Processes \ {p} : proc'[q] = proc[q]
          /\ proc'[p].pc # "claimed"
      BY <3>0 DEF Becomes, Ends, Goes
    <3>2. UNCHANGED <<past, offer>>
      BY <2>1 DEF DeliverStart, tables, rows, counts
    <3>3. QED
      BY <3>1, <3>2, ClaimsLeft DEF Processes, Accepted
  <2>2. CASE Deliver(p)
    <3>1. /\ \A q \in Processes \ {p} : proc'[q] = proc[q]
          /\ proc'[p].pc # "claimed"
      BY <2>2, CompleteProc DEF Becomes, Ends, Goes, Processes
    <3>2. UNCHANGED <<past, offer>>
      BY <2>2 DEF Deliver, tables, rows, counts
    <3>3. QED
      BY <3>1, <3>2, ClaimsLeft DEF Processes, Accepted
  <2>3. CASE FindActive(p)
    <3>1. /\ \A q \in Processes \ {p} : proc'[q] = proc[q]
          /\ proc'[p].pc # "claimed"
      BY <2>3, CompleteProc DEF Becomes, Ends, Goes, Processes
    <3>2. UNCHANGED <<past, offer>>
      BY <2>3 DEF FindActive, tables, rows, counts
    <3>3. QED
      BY <3>1, <3>2, ClaimsLeft DEF Processes, Accepted
  <2>4. CASE CompleteOffer(p)
    <3>0. Goes(p, "free")
      BY <2>4, CompleteProc DEF Processes
    <3>1. /\ \A q \in Processes \ {p} : proc'[q] = proc[q]
          /\ proc'[p].pc # "claimed"
      BY <3>0 DEF Becomes, Ends, Goes
    <3>2. PICK o \in Orders, n \in Slots : proc[p].order = o /\ proc[p].slot = n
      BY <2>4 DEF CompleteOffer, Processes, SubjectInv, Subject, WorkerSteps, TargetSteps,
        At
    <3>3. Happened(o, {"delivered"}) /\ SetOffer(o, n, "accepted")
      BY <2>4, <3>2 DEF CompleteOffer
    <3>4. /\ \A x \in Orders :
               past'[x] = IF x = o THEN past[x] \cup {"delivered"} ELSE past[x]
          /\ \A x \in Orders, m \in Slots :
               offer'[x][m] = IF x = o /\ m = n THEN "accepted" ELSE offer[x][m]
      BY <3>3, HappenedTo, OfferSet
    <3>5. ASSUME NEW x \in Orders, Undisturbed(x)'
          PROVE  past'[x] = past[x] /\ Accepted(x)' = Accepted(x)
      <4>1. x # o
        <5>1. "delivered" \in past'[o]
          BY <3>4
        <5>2. "delivered" \notin past'[x]
          BY <3>5 DEF Undisturbed
        <5>3. QED
          BY <5>1, <5>2
      <4>2. past'[x] = past[x] /\ \A m \in Slots : offer'[x][m] = offer[x][m]
        BY <3>4, <4>1
      <4>3. QED
        BY <4>2 DEF Accepted
    <3>6. QED
      BY <3>1, <3>5, ClaimsLeft DEF Processes
  <2>5. CASE FreeDriver(p)
    <3>1. /\ \A q \in Processes \ {p} : proc'[q] = proc[q]
          /\ proc'[p].pc # "claimed"
      BY <2>5, CompleteProc DEF Becomes, Ends, Goes, Processes
    <3>2. UNCHANGED <<past, offer>>
      BY <2>5 DEF FreeDriver, tables, rows, counts
    <3>3. QED
      BY <3>1, <3>2, ClaimsLeft DEF Processes, Accepted
  <2> QED BY <1>5, <2>1, <2>2, <2>3, <2>4, <2>5 DEF Complete
<1>6. ASSUME NEW w \in Workers, Work(w) \/ PollFails(w) PROVE ClaimInv'
  <2>1. CASE Poll(w)
    <3>1. /\ \A q \in Processes \ {w} : proc'[q] = proc[q]
          /\ proc'[w].pc # "claimed"
      BY <2>1, WorkProc DEF Becomes, Ends, Goes, Processes
    <3>2. UNCHANGED <<past, offer>>
      BY <2>1 DEF Poll, tables, rows, counts
    <3>3. QED
      BY <3>1, <3>2, ClaimsLeft DEF Processes, Accepted
  <2>2. CASE Lapse(w)
    <3>1. /\ \A q \in Processes \ {w} : proc'[q] = proc[q]
          /\ proc'[w].pc # "claimed"
      BY <2>2, WorkProc DEF Becomes, Ends, Goes, Processes
    <3>2. UNCHANGED past
      BY <2>2 DEF Lapse, counts
    <3>3. \A x \in Orders, m \in Slots :
            <<x, m>> \in proc[w].rows => offer[x][m] = "notified"
      BY <2>2 DEF Lapse, LockInv, Holds, Processes
    <3>4. \A x \in Orders, m \in Slots :
            offer'[x][m] = "accepted" <=> offer[x][m] = "accepted"
      BY <2>2, <3>3 DEF Lapse
    <3>5. QED
      BY <3>1, <3>2, <3>4, ClaimsLeft DEF Processes, Accepted
  <2>3. CASE FallbackRead(w)
    <3>1. /\ \A q \in Processes \ {w} : proc'[q] = proc[q]
          /\ proc'[w].pc # "claimed"
      BY <2>3, WorkProc DEF Becomes, Ends, Goes, Processes
    <3>2. UNCHANGED <<past, offer>>
      BY <2>3 DEF FallbackRead, tables, rows, counts
    <3>3. QED
      BY <3>1, <3>2, ClaimsLeft DEF Processes, Accepted
  <2>4. ASSUME NEW r \in Rows, Overwrite(w, r)
         PROVE  ClaimInv'
    <3>0. \E s \in {"next", "overwrite"} :
            Becomes(w, s, proc[w].order, proc[w].slot, proc[w].todo, proc[w].rows \ {r},
                    proc[w].orders \cup {r[1]})
      BY <2>4, WorkProc DEF Processes
    <3>1. /\ \A q \in Processes \ {w} : proc'[q] = proc[q]
          /\ proc'[w].pc # "claimed"
      BY <3>0 DEF Becomes, Ends, Goes
    <3>2. r[1] \in Orders /\ r[2] \in Slots
      BY DEF Rows
    <3>3. SetOffer(r[1], r[2], "expired") /\ Happened(r[1], OverClaim(r[1], r[2]))
      BY <2>4 DEF Overwrite
    <3>4. QED
      BY <3>1, <3>2, <3>3, OverwrittenClaim, ClaimsLeft DEF Processes
  <2>5. CASE NextOrder(w)
    <3>0. \/ Ends(w)
          \/ \E o \in proc[w].orders :
               Becomes(w, "exhaust", o, proc[w].slot, proc[w].todo, proc[w].rows,
                       proc[w].orders \ {o})
      BY <2>5, WorkProc DEF Processes
    <3>1. /\ \A q \in Processes \ {w} : proc'[q] = proc[q]
          /\ proc'[w].pc # "claimed"
      BY <3>0 DEF Becomes, Ends, Goes
    <3>2. UNCHANGED <<past, offer>>
      BY <2>5 DEF NextOrder, tables, rows, counts
    <3>3. QED
      BY <3>1, <3>2, ClaimsLeft DEF Processes, Accepted
  <2>6. CASE PollFails(w)
    <3>1. /\ \A q \in Processes \ {w} : proc'[q] = proc[q]
          /\ proc'[w].pc # "claimed"
      BY <2>6, WorkProc DEF Becomes, Ends, Goes, Processes
    <3>2. UNCHANGED <<past, offer>>
      BY <2>6 DEF PollFails, tables, rows, counts
    <3>3. QED
      BY <3>1, <3>2, ClaimsLeft DEF Processes, Accepted
  <2>7. CASE Exhaust(w)
    BY <1>4, <2>7 DEF Processes
  <2> QED BY <1>6, <2>1, <2>2, <2>3, <2>4, <2>5, <2>6, <2>7 DEF Work
<1>7. ASSUME NEW p \in Processes, Fail(p) PROVE ClaimInv'
  <2>1. /\ \A q \in Processes \ {p} : proc'[q] = proc[q]
        /\ proc'[p].pc # "claimed"
    BY <1>7, FailProc DEF Becomes, Ends, Goes
  <2>2. UNCHANGED <<past, offer>>
    BY <1>7 DEF Fail, tables, rows
  <2>3. QED
    BY <2>1, <2>2, ClaimsLeft DEF Accepted
<1>8. CASE Environment
  <2>1. UNCHANGED <<proc, past, offer>>
    BY <1>8 DEF Environment, EscrowSets, SetAvailability, OfferAges, counts, rows
  <2>2. QED
    BY <2>1 DEF ClaimInv, Undisturbed, Accepted, At
<1>9. CASE UNCHANGED vars
  <2>1. UNCHANGED <<proc, past, offer>>
    BY <1>9 DEF vars, tables, rows, counts
  <2>2. QED
    BY <2>1 DEF ClaimInv, Undisturbed, Accepted, At
<1> QED BY <1>1, <1>2, <1>3, <1>4, <1>5, <1>6, <1>7, <1>8, <1>9 DEF Next,
  Handle, Processes

-----------------------------------------------------------------------------
(* Exhaustion                                                              *)

\* Order o is as if every driver had said no, and nobody has been alerted.
Unnoticed(o) ==
  /\ "claimed" \notin past[o] /\ failures = 0
  /\ Offers(o) # {} /\ LiveOffers(o) = {} /\ alerts[o] = 0

\* Process p is the only one to act.  Where it leaves an order unnoticed, that
\* is not new and p was not to deal with it, or p is to deal with it now.
LEMMA DutyLeft ==
  ASSUME AlertInv, NEW p \in Processes,
         \A q \in Processes \ {p} : proc'[q] = proc[q],
         \A o \in Orders : Unnoticed(o)' =>
           OnDuty(p, o)' \/ (Unnoticed(o) /\ ~OnDuty(p, o))
  PROVE  AlertInv'
<1>1. SUFFICES ASSUME NEW o \in Orders, Unnoticed(o)'
               PROVE  \E q \in Processes : OnDuty(q, o)'
  BY DEF AlertInv, Unnoticed
<1>2. CASE OnDuty(p, o)'
  BY <1>2
<1>3. CASE Unnoticed(o) /\ ~OnDuty(p, o)
  <2>1. PICK q \in Processes : OnDuty(q, o)
    BY <1>3 DEF AlertInv, Unnoticed
  <2>2. proc'[q] = proc[q]
    BY <1>3, <2>1
  <2>3. OnDuty(q, o)'
    BY <2>1, <2>2 DEF OnDuty
  <2>4. QED
    BY <2>3
<1>4. QED
  BY <1>1, <1>2, <1>3

\* A step that changes nothing of what makes an order unnoticed.
LEMMA SameNotice ==
  ASSUME UNCHANGED <<offer, past, alerts, failures>>
  PROVE  \A o \in Orders : Unnoticed(o)' <=> Unnoticed(o)
BY DEF Unnoticed, Offers, LiveOffers

\* A process that is not dealing with any order.
LEMMA OffDuty ==
  ASSUME WorkInv, NEW p \in Processes, proc[p].pc \notin DutySteps
  PROVE  \A o \in Orders : ~OnDuty(p, o)
BY DEF WorkInv, DutySteps, OnDuty

\* A process that returns is done with its order, and not with the others.
LEMMA ReturnDuty ==
  ASSUME WorkInv, NEW p \in Processes, Returns(p)
  PROVE  \A o \in Orders : OnDuty(p, o) => o = proc[p].order \/ OnDuty(p, o)'
BY DEF WorkInv, Returns, Goes, Ends, Becomes, OnDuty

\* Whoever leaves an order without a live offer looks after it.
LEMMA AlertStep ==
  ASSUME TypeOK, SubjectInv, WorkInv, CountInv, ClaimedInv, AlertInv, [Next]_vars
  PROVE  AlertInv'
<1>1. ASSUME NEW p \in Requests, Assign(p) PROVE AlertInv'
  <2>1. ASSUME NEW o \in Orders, Place(p, o)
         PROVE  AlertInv'
    <3>0. Becomes(p, "find", o, 0, {}, {}, {})
      BY <2>1, AssignProc DEF Processes
    <3>1. \A q \in Processes \ {p} : proc'[q] = proc[q]
      BY <3>0 DEF Becomes, Ends, Goes
    <3>2. \A x \in Orders : ~OnDuty(p, x)
      BY <2>1, OffDuty DEF Place, At, Begin, Processes, DutySteps, ExhaustSteps
    <3>3. UNCHANGED <<offer, past, alerts, failures>>
      BY <2>1 DEF Place, tables, rows, counts
    <3>4. QED
      BY <3>1, <3>2, <3>3, SameNotice, DutyLeft DEF Processes
  <2>2. CASE FindDrivers(p)
    <3>1. \A q \in Processes \ {p} : proc'[q] = proc[q]
      BY <2>2, AssignProc DEF Becomes, Ends, Goes, Processes
    <3>2. \A x \in Orders : ~OnDuty(p, x)
      BY <2>2, OffDuty DEF FindDrivers, At, Begin, Processes, DutySteps, ExhaustSteps
    <3>3. UNCHANGED <<offer, past, alerts, failures>>
      BY <2>2 DEF FindDrivers, tables, rows, counts
    <3>4. QED
      BY <3>1, <3>2, <3>3, SameNotice, DutyLeft DEF Processes
  <2>3. ASSUME NEW o \in Orders, NEW d \in Drivers, ManualAssign(p, o, d)
         PROVE  AlertInv'
    <3>0. Becomes(p, "count", o, 0, {d}, {}, {})
      BY <2>3, AssignProc DEF Processes
    <3>1. \A q \in Processes \ {p} : proc'[q] = proc[q]
      BY <3>0 DEF Becomes, Ends, Goes
    <3>2. \A x \in Orders : ~OnDuty(p, x)
      BY <2>3, OffDuty DEF ManualAssign, At, Begin, Processes, DutySteps, ExhaustSteps
    <3>3. UNCHANGED <<offer, past, alerts, failures>>
      BY <2>3 DEF ManualAssign, tables, rows, counts
    <3>4. QED
      BY <3>1, <3>2, <3>3, SameNotice, DutyLeft DEF Processes
  <2>4. CASE CountOffers(p)
    <3>0. Becomes(p, "create", proc[p].order, Cardinality(Offers(proc[p].order)) + 1,
                    proc[p].todo, proc[p].rows, proc[p].orders)
      BY <2>4, AssignProc DEF Processes
    <3>1. \A q \in Processes \ {p} : proc'[q] = proc[q]
      BY <3>0 DEF Becomes, Ends, Goes
    <3>2. \A x \in Orders : ~OnDuty(p, x)
      BY <2>4, OffDuty DEF CountOffers, At, Begin, Processes, DutySteps, ExhaustSteps
    <3>3. UNCHANGED <<offer, past, alerts, failures>>
      BY <2>4 DEF CountOffers, tables, rows, counts
    <3>4. QED
      BY <3>1, <3>2, <3>3, SameNotice, DutyLeft DEF Processes
  <2>5. ASSUME NEW d \in Drivers, CreateOffer(p, d)
         PROVE  AlertInv'
    <3>0. \/ Ends(p)
          \/ Becomes(p, "count", proc[p].order, proc[p].slot, proc[p].todo \ {d},
                     proc[p].rows, proc[p].orders)
      BY <2>5, AssignProc DEF Processes
    <3>1. \A q \in Processes \ {p} : proc'[q] = proc[q]
      BY <3>0 DEF Becomes, Ends, Goes
    <3>2. \A x \in Orders : ~OnDuty(p, x)
      BY <2>5, OffDuty DEF CreateOffer, At, Begin, Processes, DutySteps, ExhaustSteps
    <3>3. ASSUME NEW x \in Orders, Unnoticed(x)' PROVE Unnoticed(x)
      <4>1. PICK y \in Orders, m \in Slots :
              \/ UNCHANGED <<offer, alerts>>
              \/ /\ offer[y][m] = "none"
                 /\ \A z \in Orders, k \in Slots :
                      offer'[z][k] = IF z = y /\ k = m THEN "notified" ELSE offer[z][k]
                 /\ \A z \in Orders : alerts'[z] = IF z = y THEN 0 ELSE alerts[z]
        BY <2>5, CreateRows DEF Processes
      <4>2. UNCHANGED <<past, failures>>
        BY <2>5 DEF CreateOffer
      <4>3. CASE UNCHANGED <<offer, alerts>>
        BY <3>3, <4>2, <4>3, SameNotice
      <4>4. CASE ~UNCHANGED <<offer, alerts>>
        <5>1. x # y
          BY <3>3, <4>1, <4>4 DEF Unnoticed, LiveOffers, Live
        <5>2. alerts'[x] = alerts[x] /\ \A k \in Slots : offer'[x][k] = offer[x][k]
          BY <4>1, <4>4, <5>1
        <5>3. QED
          BY <3>3, <4>2, <5>2 DEF Unnoticed, Offers, LiveOffers
      <4>5. QED
        BY <4>3, <4>4
    <3>4. QED
      BY <3>1, <3>2, <3>3, DutyLeft DEF Processes
  <2> QED BY <1>1, <2>1, <2>2, <2>3, <2>4, <2>5 DEF Assign
<1>2. ASSUME NEW p \in Requests, Accept(p) PROVE AlertInv'
  <2>1. ASSUME NEW o \in Orders, NEW n \in Slots, AcceptStart(p, o, n)
         PROVE  AlertInv'
    <3>0. Becomes(p, "claim", o, n, {}, {}, {})
      BY <2>1, AcceptProc DEF Processes
    <3>1. \A q \in Processes \ {p} : proc'[q] = proc[q]
      BY <3>0 DEF Becomes, Ends, Goes
    <3>2. \A x \in Orders : ~OnDuty(p, x)
      BY <2>1, OffDuty DEF AcceptStart, At, Begin, Processes, DutySteps, ExhaustSteps
    <3>3. UNCHANGED <<offer, past, alerts, failures>>
      BY <2>1 DEF AcceptStart, tables, rows, counts
    <3>4. QED
      BY <3>1, <3>2, <3>3, SameNotice, DutyLeft DEF Processes
  <2>2. CASE AcceptClaim(p)
    <3>1. \A q \in Processes \ {p} : proc'[q] = proc[q]
      BY <2>2, AcceptProc DEF Becomes, Ends, Goes, Processes
    <3>2. \A x \in Orders : ~OnDuty(p, x)
      BY <2>2, OffDuty DEF AcceptClaim, At, Begin, Processes, DutySteps, ExhaustSteps
    <3>3. ASSUME NEW x \in Orders, Unnoticed(x)' PROVE Unnoticed(x)
      <4>1. UNCHANGED <<offer, alerts, failures>> /\ past[x] \subseteq past'[x]
        BY <2>2, KeptStep DEF AcceptClaim, tables, rows, Kept
      <4>2. QED
        BY <3>3, <4>1 DEF Unnoticed, Offers, LiveOffers
    <3>4. QED
      BY <3>1, <3>2, <3>3, DutyLeft DEF Processes
  <2>3. CASE AcceptCommit(p)
    <3>0. Goes(p, "expire")
      BY <2>3, AcceptProc DEF Processes
    <3>1. \A q \in Processes \ {p} : proc'[q] = proc[q]
      BY <3>0 DEF Becomes, Ends, Goes
    <3>2. \A x \in Orders : ~OnDuty(p, x)
      BY <2>3, OffDuty DEF AcceptCommit, At, Begin, Processes, DutySteps, ExhaustSteps
    <3>3. PICK o \in Orders, n \in Slots : proc[p].order = o /\ proc[p].slot = n
      BY <2>3 DEF AcceptCommit, Processes, SubjectInv, Subject, WorkerSteps, TargetSteps,
        AcceptSteps, At
    <3>4. /\ Happened(o, {"claimed"}) /\ SetOffer(o, n, "accepted")
          /\ UNCHANGED <<alerts, failures>>
      BY <2>3, <3>3 DEF AcceptCommit
    <3>5. ASSUME NEW x \in Orders, Unnoticed(x)' PROVE Unnoticed(x)
      <4>1. x # o
        BY <3>4, <3>5, HappenedTo DEF Unnoticed
      <4>2. past'[x] = past[x] /\ \A m \in Slots : offer'[x][m] = offer[x][m]
        <5>1. past'[x] = past[x]
          BY <3>4, <4>1, HappenedTo
        <5>2. \A m \in Slots : offer'[x][m] = offer[x][m]
          BY <3>4, <4>1, OfferSet
        <5>3. QED
          BY <5>1, <5>2
      <4>3. QED
        BY <3>4, <3>5, <4>2 DEF Unnoticed, Offers, LiveOffers
    <3>6. QED
      BY <3>1, <3>2, <3>5, DutyLeft DEF Processes
  <2>4. CASE AcceptExpire(p)
    <3>1. \A q \in Processes \ {p} : proc'[q] = proc[q]
      BY <2>4, AcceptProc DEF Becomes, Ends, Goes, Processes
    <3>2. \A x \in Orders : ~OnDuty(p, x)
      BY <2>4, OffDuty DEF AcceptExpire, At, Begin, Processes, DutySteps, ExhaustSteps
    <3>3. PICK o \in Orders : proc[p].order = o
      BY <2>4 DEF AcceptExpire, Processes, SubjectInv, Subject, WorkerSteps, At
    <3>4. "claimed" \in past[o] /\ UNCHANGED <<past, alerts, failures>>
      BY <2>4, <3>3 DEF AcceptExpire, counts, ClaimedInv, At, Processes
    <3>5. ASSUME NEW x \in Orders, Unnoticed(x)' PROVE Unnoticed(x)
      <4>1. x # o
        BY <3>4, <3>5 DEF Unnoticed
      <4>2. offer'[x] = offer[x]
        BY <2>4, <3>3, <4>1 DEF AcceptExpire, TypeOK
      <4>3. QED
        BY <3>4, <3>5, <4>2 DEF Unnoticed, Offers, LiveOffers
    <3>6. QED
      BY <3>1, <3>2, <3>5, DutyLeft DEF Processes
  <2>5. CASE AcceptOffline(p)
    <3>1. \A q \in Processes \ {p} : proc'[q] = proc[q]
      BY <2>5, AcceptProc DEF Becomes, Ends, Goes, Processes
    <3>2. \A x \in Orders : ~OnDuty(p, x)
      BY <2>5, OffDuty DEF AcceptOffline, At, Begin, Processes, DutySteps, ExhaustSteps
    <3>3. UNCHANGED <<offer, past, alerts, failures>>
      BY <2>5 DEF AcceptOffline, tables, rows, counts
    <3>4. QED
      BY <3>1, <3>2, <3>3, SameNotice, DutyLeft DEF Processes
  <2>6. CASE AcceptAssign(p)
    <3>1. \A q \in Processes \ {p} : proc'[q] = proc[q]
      BY <2>6, AcceptProc DEF Becomes, Ends, Goes, Processes
    <3>2. \A x \in Orders : ~OnDuty(p, x)
      BY <2>6, OffDuty DEF AcceptAssign, At, Begin, Processes, DutySteps, ExhaustSteps
    <3>3. UNCHANGED <<offer, past, alerts, failures>>
      BY <2>6 DEF AcceptAssign, tables, rows, counts
    <3>4. QED
      BY <3>1, <3>2, <3>3, SameNotice, DutyLeft DEF Processes
  <2> QED BY <1>2, <2>1, <2>2, <2>3, <2>4, <2>5, <2>6 DEF Accept
<1>3. ASSUME NEW p \in Requests, Decline(p) PROVE AlertInv'
  <2>1. ASSUME NEW o \in Orders, NEW n \in Slots, DeclineStart(p, o, n)
         PROVE  AlertInv'
    <3>0. Becomes(p, "decline", o, n, {}, {}, {})
      BY <2>1, DeclineProc DEF Processes
    <3>1. \A q \in Processes \ {p} : proc'[q] = proc[q]
      BY <3>0 DEF Becomes, Ends, Goes
    <3>2. \A x \in Orders : ~OnDuty(p, x)
      BY <2>1, OffDuty DEF DeclineStart, At, Begin, Processes, DutySteps, ExhaustSteps
    <3>3. UNCHANGED <<offer, past, alerts, failures>>
      BY <2>1 DEF DeclineStart, tables, rows, counts
    <3>4. QED
      BY <3>1, <3>2, <3>3, SameNotice, DutyLeft DEF Processes
  <2>2. CASE DeclineWrite(p)
    <3>1. \A q \in Processes \ {p} : proc'[q] = proc[q]
      BY <2>2, DeclineProc DEF Becomes, Ends, Goes, Processes
    <3>2. \A x \in Orders : ~OnDuty(p, x)
      BY <2>2, OffDuty DEF DeclineWrite, At, Begin, Processes, DutySteps, ExhaustSteps
    <3>3. PICK o \in Orders, n \in Slots : proc[p].order = o /\ proc[p].slot = n
      BY <2>2 DEF DeclineWrite, Processes, SubjectInv, Subject, WorkerSteps, TargetSteps, At
    <3>4. Goes(p, "exhaust") /\ SetOffer(o, n, "declined")
          /\ UNCHANGED <<alerts, failures>>
      BY <2>2, <3>3, DeclineProc DEF DeclineWrite, Processes
    <3>5. ASSUME NEW x \in Orders, Unnoticed(x)' PROVE Unnoticed(x) \/ OnDuty(p, x)'
      <4>1. CASE x = o
        BY <3>3, <3>4, <4>1 DEF OnDuty, ExhaustSteps, Goes, Becomes
      <4>2. CASE x # o
        <5>1. past[x] \subseteq past'[x] /\ \A m \in Slots : offer'[x][m] = offer[x][m]
          BY <3>4, <4>2, KeptStep, OfferSet DEF Kept
        <5>2. QED
          BY <3>4, <3>5, <5>1 DEF Unnoticed, Offers, LiveOffers
      <4>3. QED
        BY <4>1, <4>2
    <3>6. QED
      BY <3>1, <3>2, <3>5, DutyLeft DEF Processes
  <2> QED BY <1>3, <2>1, <2>2 DEF Decline
<1>4. ASSUME NEW p \in Processes, Exhaust(p) PROVE AlertInv'
  <2>1. CASE CountLive(p)
    <3>1. \A q \in Processes \ {p} : proc'[q] = proc[q]
      BY <2>1, ExhaustProc DEF Becomes, Ends, Goes, Returns, Processes
    <3>2. UNCHANGED <<offer, past, alerts, failures>>
      BY <2>1 DEF CountLive, tables, rows, counts
    <3>3. ASSUME NEW x \in Orders, Unnoticed(x)
          PROVE  OnDuty(p, x)' \/ ~OnDuty(p, x)
      <4>1. CASE Goes(p, "reset")
        BY <2>1, <4>1 DEF OnDuty, Goes, Becomes, ExhaustSteps
      <4>2. CASE LiveOffers(proc[p].order) # {} /\ Returns(p)
        BY <3>3, <4>2, ReturnDuty DEF Unnoticed
      <4>3. QED
        BY <2>1, <4>1, <4>2, ExhaustProc
    <3>4. \A x \in Orders : Unnoticed(x)' =>
            OnDuty(p, x)' \/ (Unnoticed(x) /\ ~OnDuty(p, x))
      BY <3>2, <3>3, SameNotice
    <3>5. QED
      BY <3>1, <3>4, DutyLeft
  <2>2. CASE ResetOrder(p)
    <3>1. \A q \in Processes \ {p} : proc'[q] = proc[q]
      BY <2>2, ExhaustProc DEF Becomes, Ends, Goes, Returns, Processes
    <3>2. UNCHANGED <<offer, past, alerts, failures>>
      BY <2>2 DEF ResetOrder, tables, rows, counts
    <3>3. \A x \in Orders : OnDuty(p, x) => OnDuty(p, x)'
      BY <2>2, ExhaustProc DEF OnDuty, Goes, Becomes, ExhaustSteps
    <3>4. \A x \in Orders : Unnoticed(x)' =>
            OnDuty(p, x)' \/ (Unnoticed(x) /\ ~OnDuty(p, x))
      BY <3>2, <3>3, SameNotice
    <3>5. QED
      BY <3>1, <3>4, DutyLeft
  <2>3. CASE AlertAdmins(p)
    <3>1. \A q \in Processes \ {p} : proc'[q] = proc[q]
      BY <2>3, ExhaustProc DEF Becomes, Ends, Goes, Returns, Processes
    <3>2. PICK o \in Orders : proc[p].order = o
      BY <2>3 DEF AlertAdmins, SubjectInv, Subject, WorkerSteps, At
    <3>3. /\ UNCHANGED <<offer, past, failures>> /\ Returns(p)
          /\ alerts' = [alerts EXCEPT ![o] = alerts[o] + 1]
      BY <2>3, <3>2, ExhaustProc DEF AlertAdmins, tables, rows
    <3>4. \A x \in Orders : alerts'[x] = IF x = o THEN alerts[o] + 1 ELSE alerts[x]
      BY <3>3 DEF TypeOK
    <3>5. ASSUME NEW x \in Orders, Unnoticed(x)'
          PROVE  Unnoticed(x) /\ (OnDuty(p, x) => OnDuty(p, x)')
      <4>1. alerts[o] + 1 # 0
        BY DEF TypeOK
      <4>2. x # o
        BY <3>4, <3>5, <4>1 DEF Unnoticed
      <4>3. Unnoticed(x)
        BY <3>3, <3>4, <3>5, <4>2 DEF Unnoticed, Offers, LiveOffers
      <4>4. QED
        BY <3>2, <3>3, <4>2, <4>3, ReturnDuty
    <3>6. \A x \in Orders : Unnoticed(x)' =>
            OnDuty(p, x)' \/ (Unnoticed(x) /\ ~OnDuty(p, x))
      BY <3>5
    <3>7. QED
      BY <3>1, <3>6, DutyLeft
  <2> QED BY <1>4, <2>1, <2>2, <2>3 DEF Exhaust
<1>5. ASSUME NEW p \in Requests, Complete(p) PROVE AlertInv'
  <2>1. ASSUME NEW o \in Orders, DeliverStart(p, o)
         PROVE  AlertInv'
    <3>0. Becomes(p, "deliver", o, 0, {}, {}, {})
      BY <2>1, CompleteProc DEF Processes
    <3>1. \A q \in Processes \ {p} : proc'[q] = proc[q]
      BY <3>0 DEF Becomes, Ends, Goes
    <3>2. \A x \in Orders : ~OnDuty(p, x)
      BY <2>1, OffDuty DEF DeliverStart, At, Begin, Processes, DutySteps, ExhaustSteps
    <3>3. UNCHANGED <<offer, past, alerts, failures>>
      BY <2>1 DEF DeliverStart, tables, rows, counts
    <3>4. QED
      BY <3>1, <3>2, <3>3, SameNotice, DutyLeft DEF Processes
  <2>2. CASE Deliver(p)
    <3>1. \A q \in Processes \ {p} : proc'[q] = proc[q]
      BY <2>2, CompleteProc DEF Becomes, Ends, Goes, Processes
    <3>2. \A x \in Orders : ~OnDuty(p, x)
      BY <2>2, OffDuty DEF Deliver, At, Begin, Processes, DutySteps, ExhaustSteps
    <3>3. UNCHANGED <<offer, past, alerts, failures>>
      BY <2>2 DEF Deliver, tables, rows, counts
    <3>4. QED
      BY <3>1, <3>2, <3>3, SameNotice, DutyLeft DEF Processes
  <2>3. CASE FindActive(p)
    <3>1. \A q \in Processes \ {p} : proc'[q] = proc[q]
      BY <2>3, CompleteProc DEF Becomes, Ends, Goes, Processes
    <3>2. \A x \in Orders : ~OnDuty(p, x)
      BY <2>3, OffDuty DEF FindActive, At, Begin, Processes, DutySteps, ExhaustSteps
    <3>3. UNCHANGED <<offer, past, alerts, failures>>
      BY <2>3 DEF FindActive, tables, rows, counts
    <3>4. QED
      BY <3>1, <3>2, <3>3, SameNotice, DutyLeft DEF Processes
  <2>4. CASE CompleteOffer(p)
    <3>0. Goes(p, "free")
      BY <2>4, CompleteProc DEF Processes
    <3>1. \A q \in Processes \ {p} : proc'[q] = proc[q]
      BY <3>0 DEF Becomes, Ends, Goes
    <3>2. \A x \in Orders : ~OnDuty(p, x)
      BY <2>4, OffDuty DEF CompleteOffer, At, Begin, Processes, DutySteps, ExhaustSteps
    <3>3. PICK o \in Orders, n \in Slots : proc[p].order = o /\ proc[p].slot = n
      BY <2>4 DEF CompleteOffer, Processes, SubjectInv, Subject, WorkerSteps, TargetSteps,
        At
    <3>4. SetOffer(o, n, "accepted") /\ UNCHANGED <<alerts, failures>>
      BY <2>4, <3>3 DEF CompleteOffer
    <3>5. ASSUME NEW x \in Orders, Unnoticed(x)' PROVE Unnoticed(x)
      <4>1. x # o
        BY <3>4, <3>5, OfferSet DEF Unnoticed, LiveOffers, Live
      <4>2. past[x] \subseteq past'[x] /\ \A m \in Slots : offer'[x][m] = offer[x][m]
        BY <3>4, <4>1, KeptStep, OfferSet DEF Kept
      <4>3. QED
        BY <3>4, <3>5, <4>2 DEF Unnoticed, Offers, LiveOffers
    <3>6. QED
      BY <3>1, <3>2, <3>5, DutyLeft DEF Processes
  <2>5. CASE FreeDriver(p)
    <3>1. \A q \in Processes \ {p} : proc'[q] = proc[q]
      BY <2>5, CompleteProc DEF Becomes, Ends, Goes, Processes
    <3>2. \A x \in Orders : ~OnDuty(p, x)
      BY <2>5, OffDuty DEF FreeDriver, At, Begin, Processes, DutySteps, ExhaustSteps
    <3>3. UNCHANGED <<offer, past, alerts, failures>>
      BY <2>5 DEF FreeDriver, tables, rows, counts
    <3>4. QED
      BY <3>1, <3>2, <3>3, SameNotice, DutyLeft DEF Processes
  <2> QED BY <1>5, <2>1, <2>2, <2>3, <2>4, <2>5 DEF Complete
<1>6. ASSUME NEW w \in Workers, Work(w) \/ PollFails(w) PROVE AlertInv'
  <2>1. CASE Poll(w)
    <3>1. \A q \in Processes \ {w} : proc'[q] = proc[q]
      BY <2>1, WorkProc DEF Becomes, Ends, Goes, Processes
    <3>2. \A x \in Orders : ~OnDuty(w, x)
      BY <2>1, OffDuty DEF Poll, At, Begin, Processes, DutySteps, ExhaustSteps
    <3>3. UNCHANGED <<offer, past, alerts, failures>>
      BY <2>1 DEF Poll, tables, rows, counts
    <3>4. QED
      BY <3>1, <3>2, <3>3, SameNotice, DutyLeft DEF Processes
  <2>2. CASE Lapse(w)
    <3>1. \A q \in Processes \ {w} : proc'[q] = proc[q]
      BY <2>2, WorkProc DEF Becomes, Ends, Goes, Processes
    <3>2. \A x \in Orders : ~OnDuty(w, x)
      BY <2>2, OffDuty DEF Lapse, At, Begin, Processes, DutySteps, ExhaustSteps
    <3>3. UNCHANGED <<past, alerts, failures>>
      BY <2>2 DEF Lapse, counts
    <3>4. proc'[w].orders = OrdersOf(proc[w].rows)
      BY <2>2, WorkProc DEF Becomes, Processes
    <3>5. ASSUME NEW x \in Orders, Unnoticed(x)' PROVE Unnoticed(x) \/ OnDuty(w, x)'
      <4>1. CASE \E m \in Slots : <<x, m>> \in proc[w].rows
        BY <3>4, <4>1 DEF OrdersOf, OnDuty
      <4>2. CASE \A m \in Slots : <<x, m>> \notin proc[w].rows
        <5>1. \A m \in Slots : offer'[x][m] = offer[x][m]
          BY <2>2, <4>2 DEF Lapse
        <5>2. QED
          BY <3>3, <3>5, <5>1 DEF Unnoticed, Offers, LiveOffers
      <4>3. QED
        BY <4>1, <4>2
    <3>6. QED
      BY <3>1, <3>2, <3>5, DutyLeft DEF Processes
  <2>3. CASE FallbackRead(w)
    <3>1. \A q \in Processes \ {w} : proc'[q] = proc[q]
      BY <2>3, WorkProc DEF Becomes, Ends, Goes, Processes
    <3>2. \A x \in Orders : ~OnDuty(w, x)
      BY <2>3, OffDuty DEF FallbackRead, At, Begin, Processes, DutySteps, ExhaustSteps
    <3>3. UNCHANGED <<offer, past, alerts, failures>>
      BY <2>3 DEF FallbackRead, tables, rows, counts
    <3>4. QED
      BY <3>1, <3>2, <3>3, SameNotice, DutyLeft DEF Processes
  <2>4. ASSUME NEW r \in Rows, Overwrite(w, r)
         PROVE  AlertInv'
    <3>0. \E s \in {"next", "overwrite"} :
            Becomes(w, s, proc[w].order, proc[w].slot, proc[w].todo, proc[w].rows \ {r},
                    proc[w].orders \cup {r[1]})
      BY <2>4, WorkProc DEF Processes
    <3>1. \A q \in Processes \ {w} : proc'[q] = proc[q]
      BY <3>0 DEF Becomes, Ends, Goes
    <3>2. PICK o \in Orders, n \in Slots : r[1] = o /\ r[2] = n
      BY DEF Rows
    <3>3. SetOffer(o, n, "expired") /\ UNCHANGED <<alerts, failures>> /\ At(w, "overwrite")
      BY <2>4, <3>2 DEF Overwrite
    <3>4. \A x \in Orders : OnDuty(w, x) \/ x = o => OnDuty(w, x)'
      BY <3>0, <3>2, <3>3 DEF OnDuty, Becomes, ExhaustSteps, At
    <3>5. ASSUME NEW x \in Orders, Unnoticed(x)', x # o PROVE Unnoticed(x)
      <4>1. past[x] \subseteq past'[x] /\ \A m \in Slots : offer'[x][m] = offer[x][m]
        BY <3>3, <3>5, KeptStep, OfferSet DEF Kept
      <4>2. QED
        BY <3>3, <3>5, <4>1 DEF Unnoticed, Offers, LiveOffers
    <3>6. \A x \in Orders : Unnoticed(x)' =>
            OnDuty(w, x)' \/ (Unnoticed(x) /\ ~OnDuty(w, x))
      BY <3>4, <3>5
    <3>7. QED
      BY <3>1, <3>6, DutyLeft DEF Processes
  <2>5. CASE NextOrder(w)
    <3>0. \/ Ends(w)
          \/ \E o \in proc[w].orders :
               Becomes(w, "exhaust", o, proc[w].slot, proc[w].todo, proc[w].rows,
                       proc[w].orders \ {o})
      BY <2>5, WorkProc DEF Processes
    <3>1. \A q \in Processes \ {w} : proc'[q] = proc[q]
      BY <3>0 DEF Becomes, Ends, Goes
    <3>2. UNCHANGED <<offer, past, alerts, failures>> /\ At(w, "next")
      BY <2>5 DEF NextOrder, tables, rows, counts
    <3>3. CASE proc[w].orders = {} /\ Ends(w)
      <4>1. \A x \in Orders : ~OnDuty(w, x)
        BY <3>2, <3>3 DEF OnDuty, At, ExhaustSteps
      <4>2. QED
        BY <3>1, <3>2, <4>1, SameNotice, DutyLeft DEF Processes
    <3>4. ASSUME NEW o \in proc[w].orders,
                 Becomes(w, "exhaust", o, proc[w].slot, proc[w].todo, proc[w].rows,
                         proc[w].orders \ {o})
          PROVE  AlertInv'
      <4>1. \A x \in Orders : OnDuty(w, x) => OnDuty(w, x)'
        BY <3>2, <3>4 DEF OnDuty, At, ExhaustSteps, Becomes
      <4>2. \A x \in Orders : Unnoticed(x)' =>
              OnDuty(w, x)' \/ (Unnoticed(x) /\ ~OnDuty(w, x))
        BY <3>2, <4>1, SameNotice
      <4>3. QED
        BY <3>1, <4>2, DutyLeft DEF Processes
    <3>5. QED
      BY <2>5, <3>3, <3>4, WorkProc DEF Processes
  <2>6. CASE PollFails(w)
    <3>1. \A x \in Orders : ~Unnoticed(x)'
      BY <2>6, BoundsAreNat DEF PollFails, Unnoticed, TypeOK
    <3>2. QED
      BY <3>1 DEF AlertInv, Unnoticed
  <2>7. CASE Exhaust(w)
    BY <1>4, <2>7 DEF Processes
  <2> QED BY <1>6, <2>1, <2>2, <2>3, <2>4, <2>5, <2>6, <2>7 DEF Work
<1>7. ASSUME NEW p \in Processes, Fail(p) PROVE AlertInv'
  <2>1. \A x \in Orders : ~Unnoticed(x)'
    BY <1>7, BoundsAreNat DEF Fail, Unnoticed, TypeOK
  <2>2. QED
    BY <2>1 DEF AlertInv, Unnoticed
<1>8. CASE Environment
  <2>1. UNCHANGED <<proc, offer, past, alerts, failures>>
    BY <1>8 DEF Environment, EscrowSets, SetAvailability, OfferAges, counts, rows
  <2>2. \A p \in Processes, x \in Orders : OnDuty(p, x)' <=> OnDuty(p, x)
    BY <2>1 DEF OnDuty
  <2>3. QED
    BY <2>1, <2>2 DEF AlertInv, Offers, LiveOffers
<1>9. CASE UNCHANGED vars
  <2>1. UNCHANGED <<proc, offer, past, alerts, failures>>
    BY <1>9 DEF vars, tables, rows, counts
  <2>2. \A p \in Processes, x \in Orders : OnDuty(p, x)' <=> OnDuty(p, x)
    BY <2>1 DEF OnDuty
  <2>3. QED
    BY <2>1, <2>2 DEF AlertInv, Offers, LiveOffers
<1> QED BY <1>1, <1>2, <1>3, <1>4, <1>5, <1>6, <1>7, <1>8, <1>9 DEF Next,
  Handle, Processes

-----------------------------------------------------------------------------
(* The invariant and the theorems                                          *)

\* Initially no order, no offer and no claim exists.
LEMMA InitInv ==
  ASSUME Init
  PROVE  IInv
<1>1. TypeOK
  BY BoundsAreNat DEF Init, TypeOK, Process, Steps, Idle
<1>2. \A p \in Processes : proc[p] = Idle
  BY DEF Init
<1>3. SubjectInv /\ WorkInv /\ LockInv /\ ClaimedInv
  BY <1>2 DEF SubjectInv, Subject, WorkInv, LockInv, ClaimedInv, Holds, At, Idle, MakeSteps,
    TargetSteps, AcceptSteps, RowSteps
<1>4. OfferInv /\ AlertInv
  BY DEF Init, OfferInv, AlertInv, Offers
<1>5. ClaimInv
  BY <1>2 DEF Init, ClaimInv, Accepted, At, Idle
<1>6. CountInv
  <2>1. SUFFICES ASSUME NEW o \in Orders PROVE Counted(o)
    BY DEF CountInv
  <2>2. Offers(o) = {}
    BY DEF Init, Offers
  <2>3. \A p \in Processes : ToMake(p, o) = {}
    BY <1>2 DEF ToMake, Idle
  <2>4. Unmade(o) = {}
    BY <2>3 DEF Unmade
  <2>5. IsFiniteSet(Unmade(o)) /\ Cardinality(Unmade(o)) = 0 /\ Cardinality(Offers(o)) = 0
    BY <2>2, <2>4, FS_EmptySet
  <2>6. manuals = 0
    BY DEF Init
  <2>7. QED
    BY <2>2, <2>4, <2>5, <2>6, SlotsAreNat DEF Counted
<1>7. QED
  BY <1>1, <1>3, <1>4, <1>5, <1>6 DEF IInv

\* Every step keeps the invariant.
LEMMA NextInv ==
  ASSUME IInv, [Next]_vars
  PROVE  IInv'
<1>1. TypeOK' /\ SubjectInv' /\ WorkInv' /\ OfferInv'
  BY TypeStep, SubjectStep, WorkStep, OfferStep DEF IInv
<1>2. CountInv' /\ LockInv' /\ ClaimInv' /\ ClaimedInv' /\ AlertInv'
  BY <1>1, CountStep, LockStep, ClaimStep, ClaimedStep, AlertStep DEF IInv
<1>3. QED
  BY <1>1, <1>2 DEF IInv

\* The invariant that the theorems follow from: each handler has the order and
\* the offer it works on, no more offers are made than there are numbers for, the
\* offers that an uncommitted statement has locked are open and its own, the
\* claims of an order leave one driver until something disturbs them, and
\* whoever leaves an order without a live offer is still to look after it.
THEOREM Invariance == Spec => []IInv
<1>1. Init => IInv
  BY InitInv
<1>2. IInv /\ [Next]_vars => IInv'
  BY NextInv
<1>3. QED
  BY <1>1, <1>2, PTL DEF Spec

\* Every variable keeps its type, for any number of orders, drivers, handlers
\* and workers: the numbers PrismaDispatchRepository.create gives to offers stay
\* within the drivers of the broadcast and the manual assignments.
THEOREM TypeCorrect == Spec => []TypeOK
<1>1. IInv => TypeOK
  BY DEF IInv
<1>2. QED
  BY <1>1, Invariance, PTL

\* An order all of whose offers were declined or have timed out is reported to
\* the admins by handleExhaustionIfNeeded, whichever answer came last and however
\* the answers, the broadcast and the worker overlapped.
THEOREM ExhaustionIsNoticed == Spec => []ExhaustionIsAlerted
<1>1. IInv => ExhaustionIsAlerted
  <2>1. SUFFICES ASSUME IInv, NEW o \in Orders, Quiet(o), "claimed" \notin past[o],
                        failures = 0, Offers(o) # {}, LiveOffers(o) = {}
                 PROVE  alerts[o] > 0
    BY DEF ExhaustionIsAlerted
  <2>2. \A p \in Processes : ~OnDuty(p, o)
    BY <2>1 DEF Quiet, OnDuty
  <2>3. alerts[o] # 0
    BY <2>1, <2>2 DEF IInv, AlertInv
  <2>4. alerts[o] \in Nat
    BY <2>1 DEF IInv, TypeOK
  <2>5. QED
    BY <2>3, <2>4
<1>2. QED
  BY <1>1, Invariance, PTL

\* A driver whose claim acceptJob has committed keeps the order, and keeps it
\* alone, unless one of the three things ClaimHolds names has happened.
THEOREM ClaimIsKept == Spec => []ClaimHolds
<1>1. IInv => ClaimHolds
  <2>1. SUFFICES ASSUME IInv, NEW o \in Orders, past[o] = {"claimed"}
                 PROVE  Cardinality(Accepted(o)) = 1
    BY DEF ClaimHolds, Accepted
  <2>2. PICK n \in Slots : Accepted(o) = {n}
    BY <2>1 DEF IInv, ClaimInv, Undisturbed
  <2>3. QED
    BY <2>2, FS_Singleton
<1>2. QED
  BY <1>1, Invariance, PTL

=============================================================================

--------------------------- MODULE FreshnessProofs ---------------------------
(***************************************************************************)
(* Proofs of the safety properties of module Freshness, for any servers,   *)
(* listings, grades, prices, threshold, window and gap between sweeps.     *)
(***************************************************************************)
EXTENDS Freshness, FiniteSetTheorems, TLAPS

-----------------------------------------------------------------------------
(* Arithmetic                                                              *)

LEMMA Quotient ==
  ASSUME NEW n \in Nat, NEW d \in Nat \ {0}
  PROVE  /\ n \div d \in Nat
         /\ (n \div d) * d <= n /\ n < (n \div d + 1) * d
OBVIOUS

LEMMA MulMonotone ==
  ASSUME NEW m \in Nat, NEW n \in Nat, m <= n, NEW k \in Nat
  PROVE  m * k \in Nat /\ n * k \in Nat /\ m * k <= n * k
<1>1. n = m + (n - m) /\ n - m \in Nat
  OBVIOUS
<1>2. (n - m) * k \in Nat /\ n * k = m * k + (n - m) * k
  BY <1>1
<1>3. m * k \in Nat /\ n * k \in Nat
  OBVIOUS
<1>4. QED
  BY <1>2, <1>3

LEMMA Successor ==
  ASSUME NEW m \in Nat, NEW k \in Nat
  PROVE  (m + 1) * k = m * k + k /\ m * k \in Nat
OBVIOUS

LEMMA WholeQuotient ==
  ASSUME NEW n \in Nat, NEW d \in Nat \ {0}, n % d = 0
  PROVE  n = (n \div d) * d
OBVIOUS

-----------------------------------------------------------------------------
(* Rounding                                                                *)

\* The whole number next to n / d is within a half of it, however what is
\* half-way is rounded.
LEMMA NearestBounds ==
  ASSUME NEW n \in Nat, NEW d \in Nat \ {0}, NEW c
  PROVE  /\ Nearest(n, d, c) \in Nat
         /\ 2 * n - d <= 2 * d * Nearest(n, d, c)
         /\ 2 * d * Nearest(n, d, c) <= 2 * n + d
<1> DEFINE m == 2 * n + d
           e == 2 * d
           q == m \div e
<1>1. m \in Nat /\ e \in Nat \ {0} /\ m > 0
  OBVIOUS
<1>2. q \in Nat /\ q * e <= m /\ m < (q + 1) * e
  BY <1>1, Quotient
<1>3. (q + 1) * e = q * e + e /\ q * e \in Nat
  BY <1>1, <1>2, Successor
<1>4. CASE ~ (m % e = 0 /\ c \in Down)
  <2>1. Nearest(n, d, c) = q
    BY <1>4 DEF Nearest
  <2>2. e * q = q * e
    BY <1>1, <1>2
  <2>3. 2 * n - d <= q * e /\ q * e <= 2 * n + d
    <3> HIDE DEF q
    <3>1. QED
      BY <1>2, <1>3
  <2>4. QED
    BY <1>2, <2>1, <2>2, <2>3
<1>5. CASE m % e = 0 /\ c \in Down
  <2>1. Nearest(n, d, c) = q - 1
    BY <1>5 DEF Nearest
  <2>2. m = q * e
    BY <1>1, <1>5, WholeQuotient
  <2>3. q # 0
    <3> HIDE DEF q, m
    <3>1. QED
      BY <1>1, <2>2
  <2>4. q - 1 \in Nat /\ e * (q - 1) = q * e - e
    <3> HIDE DEF q, m, e
    <3>1. q - 1 \in Nat
      BY <1>2, <2>3
    <3>2. ((q - 1) + 1) * e = (q - 1) * e + e /\ (q - 1) * e \in Nat
      BY <1>1, <3>1, Successor
    <3>3. (q - 1) + 1 = q /\ e * (q - 1) = (q - 1) * e
      BY <1>1, <1>2, <3>1
    <3>4. QED
      BY <1>1, <3>1, <3>2, <3>3
  <2>5. 2 * n - d <= q * e - e /\ q * e - e <= 2 * n + d
    <3> HIDE DEF q
    <3>1. QED
      BY <1>3, <2>2
  <2>6. QED
    BY <2>1, <2>4, <2>5
<1>6. QED
  BY <1>4, <1>5

\* Less is not rounded to more.
LEMMA NearestFalls ==
  ASSUME NEW m \in Nat, NEW n \in Nat, m < n, NEW d \in Nat \ {0}, NEW b, NEW c
  PROVE  Nearest(m, d, b) <= Nearest(n, d, c)
<1> DEFINE p == Nearest(m, d, b)
           q == Nearest(n, d, c)
           e == 2 * d
<1>1. /\ p \in Nat /\ e * p <= 2 * m + d
      /\ q \in Nat /\ 2 * n - d <= e * q
  BY NearestBounds
<1>2. e \in Nat
  OBVIOUS
<1> HIDE DEF p, q
<1> SUFFICES ASSUME q + 1 <= p PROVE FALSE
  BY <1>1 DEF p, q
<1>3. (q + 1) * e <= p * e /\ (q + 1) * e = q * e + e
  BY <1>1, <1>2, MulMonotone, Successor
<1>4. e * p = p * e /\ e * q = q * e /\ p * e \in Nat /\ q * e \in Nat
  BY <1>1, <1>2
<1>5. QED
  BY <1>1, <1>3, <1>4

\* A whole number is not rounded.
LEMMA WholeIsKept ==
  ASSUME NEW k \in Nat, NEW d \in Nat \ {0}, NEW c
  PROVE  Nearest(k * d, d, c) = k
<1> DEFINE q == Nearest(k * d, d, c)
           e == 2 * d
<1>1. e \in Nat \ {0} /\ k * d \in Nat
  OBVIOUS
<1>2. q \in Nat /\ 2 * (k * d) - d <= e * q /\ e * q <= 2 * (k * d) + d
  BY <1>1, NearestBounds
<1>3. 2 * (k * d) = k * e
  OBVIOUS
<1> HIDE DEF q
<1>4. e * q = q * e /\ q * e \in Nat /\ k * e \in Nat
  BY <1>1, <1>2
<1>5. ~ (q + 1 <= k)
  <2> SUFFICES ASSUME q + 1 <= k PROVE FALSE
    OBVIOUS
  <2>1. (q + 1) * e <= k * e /\ (q + 1) * e = q * e + e
    BY <1>1, <1>2, MulMonotone, Successor
  <2>2. QED
    BY <1>2, <1>3, <1>4, <2>1
<1>6. ~ (k + 1 <= q)
  <2> SUFFICES ASSUME k + 1 <= q PROVE FALSE
    OBVIOUS
  <2>1. (k + 1) * e <= q * e /\ (k + 1) * e = k * e + e
    BY <1>1, <1>2, MulMonotone, Successor
  <2>2. QED
    BY <1>2, <1>3, <1>4, <2>1
<1>7. QED
  BY <1>2, <1>5, <1>6 DEF q

-----------------------------------------------------------------------------
(* The projection of freshness                                             *)

LEMMA ProjectionType ==
  ASSUME NEW score \in Nat, NEW life \in Nat, NEW e \in Nat
  PROVE  ProjectFreshness(score, e, life) \in Nat
<1>1. CASE life = 0 \/ e >= life
  BY <1>1 DEF ProjectFreshness
<1>2. CASE life > 0 /\ e < life
  <2>1. score * (life - e) \in Nat /\ Fine * life \in Nat \ {0}
    BY <1>2, GradesArePositive
  <2>2. QED
    BY <1>2, <2>1, NearestBounds DEF ProjectFreshness
<1>3. QED
  BY <1>1, <1>2

\* Freshness never rises.
LEMMA ProjectionFalls ==
  ASSUME NEW score \in Nat, NEW life \in Nat, NEW e \in Nat, NEW f \in Nat, e <= f
  PROVE  ProjectFreshness(score, f, life) <= ProjectFreshness(score, e, life)
<1>1. CASE life = 0 \/ f >= life
  BY <1>1, ProjectionType DEF ProjectFreshness
<1>2. CASE e = f
  BY <1>2, ProjectionType
<1>3. CASE life > 0 /\ f < life /\ e < f
  <2> DEFINE m == score * (life - f)
             n == score * (life - e)
             d == Fine * life
  <2>1. d \in Nat \ {0}
    BY <1>3, GradesArePositive
  <2>2. /\ ProjectFreshness(score, f, life) = Nearest(m, d, <<score, f, life>>)
        /\ ProjectFreshness(score, e, life) = Nearest(n, d, <<score, e, life>>)
    BY <1>3 DEF ProjectFreshness
  <2>3. CASE score = 0
    <3>1. m = 0 * d /\ n = 0 * d
      BY <1>3, <2>1, <2>3
    <3> HIDE DEF m, n, d
    <3>2. QED
      BY <2>1, <2>2, <3>1, WholeIsKept
  <2>4. CASE score # 0
    <3>1. m \in Nat /\ n \in Nat /\ m < n
      <4>1. life - f \in Nat /\ f - e \in Nat \ {0} /\ life - e = (life - f) + (f - e)
        BY <1>3
      <4>2. score * (f - e) \in Nat \ {0}
        BY <2>4, <4>1
      <4>3. score * (life - e) = score * (life - f) + score * (f - e)
        BY <4>1
      <4>4. score * (life - f) \in Nat
        BY <4>1
      <4>5. QED
        BY <4>2, <4>3, <4>4
    <3> HIDE DEF m, n, d
    <3>2. QED
      BY <2>1, <2>2, <3>1, NearestFalls
  <2>5. QED
    BY <2>3, <2>4
<1>4. QED
  BY <1>1, <1>2, <1>3

\* A score of whole hundredths is shown as it is at first.
LEMMA FreshProjection ==
  ASSUME NEW score \in Nat, NEW life \in Nat \ {0}, score % Fine = 0
  PROVE  Fine * ProjectFreshness(score, 0, life) = score
<1> DEFINE k == score \div Fine
           d == Fine * life
<1>1. Fine \in Nat \ {0}
  BY GradesArePositive
<1>2. k \in Nat /\ score = k * Fine
  BY <1>1, WholeQuotient, Quotient
<1>3. d \in Nat \ {0} /\ score * (life - 0) = score * life
  BY <1>1
<1>4. ProjectFreshness(score, 0, life) = Nearest(score * life, d, <<score, 0, life>>)
  BY <1>3 DEF ProjectFreshness
<1> HIDE DEF k
<1>5. score * life = k * d
  BY <1>1, <1>2
<1> HIDE DEF d
<1>6. Nearest(score * life, d, <<score, 0, life>>) = k
  BY <1>2, <1>3, <1>5, WholeIsKept
<1>7. QED
  BY <1>1, <1>2, <1>4, <1>6

-----------------------------------------------------------------------------
(* Ceilings                                                                *)

LEMMA CeilingFalls ==
  ASSUME NEW price \in Nat, NEW m \in Nat, NEW n \in Nat, m <= n
  PROVE  Ceiling(price, m) <= Ceiling(price, n)
<1> DEFINE d == 10000 * Fine
<1>1. d \in Nat \ {0}
  BY GradesArePositive
<1>2. m * price \in Nat /\ n * price \in Nat /\ m * price <= n * price
  BY MulMonotone
<1>3. price * m = m * price /\ price * n = n * price
  OBVIOUS
<1>4. /\ Ceiling(price, m) = Nearest(price * m, d, <<price, m>>)
      /\ Ceiling(price, n) = Nearest(price * n, d, <<price, n>>)
  BY DEF Ceiling
<1> HIDE DEF d
<1>5. CASE m = n
  BY <1>1, <1>2, <1>3, <1>4, <1>5, NearestBounds
<1>6. CASE price = 0
  <2>1. price * m = 0 * d /\ price * n = 0 * d
    BY <1>1, <1>6
  <2>2. QED
    BY <1>1, <1>4, <2>1, WholeIsKept
<1>7. CASE m # n /\ price # 0
  <2>1. price * m < price * n
    <3>1. n - m \in Nat \ {0} /\ price * (n - m) \in Nat \ {0}
      BY <1>7
    <3>2. price * n = price * m + price * (n - m)
      OBVIOUS
    <3>3. QED
      BY <1>2, <1>3, <3>1, <3>2
  <2>2. QED
    BY <1>1, <1>2, <1>3, <1>4, <2>1, NearestFalls
<1>8. QED
  BY <1>5, <1>6, <1>7

LEMMA CeilingsDoFall == CeilingsFall
<1> SUFFICES ASSUME NEW price \in Prices, NEW q \in Queries
             PROVE  LET shown == DecayProjection(price, q)
                    IN  /\ q.score % Fine = 0 => shown[0] = Ceiling(price, q.score)
                        /\ \A day \in 1 .. q.life : shown[day] <= shown[day - 1]
                        /\ shown[q.life] = 0
  BY DEF CeilingsFall
<1> DEFINE shown == DecayProjection(price, q)
           P(day) == ProjectFreshness(q.score, day, q.life)
<1>1. price \in Nat /\ q.score \in Nat /\ q.life \in Nat \ {0} /\ Fine \in Nat \ {0}
  BY PricesAreNat, GradesArePositive
<1>2. \A day \in 0 .. q.life : shown[day] = Ceiling(price, Fine * P(day))
  BY DEF DecayProjection
<1>3. ASSUME q.score % Fine = 0 PROVE shown[0] = Ceiling(price, q.score)
  BY <1>1, <1>2, <1>3, FreshProjection
<1>4. \A day \in 1 .. q.life : shown[day] <= shown[day - 1]
  <2> SUFFICES ASSUME NEW day \in 1 .. q.life PROVE shown[day] <= shown[day - 1]
    OBVIOUS
  <2>1. day \in Nat /\ day - 1 \in Nat /\ day \in 0 .. q.life /\ day - 1 \in 0 .. q.life
    BY <1>1
  <2>2. P(day) \in Nat /\ P(day - 1) \in Nat
    BY <1>1, <2>1, ProjectionType
  <2> day - 1 <= day
    BY <2>1
  <2>3. P(day) <= P(day - 1)
    BY <1>1, <2>1, ProjectionFalls
  <2> HIDE DEF P, shown
  <2>4. /\ Fine * P(day) \in Nat /\ Fine * P(day - 1) \in Nat
        /\ Fine * P(day) <= Fine * P(day - 1)
    <3>1. /\ P(day) * Fine \in Nat /\ P(day - 1) * Fine \in Nat
          /\ P(day) * Fine <= P(day - 1) * Fine
      BY <1>1, <2>2, <2>3, MulMonotone
    <3>2. P(day) * Fine = Fine * P(day) /\ P(day - 1) * Fine = Fine * P(day - 1)
      BY <1>1, <2>2
    <3>3. QED
      BY <3>1, <3>2
  <2>5. Ceiling(price, Fine * P(day)) <= Ceiling(price, Fine * P(day - 1))
    BY <1>1, <2>4, CeilingFalls
  <2>6. QED
    BY <1>2, <2>1, <2>5
<1>5. shown[q.life] = 0
  <2>1. Fine * P(q.life) = 0
    BY <1>1 DEF ProjectFreshness
  <2>2. Ceiling(price, 0) = 0
    <3>1. price * 0 = 0 * (10000 * Fine) /\ 10000 * Fine \in Nat \ {0}
      BY <1>1
    <3>2. QED
      BY <3>1, WholeIsKept DEF Ceiling
  <2>3. QED
    BY <1>1, <1>2, <2>1, <2>2
<1>6. QED
  BY <1>3, <1>4, <1>5

LEMMA RoundingIsNearest == RoundsToNearest
<1> SUFFICES ASSUME NEW q \in Queries, NEW e \in 0 .. q.life
             PROVE  2 * (Fine * q.life) * ProjectFreshness(q.score, e, q.life)
                      - 2 * (q.score * (q.life - e))
                        \in -(Fine * q.life) .. Fine * q.life
  BY DEF RoundsToNearest
<1> DEFINE d == Fine * q.life
           n == q.score * (q.life - e)
           P == ProjectFreshness(q.score, e, q.life)
<1>1. q.score \in Nat /\ q.life \in Nat \ {0} /\ Fine \in Nat \ {0} /\ e \in Nat
  BY GradesArePositive
<1>2. d \in Nat \ {0}
  BY <1>1
<1>3. CASE e = q.life
  <2>1. P = 0 /\ n = 0
    BY <1>1, <1>3 DEF ProjectFreshness
  <2> HIDE DEF P, n, d
  <2>2. 2 * d * 0 - 2 * 0 \in -d .. d
    BY <1>2
  <2>3. QED
    BY <2>1, <2>2 DEF P, n, d
<1>4. CASE e # q.life
  <2>1. n \in Nat /\ e < q.life
    BY <1>1, <1>4
  <2>2. P = Nearest(n, d, <<q.score, e, q.life>>)
    BY <1>1, <2>1 DEF ProjectFreshness
  <2> HIDE DEF n, d, P
  <2>3. P \in Nat /\ 2 * n - d <= 2 * d * P /\ 2 * d * P <= 2 * n + d
    BY <1>2, <2>1, <2>2, NearestBounds
  <2> DEFINE x == 2 * d * P
  <2>4. x \in Int /\ 2 * n - d <= x /\ x <= 2 * n + d
    BY <1>2, <2>3
  <2> HIDE DEF x
  <2>5. x - 2 * n \in -d .. d
    BY <1>2, <2>1, <2>4
  <2>6. QED
    BY <2>5 DEF x, n, d, P
<1>5. QED
  BY <1>3, <1>4

-----------------------------------------------------------------------------
(* The time before a drop                                                  *)

\* A row whose projection can be computed.
IsRow(row) == row.score \in Nat /\ row.life \in Nat /\ row.created \in Nat

LEMMA ProjectedFalls ==
  ASSUME NEW l, IsRow(listing[l]), NEW t \in Nat, NEW u \in Nat, t <= u
  PROVE  ProjectedAt(l, t) \in Nat /\ ProjectedAt(l, u) \in Nat
         /\ ProjectedAt(l, u) <= ProjectedAt(l, t)
<1> DEFINE e == IF t < listing[l].created THEN 0 ELSE t - listing[l].created
           f == IF u < listing[l].created THEN 0 ELSE u - listing[l].created
<1>1. e \in Nat /\ f \in Nat /\ e <= f
  BY DEF IsRow
<1> HIDE DEF e, f
<1>2. Fine * listing[l].score \in Nat /\ listing[l].life \in Nat
  BY GradesArePositive DEF IsRow
<1>3. /\ ProjectFreshness(Fine * listing[l].score, e, listing[l].life) \in Nat
      /\ ProjectFreshness(Fine * listing[l].score, f, listing[l].life) \in Nat
      /\ ProjectFreshness(Fine * listing[l].score, f, listing[l].life)
           <= ProjectFreshness(Fine * listing[l].score, e, listing[l].life)
  BY <1>1, <1>2, ProjectionType, ProjectionFalls
<1>4. QED
  BY <1>3 DEF ProjectedAt, e, f

\* The time before the drop is one stretch.
LEMMA OneStretch ==
  ASSUME NEW l, IsRow(listing[l]), NEW t \in Nat, NEW u \in Nat, NEW v \in Nat,
         t <= u, u <= v, WillDrop(l, t), WillDrop(l, v)
  PROVE  WillDrop(l, u)
<1>1. t + Window \in Nat /\ u + Window \in Nat /\ t + Window <= u + Window
  BY NatBounds
<1>2. /\ ProjectedAt(l, u) \in Nat /\ ProjectedAt(l, v) \in Nat
      /\ ProjectedAt(l, v) <= ProjectedAt(l, u)
  BY ProjectedFalls
<1>3. /\ ProjectedAt(l, t + Window) \in Nat /\ ProjectedAt(l, u + Window) \in Nat
      /\ ProjectedAt(l, u + Window) <= ProjectedAt(l, t + Window)
  BY <1>1, ProjectedFalls
<1>4. QED
  BY <1>2, <1>3, NatBounds DEF WillDrop

\* What is below the threshold does not come into the window again.
LEMMA NoSecondStretch ==
  ASSUME NEW l, IsRow(listing[l]), NEW t \in Nat, NEW u \in Nat, t <= u,
         ProjectedAt(l, t) < Threshold
  PROVE  ~ WillDrop(l, u)
BY ProjectedFalls, NatBounds DEF WillDrop

LEMMA SameWindow ==
  ASSUME NEW l, NEW t, listing'[l].score = listing[l].score,
         listing'[l].life = listing[l].life, listing'[l].created = listing[l].created
  PROVE  WillDrop(l, t)' <=> WillDrop(l, t)
BY DEF WillDrop, ProjectedAt

\* Every set of numbers that is not empty has a least one: the intervals below
\* its members are ordered as they are.
LEMMA Least ==
  ASSUME NEW S \in SUBSET Nat, S # {}
  PROVE  \E x \in S : \A y \in S : x <= y
<1> DEFINE Below == {0 .. x : x \in S}
<1>1. Below \subseteq FiniteSubsetsOf(Nat)
  <2> SUFFICES ASSUME NEW x \in S PROVE 0 .. x \in FiniteSubsetsOf(Nat)
    OBVIOUS
  <2>1. x \in Int /\ 0 \in Int
    OBVIOUS
  <2>2. IsFiniteSet(0 .. x)
    BY <2>1, FS_Interval
  <2>3. QED
    BY <2>2 DEF FiniteSubsetsOf
<1>2. Below # {}
  OBVIOUS
<1>3. PICK b \in Below : \A c \in Below : <<c, b>> \notin StrictSubsetOrdering(Nat)
  <2> HIDE DEF Below
  <2>1. QED
    BY <1>1, <1>2, FS_StrictSubsetOrderingWellFounded, WFMin
<1>4. PICK x \in S : b = 0 .. x
  BY <1>3
<1>5. \A y \in S : x <= y
  <2> SUFFICES ASSUME NEW y \in S, y < x PROVE FALSE
    OBVIOUS
  <2>1. 0 .. y \in SUBSET Nat /\ 0 .. x \in SUBSET Nat /\ 0 .. y \subseteq 0 .. x
    OBVIOUS
  <2>2. x \in 0 .. x /\ x \notin 0 .. y
    OBVIOUS
  <2>3. <<0 .. y, 0 .. x>> \in StrictSubsetOrdering(Nat)
    BY <2>1, <2>2 DEF StrictSubsetOrdering
  <2>4. QED
    BY <1>3, <1>4, <2>3
<1>6. QED
  BY <1>5

-----------------------------------------------------------------------------
(* The inductive invariant                                                 *)

\* A worker has listings left in a sweep only, and a sweep ends within a tick.
WorkerInv ==
  /\ current \in [Servers -> Listings \cup {None}]
  /\ \A s \in Servers :
       /\ pc[s] \in {"down", "wait"} => todo[s] = {}
       /\ pc[s] \in {"check", "send"} => since[s] <= 1

\* The start of the last sweep.
Swept(s) == clock - since[s]

\* A server that has been healthy has looked at a listing nobody was warned of
\* in every stretch of MaxGap + 1 ticks: it was not about to drop then, or its
\* warning is still to be sent in this sweep.
Looks(s, l) ==
  (pc[s] # "down" /\ warnings[l] = 0) =>
    \A a \in 0 .. Swept(s) :
      (healthy[s] < a /\ listing[l].listed < a) =>
        \/ \E t \in a .. Swept(s) : t <= a + MaxGap /\ ~ WillDrop(l, t)
        \/ l \in todo[s] /\ Swept(s) < a + MaxGap

LooksOften == \A s \in Servers, l \in Active : Looks(s, l)

\* Servers about to write a warning of a listing.
Sending(l) == {s \in Servers : pc[s] = "send" /\ current[s] = l}

\* Only who found no warning writes one.
SendsCount ==
  \A l \in Listings : warnings[l] > 0 =>
    warnings[l] + Cardinality(Sending(l)) <= Cardinality(Servers)

IInv ==
  /\ TypeOK
  /\ WorkerInv
  /\ LooksOften
  /\ SendsCount

-----------------------------------------------------------------------------
(* Types, and what a worker remembers                                      *)

LEMMA InitIInv == Init => IInv
<1> SUFFICES ASSUME Init PROVE IInv
  OBVIOUS
<1>1. TypeOK
  BY NatBounds DEF Init, TypeOK
<1>2. WorkerInv
  BY DEF Init, WorkerInv
<1>3. LooksOften
  BY DEF Init, LooksOften, Looks
<1>4. SendsCount
  BY DEF Init, SendsCount
<1>5. QED
  BY <1>1, <1>2, <1>3, <1>4 DEF IInv

\* A worker that waits or is down remembers no listing.
LEMMA RestType ==
  ASSUME TypeOK, WorkerInv, NEW s \in Servers, NEW step \in {"down", "wait"},
         pc' = [pc EXCEPT ![s] = step], todo' = [todo EXCEPT ![s] = {}],
         current' = [current EXCEPT ![s] = None], UNCHANGED since
  PROVE  /\ pc' \in [Servers -> {"down", "wait", "check", "send"}]
         /\ todo' \in [Servers -> SUBSET Listings]
         /\ \A q \in Servers :
              IF pc'[q] = "send" THEN current'[q] \in todo'[q] ELSE current'[q] = None
         /\ WorkerInv'
BY DEF TypeOK, WorkerInv

LEMMA WarnType ==
  ASSUME TypeOK, NEW l \in Listings, Warn(l), UNCHANGED read
  PROVE  /\ warnings' \in [Listings -> Nat]
         /\ \A k \in Listings : read'[k] <= warnings'[k]
BY DEF TypeOK, Warn

LEMMA NextType ==
  ASSUME TypeOK, WorkerInv, Next
  PROVE  TypeOK' /\ WorkerInv'
<1>1. ASSUME NEW l \in Listings, Leave(l) PROVE TypeOK' /\ WorkerInv'
  BY <1>1 DEF Leave, Active, TypeOK, WorkerInv, worker
<1>2. ASSUME NEW l \in Listings, Read(l) PROVE TypeOK' /\ WorkerInv'
  BY <1>2 DEF Read, MarkRead, TypeOK, WorkerInv, worker
<1>3. ASSUME NEW l \in Listings, NEW grade \in Grades, Create(l, grade)
      PROVE  TypeOK' /\ WorkerInv'
  <2>1. grade.score \in Nat /\ grade.life \in Nat
    BY GradesArePositive
  <2>2. /\ listing' = [listing EXCEPT ![l] =
              [status |-> "active", score |-> grade.score, life |-> grade.life,
               created |-> clock, listed |-> clock]]
        /\ UNCHANGED <<clock, warnings, read, pc, todo, current, since, healthy, failures>>
    BY <1>3 DEF Create, worker
  <2>3. QED
    BY <2>1, <2>2 DEF TypeOK, WorkerInv
<1>4. ASSUME NEW s \in Servers, Boot(s) PROVE TypeOK' /\ WorkerInv'
  <2>1. MaxGap \in 0 .. MaxGap /\ clock \in 0 .. clock
    BY NatBounds DEF TypeOK
  <2>2. TypeOK'
    BY <1>4, <2>1 DEF Boot, StartWorker, TypeOK
  <2>3. WorkerInv'
    BY <1>4 DEF Boot, StartWorker, TypeOK, WorkerInv
  <2>4. QED
    BY <2>2, <2>3
<1>5. ASSUME NEW s \in Servers, StartSweep(s) PROVE TypeOK' /\ WorkerInv'
  <2>1. 0 \in 0 .. MaxGap
    BY NatBounds
  <2>2. TypeOK'
    BY <1>5, <2>1 DEF StartSweep, Active, TypeOK
  <2>3. WorkerInv'
    BY <1>5 DEF StartSweep, TypeOK, WorkerInv
  <2>4. QED
    BY <2>2, <2>3
<1>6. ASSUME NEW s \in Servers, Check(s) PROVE TypeOK' /\ WorkerInv'
  <2>1. PICK l \in todo[s] :
          IF warnings[l] > 0
          THEN todo' = [todo EXCEPT ![s] = @ \ {l}] /\ UNCHANGED <<pc, current>>
          ELSE /\ current' = [current EXCEPT ![s] = l]
               /\ pc' = [pc EXCEPT ![s] = "send"]
               /\ UNCHANGED todo
    BY <1>6 DEF Check
  <2>2. l \in Listings
    BY DEF TypeOK
  <2>3. CASE warnings[l] > 0
    <3>1. /\ todo' = [todo EXCEPT ![s] = todo[s] \ {l}]
          /\ UNCHANGED <<clock, listing, warnings, read, pc, current, since, healthy, failures>>
      BY <1>6, <2>1, <2>3 DEF Check
    <3>2. pc[s] = "check"
      BY <1>6 DEF Check
    <3>3. todo \in [Servers -> SUBSET Listings]
      BY DEF TypeOK
    <3>4. /\ todo' \in [Servers -> SUBSET Listings]
          /\ \A x \in Servers \ {s} : todo'[x] = todo[x]
      BY <3>1, <3>3
    <3>5. TypeOK'
      BY <3>1, <3>2, <3>4 DEF TypeOK
    <3>6. WorkerInv'
      BY <3>1, <3>2, <3>4 DEF WorkerInv
    <3>7. QED
      BY <3>5, <3>6
  <2>4. CASE ~ (warnings[l] > 0)
    <3>1. /\ current' = [current EXCEPT ![s] = l] /\ pc' = [pc EXCEPT ![s] = "send"]
          /\ UNCHANGED <<clock, listing, warnings, read, todo, since, healthy, failures>>
      BY <1>6, <2>1, <2>4 DEF Check
    <3>2. pc' \in [Servers -> {"down", "wait", "check", "send"}]
      BY <3>1 DEF TypeOK
    <3>3. \A q \in Servers :
            IF pc'[q] = "send" THEN current'[q] \in todo'[q] ELSE current'[q] = None
      BY <3>1 DEF TypeOK, WorkerInv
    <3>4. TypeOK'
      BY <3>1, <3>2, <3>3 DEF TypeOK
    <3>5. WorkerInv'
      BY <1>6, <2>2, <3>1 DEF Check, TypeOK, WorkerInv
    <3>6. QED
      BY <3>4, <3>5
  <2>5. QED
    BY <2>3, <2>4
<1>7. ASSUME NEW s \in Servers, Send(s) PROVE TypeOK' /\ WorkerInv'
  <2>1. current[s] \in Listings
    BY <1>7 DEF Send, TypeOK
  <2>2. warnings' \in [Listings -> Nat] /\ \A k \in Listings : read'[k] <= warnings'[k]
    BY <1>7, <2>1, WarnType DEF Send
  <2>3. QED
    BY <1>7, <2>2 DEF Send, TypeOK, WorkerInv
<1>8. ASSUME NEW s \in Servers, EndSweep(s) PROVE TypeOK' /\ WorkerInv'
  BY <1>8 DEF EndSweep, TypeOK, WorkerInv
<1>9. ASSUME NEW s \in Servers, Fail(s) PROVE TypeOK' /\ WorkerInv'
  <2>1. warnings' \in [Listings -> Nat] /\ \A k \in Listings : read'[k] <= warnings'[k]
    <3>1. CASE UNCHANGED warnings
      BY <1>9, <3>1 DEF Fail, TypeOK
    <3>2. CASE pc[s] = "send" /\ Warn(current[s])
      BY <1>9, <3>2, WarnType DEF Fail, TypeOK
    <3>3. QED
      BY <1>9, <3>1, <3>2 DEF Fail
  <2>2. /\ pc' \in [Servers -> {"down", "wait", "check", "send"}]
        /\ todo' \in [Servers -> SUBSET Listings]
        /\ \A q \in Servers :
             IF pc'[q] = "send" THEN current'[q] \in todo'[q] ELSE current'[q] = None
        /\ WorkerInv'
    BY <1>9, RestType DEF Fail
  <2>3. healthy' \in [Servers -> 0 .. clock'] /\ failures' \in 0 .. MaxFailures
    BY <1>9, NatBounds DEF Fail, TypeOK
  <2>4. QED
    BY <1>9, <2>1, <2>2, <2>3 DEF Fail, TypeOK
<1>10. ASSUME NEW s \in Servers, Stop(s) PROVE TypeOK' /\ WorkerInv'
  <2>1. /\ pc' \in [Servers -> {"down", "wait", "check", "send"}]
        /\ todo' \in [Servers -> SUBSET Listings]
        /\ \A q \in Servers :
             IF pc'[q] = "send" THEN current'[q] \in todo'[q] ELSE current'[q] = None
        /\ WorkerInv'
    BY <1>10, RestType DEF Stop
  <2>2. failures' \in 0 .. MaxFailures
    BY <1>10, NatBounds DEF Stop, TypeOK
  <2>3. QED
    BY <1>10, <2>1, <2>2 DEF Stop, TypeOK
<1>11. ASSUME Tick PROVE TypeOK' /\ WorkerInv'
  <2>1. \A s \in Servers : since'[s] \in 0 .. MaxGap
                           /\ (pc[s] \in {"check", "send"} => since'[s] <= 1)
    <3> SUFFICES ASSUME NEW s \in Servers
                 PROVE  since'[s] \in 0 .. MaxGap
                        /\ (pc[s] \in {"check", "send"} => since'[s] <= 1)
      OBVIOUS
    <3>1. MayWait(s) /\ since'[s] = IF pc[s] = "down" THEN 0 ELSE since[s] + 1
      BY <1>11 DEF Tick
    <3>2. since[s] \in 0 .. MaxGap /\ MaxGap \in Nat \ {0}
      BY NatBounds DEF TypeOK
    <3>3. QED
      BY <3>1, <3>2 DEF MayWait
  <2>2. since' \in [Servers -> 0 .. MaxGap]
    BY <1>11, <2>1 DEF Tick
  <2>3. clock' \in 0 .. MaxClock /\ clock < clock'
    BY <1>11, NatBounds DEF Tick, TypeOK
  <2>4. healthy' \in [Servers -> 0 .. clock']
    BY <1>11, <2>3 DEF Tick, TypeOK
  <2>5. \A l \in Listings :
          listing'[l].created <= listing'[l].listed /\ listing'[l].listed <= clock'
    BY <1>11, <2>3 DEF Tick, TypeOK
  <2>6. TypeOK'
    BY <1>11, <2>2, <2>3, <2>4, <2>5 DEF Tick, TypeOK
  <2>7. WorkerInv'
    BY <1>11, <2>1 DEF Tick, WorkerInv
  <2>8. QED
    BY <2>6, <2>7
<1>12. ASSUME NEW l \in Listings, Relist(l) PROVE TypeOK' /\ WorkerInv'
  <2> DEFINE row == [listing[l] EXCEPT !.status = "active", !.listed = clock]
  <2>1. /\ listing' = [listing EXCEPT ![l] = row]
        /\ UNCHANGED <<clock, warnings, read, pc, todo, current, since, healthy, failures>>
    BY <1>12 DEF Relist, TypeOK, worker
  <2>2. /\ row \in [status : {"none", "active", "gone"}, score : Nat, life : Nat,
                    created : 0 .. MaxClock, listed : 0 .. MaxClock]
        /\ row.created = listing[l].created /\ row.listed = clock
    BY DEF TypeOK
  <2>3. row.created <= row.listed /\ clock <= clock
    BY <2>2 DEF TypeOK
  <2> HIDE DEF row
  <2>4. QED
    BY <2>1, <2>2, <2>3 DEF TypeOK, WorkerInv
<1>13. QED
  BY <1>1, <1>2, <1>3, <1>4, <1>5, <1>6, <1>7, <1>8, <1>9, <1>10, <1>11, <1>12 DEF Next

-----------------------------------------------------------------------------
(* Warned in time                                                          *)

\* What is known of a listing stays known while it and the sweep stay.
LEMMA LooksStays ==
  ASSUME TypeOK, TypeOK', NEW s \in Servers, NEW l \in Listings, Looks(s, l),
         Swept(s)' = Swept(s), healthy'[s] = healthy[s],
         listing'[l].score = listing[l].score, listing'[l].life = listing[l].life,
         listing'[l].created = listing[l].created,
         listing'[l].listed = listing[l].listed,
         pc'[s] # "down" /\ warnings'[l] = 0 =>
           /\ pc[s] # "down" /\ warnings[l] = 0
           /\ l \in todo[s] => l \in todo'[s]
  PROVE  Looks(s, l)'
<1> SUFFICES ASSUME pc'[s] # "down", warnings'[l] = 0, NEW a \in 0 .. Swept(s),
                    healthy[s] < a, listing[l].listed < a
             PROVE  \/ \E t \in a .. Swept(s) : t <= a + MaxGap /\ ~ (WillDrop(l, t)')
                    \/ l \in todo'[s] /\ Swept(s) < a + MaxGap
  BY DEF Looks
<1>1. \/ \E t \in a .. Swept(s) : t <= a + MaxGap /\ ~ WillDrop(l, t)
      \/ l \in todo[s] /\ Swept(s) < a + MaxGap
  BY DEF Looks
<1>2. CASE \E t \in a .. Swept(s) : t <= a + MaxGap /\ ~ WillDrop(l, t)
  BY <1>2, SameWindow
<1>3. CASE l \in todo[s] /\ Swept(s) < a + MaxGap
  BY <1>3
<1>4. QED
  BY <1>1, <1>2, <1>3

\* Nothing is asked of a server that was not healthy, or of a listing that is on
\* sale since now.
LEMMA LooksAtNothing ==
  ASSUME TypeOK, TypeOK', NEW s \in Servers, NEW l \in Listings,
         healthy'[s] = clock' \/ listing'[l].listed = clock'
  PROVE  Looks(s, l)'
<1>1. clock' \in Nat /\ since'[s] \in Nat
  BY DEF TypeOK
<1>2. Swept(s)' <= clock' /\ Swept(s)' \in Int
  BY <1>1 DEF Swept
<1>3. QED
  BY <1>1, <1>2 DEF Looks

\* A sweep looks at every listing that was active when it started.
LEMMA SweepLooks ==
  ASSUME TypeOK, TypeOK', WorkerInv, NEW s \in Servers, NEW l \in Active, Looks(s, l),
         StartSweep(s)
  PROVE  Looks(s, l)'
<1>1. /\ clock \in Nat /\ since[s] \in 0 .. MaxGap /\ MaxGap \in Nat \ {0}
      /\ Swept(s) = clock - since[s] /\ Swept(s)' = clock
  BY NatBounds DEF TypeOK, StartSweep, Swept
<1>2. pc[s] = "wait" /\ todo[s] = {} /\ (WillDrop(l, clock) => l \in todo'[s])
      /\ UNCHANGED <<healthy, listing, warnings>>
  BY DEF StartSweep, WorkerInv, TypeOK, worker
<1>3. \A t : WillDrop(l, t)' <=> WillDrop(l, t)
  BY <1>2, SameWindow
<1> SUFFICES ASSUME warnings[l] = 0, NEW a \in 0 .. clock,
                    healthy[s] < a, listing[l].listed < a
             PROVE  \/ \E t \in a .. clock : t <= a + MaxGap /\ ~ WillDrop(l, t)
                    \/ l \in todo'[s] /\ clock < a + MaxGap
  BY <1>1, <1>2, <1>3 DEF Looks
<1>4. CASE a <= Swept(s)
  <2>1. \E t \in a .. Swept(s) : t <= a + MaxGap /\ ~ WillDrop(l, t)
    BY <1>1, <1>2, <1>4 DEF Looks
  <2>2. QED
    BY <1>1, <2>1
<1>5. CASE Swept(s) < a
  <2>1. clock < a + MaxGap \/ clock = a + MaxGap
    BY <1>1, <1>5
  <2>2. CASE ~ WillDrop(l, clock)
    BY <1>1, <1>5, <2>2
  <2>3. CASE WillDrop(l, clock)
    BY <1>1, <1>2, <1>5, <2>3
  <2>4. QED
    BY <2>2, <2>3
<1>6. QED
  BY <1>1, <1>4, <1>5

LEMMA NextLooks ==
  ASSUME TypeOK, TypeOK', WorkerInv, LooksOften, Next
  PROVE  LooksOften'
<1> SUFFICES ASSUME NEW q \in Servers, NEW k \in Listings, k \in Active'
             PROVE  Looks(q, k)'
  BY DEF LooksOften, Active
<1> k \in Active => Looks(q, k)
  BY DEF LooksOften
<1>1. ASSUME NEW l \in Listings, Leave(l) PROVE Looks(q, k)'
  <2>1. k \in Active /\ listing'[k] = listing[k]
    BY <1>1 DEF Leave, Active, TypeOK
  <2>2. QED
    BY <1>1, <2>1, LooksStays DEF Leave, worker, Swept
<1>2. ASSUME NEW l \in Listings, Read(l) PROVE Looks(q, k)'
  BY <1>2, LooksStays DEF Read, worker, Swept, Active
<1>3. ASSUME NEW l \in Listings, NEW grade \in Grades, Create(l, grade) PROVE Looks(q, k)'
  <2>1. CASE k = l
    BY <1>3, <2>1, LooksAtNothing DEF Create, TypeOK
  <2>2. CASE k # l
    <3>1. k \in Active /\ listing'[k] = listing[k]
      BY <1>3, <2>2 DEF Create, Active, TypeOK
    <3>2. QED
      BY <1>3, <3>1, LooksStays DEF Create, worker, Swept
  <2>3. QED
    BY <2>1, <2>2
<1>4. ASSUME NEW s \in Servers, Boot(s) PROVE Looks(q, k)'
  <2>1. CASE q = s
    BY <1>4, <2>1, LooksAtNothing DEF Boot, TypeOK
  <2>2. CASE q # s
    BY <1>4, <2>2, LooksStays DEF Boot, StartWorker, TypeOK, Swept, Active
  <2>3. QED
    BY <2>1, <2>2
<1>5. ASSUME NEW s \in Servers, StartSweep(s) PROVE Looks(q, k)'
  <2>1. k \in Active
    BY <1>5 DEF StartSweep, Active
  <2>2. CASE q = s
    BY <1>5, <2>1, <2>2, SweepLooks
  <2>3. CASE q # s
    BY <1>5, <2>1, <2>3, LooksStays DEF StartSweep, TypeOK, Swept
  <2>4. QED
    BY <2>2, <2>3
<1>6. ASSUME NEW s \in Servers, Check(s) PROVE Looks(q, k)'
  <2>1. warnings[k] = 0 => (k \in todo[q] => k \in todo'[q])
    BY <1>6 DEF Check, TypeOK
  <2>2. pc'[q] # "down" => pc[q] # "down"
    BY <1>6 DEF Check, TypeOK
  <2>3. QED
    BY <1>6, <2>1, <2>2, LooksStays DEF Check, Swept, Active
<1>7. ASSUME NEW s \in Servers, Send(s) PROVE Looks(q, k)'
  <2>1. warnings'[k] = 0 => warnings[k] = 0 /\ (k \in todo[q] => k \in todo'[q])
    BY <1>7 DEF Send, Warn, TypeOK
  <2>2. pc'[q] # "down" => pc[q] # "down"
    BY <1>7 DEF Send, TypeOK
  <2>3. QED
    BY <1>7, <2>1, <2>2, LooksStays DEF Send, Swept, Active
<1>8. ASSUME NEW s \in Servers, EndSweep(s) PROVE Looks(q, k)'
  BY <1>8, LooksStays DEF EndSweep, TypeOK, Swept, Active
<1>9. ASSUME NEW s \in Servers, Fail(s) PROVE Looks(q, k)'
  <2>1. CASE q = s
    BY <1>9, <2>1, LooksAtNothing DEF Fail, TypeOK
  <2>2. CASE q # s
    <3>1. warnings'[k] = 0 => warnings[k] = 0
      BY <1>9 DEF Fail, Warn, TypeOK
    <3>2. QED
      BY <1>9, <2>2, <3>1, LooksStays DEF Fail, TypeOK, Swept, Active
  <2>3. QED
    BY <2>1, <2>2
<1>10. ASSUME NEW s \in Servers, Stop(s) PROVE Looks(q, k)'
  <2>1. CASE q = s
    BY <1>10, <2>1 DEF Stop, TypeOK, Looks
  <2>2. CASE q # s
    BY <1>10, <2>2, LooksStays DEF Stop, TypeOK, Swept, Active
  <2>3. QED
    BY <2>1, <2>2
<1>11. ASSUME Tick PROVE Looks(q, k)'
  <2>1. CASE pc[q] = "down"
    BY <1>11, <2>1 DEF Tick, Looks
  <2>2. CASE pc[q] # "down"
    <3>1. Swept(q)' = Swept(q)
      <4>1. clock' = clock + 1 /\ since'[q] = since[q] + 1
        BY <1>11, <2>2 DEF Tick
      <4>2. clock \in Nat /\ since[q] \in Nat
        BY DEF TypeOK
      <4>3. QED
        BY <4>1, <4>2 DEF Swept
    <3>2. QED
      BY <1>11, <2>2, <3>1, LooksStays DEF Tick, Active
  <2>3. QED
    BY <2>1, <2>2
<1>12. ASSUME NEW l \in Listings, Relist(l) PROVE Looks(q, k)'
  <2>1. CASE k = l
    BY <1>12, <2>1, LooksAtNothing DEF Relist, TypeOK
  <2>2. CASE k # l
    <3>1. k \in Active /\ listing'[k] = listing[k]
      BY <1>12, <2>2 DEF Relist, Active, TypeOK
    <3>2. QED
      BY <1>12, <3>1, LooksStays DEF Relist, worker, Swept
  <2>3. QED
    BY <2>1, <2>2
<1>13. QED
  BY <1>1, <1>2, <1>3, <1>4, <1>5, <1>6, <1>7, <1>8, <1>9, <1>10, <1>11, <1>12 DEF Next

\* A time before the drop that is longer than MaxGap + 2 ticks has two ends that
\* are as far apart, and all of it is before the drop.
LEMMA LongStretch ==
  ASSUME TypeOK, NEW l \in Listings, NEW s \in Servers,
         Cardinality(Chances(l, s)) > MaxGap + 2
  PROVE  \E a, b \in 0 .. clock :
           /\ a >= listing[l].listed /\ a >= healthy[s] /\ b >= a + MaxGap + 2
           /\ \A t \in a .. b : WillDrop(l, t)
<1> DEFINE S == Chances(l, s)
<1>1. clock \in Nat /\ MaxGap \in Nat /\ IsRow(listing[l])
  BY NatBounds DEF TypeOK, IsRow
<1>2. S \in SUBSET (0 .. clock) /\ S \in SUBSET Nat
  BY DEF Chances
<1>3. S # {}
  BY <1>1, FS_EmptySet
<1>4. PICK a \in S : \A t \in S : a <= t
  BY <1>2, <1>3, Least
<1>5. PICK b \in S : b >= a + MaxGap + 2
  <2> SUFFICES ASSUME \A b \in S : ~ (b >= a + MaxGap + 2) PROVE FALSE
    OBVIOUS
  <2> DEFINE c == a + MaxGap + 1
  <2>1. a \in Nat /\ a \in Int /\ c \in Int /\ c - a + 1 = MaxGap + 2 /\ ~ (a > c)
    BY <1>1, <1>2
  <2>2. S \subseteq a .. c
    BY <1>1, <1>2, <1>4
  <2> HIDE DEF c
  <2>3. IsFiniteSet(a .. c) /\ Cardinality(a .. c) = MaxGap + 2
    BY <2>1, FS_Interval
  <2>4. Cardinality(S) <= MaxGap + 2 /\ IsFiniteSet(S)
    <3> HIDE DEF S
    <3>1. QED
      BY <2>2, <2>3, FS_Subset
  <2>5. Cardinality(S) \in Nat
    BY <2>4, FS_CardinalityType
  <2>6. QED
    BY <1>1, <2>4, <2>5
<1>6. \A t \in a .. b : WillDrop(l, t)
  <2> SUFFICES ASSUME NEW t \in a .. b PROVE WillDrop(l, t)
    OBVIOUS
  <2>1. a \in Nat /\ b \in Nat /\ t \in Nat /\ a <= t /\ t <= b
    BY <1>2
  <2>2. WillDrop(l, a) /\ WillDrop(l, b)
    BY DEF Chances
  <2>3. QED
    BY <1>1, <2>1, <2>2, OneStretch
<1>7. QED
  BY <1>2, <1>5, <1>6 DEF Chances

LEMMA LooksInTime == IInv => WarnedInTime
<1> SUFFICES ASSUME IInv, NEW l \in Active, NEW s \in Servers, pc[s] # "down",
                    Cardinality(Chances(l, s)) > MaxGap + 2, ~ (warnings[l] > 0)
             PROVE  FALSE
  BY DEF WarnedInTime
<1>1. TypeOK /\ WorkerInv /\ Looks(s, l) /\ l \in Listings
  BY DEF IInv, LooksOften, Active
<1>2. PICK a, b \in 0 .. clock :
        /\ a >= listing[l].listed /\ a >= healthy[s] /\ b >= a + MaxGap + 2
        /\ \A t \in a .. b : WillDrop(l, t)
  BY <1>1, LongStretch
<1>3. /\ clock \in Nat /\ MaxGap \in Nat /\ since[s] \in 0 .. MaxGap
      /\ warnings[l] = 0 /\ listing[l].listed \in Nat /\ healthy[s] \in Nat
      /\ pc[s] \in {"wait", "check", "send"}
  BY <1>1, NatBounds DEF TypeOK
<1> DEFINE c == a + 1
<1>4. c \in 0 .. Swept(s)
  BY <1>2, <1>3 DEF Swept
<1>5. healthy[s] < c /\ listing[l].listed < c
  BY <1>2, <1>3
<1>6. CASE \E t \in c .. Swept(s) : t <= c + MaxGap /\ ~ WillDrop(l, t)
  <2>1. PICK t \in c .. Swept(s) : t <= c + MaxGap /\ ~ WillDrop(l, t)
    BY <1>6
  <2>2. t \in a .. b
    BY <1>2, <1>3, <2>1
  <2>3. QED
    BY <1>2, <2>1, <2>2
<1>7. CASE l \in todo[s] /\ Swept(s) < c + MaxGap
  <2>1. since[s] <= 1
    BY <1>1, <1>3, <1>7 DEF WorkerInv
  <2>2. QED
    BY <1>2, <1>3, <1>7, <2>1 DEF Swept
<1> HIDE DEF c
<1>8. QED
  BY <1>1, <1>3, <1>4, <1>5, <1>6, <1>7 DEF Looks

-----------------------------------------------------------------------------
(* Warned once by each server                                              *)

LEMMA SendingIsFinite ==
  ASSUME NEW l
  PROVE  /\ IsFiniteSet(Sending(l)) /\ Cardinality(Sending(l)) \in Nat
         /\ Cardinality(Servers) \in Nat /\ Cardinality(Sending(l)) <= Cardinality(Servers)
<1>1. Sending(l) \in SUBSET Servers
  BY DEF Sending
<1>2. QED
  BY <1>1, ServersAreFinite, FS_Subset, FS_CardinalityType

\* Fewer servers are about to write, and none has written.
LEMMA FewerSend ==
  ASSUME SendsCount, NEW l \in Listings, warnings'[l] = warnings[l], warnings[l] \in Nat,
         Sending(l)' \subseteq Sending(l)
  PROVE  warnings'[l] > 0 =>
           warnings'[l] + Cardinality(Sending(l)') <= Cardinality(Servers)
<1>1. IsFiniteSet(Sending(l)) /\ Cardinality(Sending(l)) \in Nat
      /\ Cardinality(Servers) \in Nat
  BY SendingIsFinite
<1>2. IsFiniteSet(Sending(l)') /\ Cardinality(Sending(l)') <= Cardinality(Sending(l))
  BY <1>1, FS_Subset
<1>3. Cardinality(Sending(l)') \in Nat
  BY <1>2, FS_CardinalityType
<1>4. QED
  BY <1>1, <1>2, <1>3 DEF SendsCount

\* One of those that are about to write has written.
LEMMA OneSends ==
  ASSUME SendsCount, NEW l \in Listings, NEW s \in Sending(l), warnings[l] \in Nat,
         warnings'[l] = warnings[l] + 1, Sending(l)' \subseteq Sending(l) \ {s}
  PROVE  warnings'[l] + Cardinality(Sending(l)') <= Cardinality(Servers)
<1>1. /\ IsFiniteSet(Sending(l)) /\ Cardinality(Sending(l)) \in Nat
      /\ Cardinality(Servers) \in Nat /\ Cardinality(Sending(l)) <= Cardinality(Servers)
  BY SendingIsFinite
<1>2. /\ IsFiniteSet(Sending(l) \ {s})
      /\ Cardinality(Sending(l) \ {s}) = Cardinality(Sending(l)) - 1
  BY <1>1, FS_RemoveElement
<1>3. IsFiniteSet(Sending(l)')
      /\ Cardinality(Sending(l)') <= Cardinality(Sending(l) \ {s})
  BY <1>2, FS_Subset
<1>4. Cardinality(Sending(l)') \in Nat
  BY <1>3, FS_CardinalityType
<1>5. QED
  BY <1>1, <1>2, <1>3, <1>4 DEF SendsCount

LEMMA NextSends ==
  ASSUME TypeOK, WorkerInv, SendsCount, Next
  PROVE  SendsCount'
<1> DEFINE Holds(k) == warnings'[k] > 0 =>
             warnings'[k] + Cardinality(Sending(k)') <= Cardinality(Servers)
<1> SUFFICES ASSUME NEW k \in Listings PROVE Holds(k)
  BY DEF SendsCount
<1>0. warnings[k] \in Nat
  BY DEF TypeOK
<1>1. ASSUME UNCHANGED warnings, Sending(k)' \subseteq Sending(k) PROVE Holds(k)
  BY <1>0, <1>1, FewerSend
<1>2. ASSUME NEW l \in Listings,
             Leave(l) \/ Relist(l) \/ Read(l) \/ \E grade \in Grades : Create(l, grade)
      PROVE  Holds(k)
  BY <1>1, <1>2 DEF Leave, Relist, Read, Create, worker, Sending
<1>3. ASSUME NEW s \in Servers, Boot(s) \/ StartSweep(s) \/ EndSweep(s) \/ Stop(s)
      PROVE  Holds(k)
  <2>1. UNCHANGED warnings
    BY <1>3 DEF Boot, StartSweep, EndSweep, Stop
  <2>2. \A q \in Servers : pc'[q] = "send" => pc[q] = "send"
    BY <1>3 DEF Boot, StartWorker, StartSweep, EndSweep, Stop, TypeOK
  <2>3. \A q \in Servers : pc'[q] = "send" => current'[q] = current[q]
    <3>1. CASE Stop(s)
      BY <3>1 DEF Stop, TypeOK, WorkerInv
    <3>2. CASE ~ Stop(s)
      BY <1>3, <3>2 DEF Boot, StartSweep, EndSweep
    <3>3. QED
      BY <3>1, <3>2
  <2>4. QED
    BY <1>1, <2>1, <2>2, <2>3 DEF Sending
<1>4. ASSUME NEW s \in Servers, Check(s) PROVE Holds(k)
  <2>1. UNCHANGED warnings
    BY <1>4 DEF Check
  <2>2. CASE warnings[k] = 0
    BY <2>1, <2>2
  <2>3. CASE warnings[k] > 0
    <3>1. PICK l \in todo[s] :
            \/ UNCHANGED <<pc, current>>
            \/ /\ ~ (warnings[l] > 0)
               /\ current' = [current EXCEPT ![s] = l]
               /\ pc' = [pc EXCEPT ![s] = "send"]
      BY <1>4 DEF Check
    <3>2. CASE UNCHANGED <<pc, current>>
      BY <1>1, <2>1, <3>2 DEF Sending
    <3>3. CASE /\ ~ (warnings[l] > 0)
               /\ current' = [current EXCEPT ![s] = l]
               /\ pc' = [pc EXCEPT ![s] = "send"]
      <4>1. l # k
        BY <2>3, <3>3
      <4>2. Sending(k)' \subseteq Sending(k)
        BY <3>3, <4>1 DEF Sending, TypeOK, WorkerInv
      <4>3. QED
        BY <1>1, <2>1, <4>2
    <3>4. QED
      BY <3>1, <3>2, <3>3
  <2>4. QED
    BY <1>0, <2>2, <2>3
<1>5. ASSUME NEW s \in Servers, pc[s] = "send", Warn(current[s]),
             current' = [current EXCEPT ![s] = None],
             \E step \in {"check", "wait"} : pc' = [pc EXCEPT ![s] = step]
      PROVE  Holds(k)
  <2>1. current[s] \in Listings
    BY <1>5 DEF TypeOK
  <2>2. Sending(k)' \subseteq Sending(k) \ {s}
    BY <1>5 DEF Sending, TypeOK, WorkerInv
  <2>3. CASE k = current[s]
    <3>1. s \in Sending(k) /\ warnings'[k] = warnings[k] + 1
      BY <1>5, <2>3 DEF Sending, Warn, TypeOK
    <3>2. QED
      BY <1>0, <2>2, <3>1, OneSends
  <2>4. CASE k # current[s]
    <3>1. warnings'[k] = warnings[k]
      BY <1>5, <2>4 DEF Warn, TypeOK
    <3>2. QED
      BY <1>0, <2>2, <3>1, FewerSend
  <2>5. QED
    BY <2>3, <2>4
<1>6. ASSUME NEW s \in Servers, Send(s) PROVE Holds(k)
  BY <1>5, <1>6 DEF Send
<1>7. ASSUME NEW s \in Servers, Fail(s) PROVE Holds(k)
  <2>1. CASE UNCHANGED warnings
    <3>1. Sending(k)' \subseteq Sending(k)
      BY <1>7 DEF Fail, Sending, TypeOK, WorkerInv
    <3>2. QED
      BY <1>1, <2>1, <3>1
  <2>2. CASE pc[s] = "send" /\ Warn(current[s])
    BY <1>5, <1>7, <2>2 DEF Fail
  <2>3. QED
    BY <1>7, <2>1, <2>2 DEF Fail
<1>8. ASSUME Tick PROVE Holds(k)
  BY <1>1, <1>8 DEF Tick, Sending
<1>9. QED
  BY <1>2, <1>3, <1>4, <1>6, <1>7, <1>8 DEF Next

LEMMA CountIsOnce == IInv => WarnedOncePerServer
<1> SUFFICES ASSUME IInv, NEW l \in Listings PROVE warnings[l] <= Cardinality(Servers)
  BY DEF WarnedOncePerServer
<1>1. warnings[l] \in Nat
  BY DEF IInv, TypeOK
<1>2. Cardinality(Sending(l)) \in Nat /\ Cardinality(Servers) \in Nat
  BY SendingIsFinite
<1>3. QED
  BY <1>1, <1>2 DEF IInv, SendsCount

-----------------------------------------------------------------------------
(* Theorems                                                                *)

LEMMA NextIInv == IInv /\ [Next]_vars => IInv'
<1> SUFFICES ASSUME IInv, [Next]_vars PROVE IInv'
  OBVIOUS
<1>1. CASE Next
  <2>1. TypeOK' /\ WorkerInv'
    BY <1>1, NextType DEF IInv
  <2>2. LooksOften'
    BY <1>1, <2>1, NextLooks DEF IInv
  <2>3. SendsCount'
    BY <1>1, NextSends DEF IInv
  <2>4. QED
    BY <2>1, <2>2, <2>3 DEF IInv
<1>2. CASE UNCHANGED vars
  BY <1>2 DEF vars, worker, IInv, TypeOK, WorkerInv, LooksOften, Looks, Swept, Active,
    WillDrop, ProjectedAt, SendsCount, Sending
<1>3. QED
  BY <1>1, <1>2

\* The inductive invariant holds in every state.
THEOREM Invariance == Spec => []IInv
BY InitIInv, NextIInv, PTL DEF Spec

\* Every variable keeps its type, and a worker remembers nothing between sweeps.
THEOREM TypeCorrect == Spec => []TypeOK
<1>1. IInv => TypeOK
  BY DEF IInv
<1>2. QED
  BY <1>1, Invariance, PTL

\* FreshnessMonitorWorker.tick: whatever fails, a listing that was about to drop
\* while a server has been healthy for longer than two intervals has been warned of.
THEOREM TheFarmerIsWarned == Spec => []WarnedInTime
BY Invariance, LooksInTime, PTL

\* existsForListingAndType before the insert: no server warns twice.
THEOREM WarnedOnce == Spec => []WarnedOncePerServer
BY Invariance, CountIsOnce, PTL

\* projectFreshness and recommend: the projection is the linear decay to the
\* nearest hundredth, the ceilings made of it fall, the window is one stretch.
THEOREM ProjectionSound == Spec => []ProjectionIsSound
<1>1. IInv => ProjectionIsSound
  <2> SUFFICES ASSUME IInv, NEW l \in Active, NEW t \in 0 .. MaxClock + Window,
                      ProjectedAt(l, t) < Threshold, NEW u \in t .. MaxClock + Window
               PROVE  ~ WillDrop(l, u)
    BY RoundingIsNearest, CeilingsDoFall DEF ProjectionIsSound
  <2>1. IsRow(listing[l]) /\ t \in Nat /\ u \in Nat /\ t <= u
    BY NatBounds DEF IInv, TypeOK, Active, IsRow
  <2>2. QED
    BY <2>1, NoSecondStretch
<1>2. QED
  BY <1>1, Invariance, PTL
=============================================================================

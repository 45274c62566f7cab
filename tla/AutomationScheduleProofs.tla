----------------------- MODULE AutomationScheduleProofs -----------------------
(***************************************************************************)
(* Proofs about AutomationSchedule, for any schedules, zones and horizons. *)
(***************************************************************************)
EXTENDS AutomationSchedule, FiniteSetTheorems, WellFoundedInduction, TLAPS

-----------------------------------------------------------------------------
(***************************************************************************)
(* Least elements, and division.                                           *)
(***************************************************************************)

\* A set of naturals that is not empty has a least element, and Min is it.
LEMMA MinOfNaturals ==
  ASSUME NEW S \in SUBSET Nat, S # {}
  PROVE  Min(S) \in S /\ \A z \in S : Min(S) <= z
  <1> DEFINE R == OpToRel(<, Nat)
  <1>1. IsWellFoundedOn(R, Nat)
    BY NatLessThanWellFounded
  <1>2. PICK y \in S : \A z \in S : <<z, y>> \notin R
    BY <1>1, WFMin
  <1>3. \A z \in S : y <= z
    <2> SUFFICES ASSUME NEW z \in S PROVE y <= z
      OBVIOUS
    <2>1. ~(z < y)
      BY <1>2 DEF OpToRel
    <2> QED
      BY <2>1
  <1> QED
    BY <1>3 DEF Min

\* The least element is the only one.
LEMMA MinIs ==
  ASSUME NEW S \in SUBSET Nat, NEW y \in S, \A z \in S : y <= z
  PROVE  Min(S) = y
  <1>1. PICK m : m = Min(S)
    OBVIOUS
  <1>2. m \in S /\ m <= y
    BY <1>1, MinOfNaturals
  <1>3. m = y
    BY <1>2
  <1> QED
    BY <1>1, <1>3

\* A larger factor makes a larger product.
LEMMA ProductGrows ==
  ASSUME NEW e \in Nat, NEW a \in Nat, NEW b \in Nat, a <= b
  PROVE  e * a <= e * b /\ e * a \in Nat /\ e * b \in Nat
  OBVIOUS

\* Quotient and remainder.
LEMMA Division ==
  ASSUME NEW d \in Nat, NEW e \in Nat, e # 0
  PROVE  \E q, r \in Nat : d \div e = q /\ d % e = r /\ d = e * q + r /\ r < e
  <1>1. d \div e \in Nat /\ d % e \in Nat
    OBVIOUS
  <1>2. d = e * (d \div e) + (d % e)
    OBVIOUS
  <1>3. d % e < e
    OBVIOUS
  <1> QED
    BY <1>1, <1>2, <1>3

\* A multiple leaves nothing.
LEMMA Multiple ==
  ASSUME NEW e \in Nat, e # 0, NEW k \in Nat
  PROVE  (e * k) % e = 0
  OBVIOUS

\* A multiple, without its remainder.
LEMMA Divisible ==
  ASSUME NEW d \in Nat, NEW e \in Nat, e # 0, d % e = 0
  PROVE  \E q \in Nat : d = e * q
  <1>1. PICK q, r \in Nat : d % e = r /\ d = e * q + r
    BY Division
  <1>2. e * q \in Nat /\ r = 0
    BY <1>1, ProductGrows
  <1> QED
    BY <1>1, <1>2

\* The larger of two.
LEMMA LargerOfTwo ==
  ASSUME NEW a \in Int, NEW b \in Int
  PROVE  /\ Max({a, b}) \in {a, b} /\ Max({a, b}) \in Int
         /\ Max({a, b}) >= a /\ Max({a, b}) >= b
  <1>1. \E x \in {a, b} : \A y \in {a, b} : x >= y
    OBVIOUS
  <1>2. /\ Max({a, b}) \in {a, b}
        /\ \A y \in {a, b} : Max({a, b}) >= y
    BY <1>1 DEF Max
  <1> QED
    BY <1>2

\* The smaller of two.
LEMMA SmallerOfTwo ==
  ASSUME NEW a \in Nat, NEW b \in Nat
  PROVE  /\ Min({a, b}) \in Nat /\ Min({a, b}) <= a /\ Min({a, b}) <= b
         /\ Min({a, b}) = a \/ Min({a, b}) = b
  <1>1. PICK S : S = {a, b}
    OBVIOUS
  <1>2. S \in SUBSET Nat /\ S # {}
    BY <1>1
  <1>3. PICK m : m = Min(S)
    OBVIOUS
  <1>4. m \in S /\ \A z \in S : m <= z
    BY <1>2, <1>3, MinOfNaturals
  <1> QED
    BY <1>1, <1>3, <1>4

\* An increasing sequence has as many values as places.
LEMMA IncreasingCounts ==
  ASSUME NEW due \in Seq(Int), NEW k \in 0 .. Len(due),
         \A i, j \in 1 .. Len(due) : i < j => due[i] < due[j]
  PROVE  Cardinality({due[i] : i \in 1 .. k}) = k
  <1>1. PICK T : T = {due[i] : i \in 1 .. k}
    OBVIOUS
  <1> DEFINE f == [i \in 1 .. k |-> due[i]]
  <1>2. k \in Nat /\ \A i \in 1 .. k : i \in 1 .. Len(due) /\ due[i] \in Int
    OBVIOUS
  <1>3. f \in [1 .. k -> T] /\ \A t \in T : \E i \in 1 .. k : f[i] = t
    BY <1>1
  <1>4. ASSUME NEW i \in 1 .. k, NEW j \in 1 .. k, f[i] = f[j] PROVE i = j
    <2>1. due[i] = due[j] /\ due[i] \in Int
      BY <1>2, <1>4
    <2>2. ~(i < j) /\ ~(j < i)
      BY <1>2, <2>1
    <2> QED
      BY <1>2, <2>2
  <1>5. f \in Bijection(1 .. k, T)
    BY <1>3, <1>4 DEF Bijection, Injection, Surjection, IsInjective
  <1>6. ExistsBijection(1 .. k, T)
    BY <1>5 DEF ExistsBijection
  <1> QED
    BY <1>1, <1>2, <1>6, FS_CountingElements

-----------------------------------------------------------------------------
(***************************************************************************)
(* The next run is the schedule's first instant that is still to come.     *)
(***************************************************************************)

First(s, after, u) ==
  u \in Instants(s) /\ u > after /\ \A v \in Instants(s) : v > after => u <= v

\* Of the instants with a local value a Cron schedule runs at the first.
LEMMA CronInstants ==
  ASSUME NEW s \in Schedules, s.kind = "cron"
  PROVE  /\ s.zone \in [0 .. Horizon -> Nat] /\ ShownInOrder(s.zone)
         /\ Instants(s) \in SUBSET (0 .. Horizon)
         /\ \A u \in 0 .. Horizon :
              u \in Instants(s) <=> Matches(s, s.zone[u]) /\ FirstShown(s.zone, u)
  BY ScheduleAssumption DEF Instants

\* The first showing of a local value, if it has one.
LEMMA FirstShowing ==
  ASSUME NEW zone \in [0 .. Horizon -> Nat], NEW l, Candidates(zone, l) # {}
  PROVE  /\ Min(Candidates(zone, l)) \in 0 .. Horizon
         /\ zone[Min(Candidates(zone, l))] = l
         /\ FirstShown(zone, Min(Candidates(zone, l)))
         /\ \A u \in 0 .. Horizon : zone[u] = l => Min(Candidates(zone, l)) <= u
  <1>1. PICK C : C = Candidates(zone, l)
    OBVIOUS
  <1>2. C = {u \in 0 .. Horizon : zone[u] = l} /\ C \in SUBSET Nat
    BY <1>1 DEF Candidates
  <1>3. PICK m : m = Min(C)
    OBVIOUS
  <1>4. m \in C /\ \A u \in C : m <= u
    BY <1>1, <1>2, <1>3, MinOfNaturals
  <1>5. m \in 0 .. Horizon /\ zone[m] = l
    BY <1>2, <1>4
  <1>6. FirstShown(zone, m)
    <2> SUFFICES ASSUME NEW v \in 0 .. m - 1, zone[v] = l PROVE FALSE
      BY <1>5 DEF FirstShown
    <2>1. v \in 0 .. Horizon /\ ~(m <= v)
      BY <1>5, ScheduleAssumption
    <2> QED
      BY <1>2, <1>4, <2>1
  <1>7. \A u \in 0 .. Horizon : zone[u] = l => m <= u
    BY <1>2, <1>4
  <1> QED
    BY <1>1, <1>3, <1>5, <1>6, <1>7

\* What the search finds at a local value is an instant of the schedule that is
\* still to come, and it finds all of them.
LEMMA CronFinds ==
  ASSUME NEW s \in Schedules, s.kind = "cron", NEW after \in 0 .. MaxTime, NEW l
  PROVE  /\ CronRuns(s, after, l) # NoRun =>
              /\ CronRuns(s, after, l) \in Instants(s)
              /\ CronRuns(s, after, l) > after
              /\ s.zone[CronRuns(s, after, l)] = l
         /\ \A u \in Instants(s) : u > after /\ s.zone[u] = l => CronRuns(s, after, l) = u
  <1>1. PICK zone \in [0 .. Horizon -> Nat] : zone = s.zone
    BY CronInstants
  <1>2. PICK c : c = Candidates(zone, l)
    OBVIOUS
  <1>3. PICK m : m = Min(c)
    OBVIOUS
  <1>4. CronRuns(s, after, l) = IF Matches(s, l) /\ c # {} /\ m > after THEN m ELSE NoRun
    BY <1>1, <1>2, <1>3 DEF CronRuns
  <1>5. c # {} => /\ m \in 0 .. Horizon /\ zone[m] = l /\ FirstShown(zone, m)
                  /\ \A u \in 0 .. Horizon : zone[u] = l => m <= u
    BY <1>2, <1>3, FirstShowing
  <1>6. \A u \in 0 .. Horizon : u \in Instants(s) <=> Matches(s, zone[u]) /\ FirstShown(zone, u)
    BY <1>1, CronInstants
  <1>7. ASSUME CronRuns(s, after, l) # NoRun
        PROVE  /\ CronRuns(s, after, l) \in Instants(s)
               /\ CronRuns(s, after, l) > after
               /\ s.zone[CronRuns(s, after, l)] = l
    <2>1. Matches(s, l) /\ c # {} /\ m > after /\ CronRuns(s, after, l) = m
      BY <1>4, <1>7
    <2> QED
      BY <1>1, <1>5, <1>6, <2>1
  <1>8. ASSUME NEW u \in Instants(s), u > after, zone[u] = l
        PROVE  CronRuns(s, after, l) = u
    <2>1. u \in 0 .. Horizon
      BY CronInstants
    <2>2. Matches(s, l) /\ FirstShown(zone, u)
      BY <1>6, <1>8, <2>1
    <2>3. c # {}
      BY <1>2, <1>8, <2>1 DEF Candidates
    <2>4. m \in 0 .. Horizon /\ zone[m] = l /\ m <= u
      BY <1>5, <1>8, <2>1, <2>3
    <2>5. ~(m < u)
      <3>1. m < u => m \in 0 .. u - 1
        BY <2>1, <2>4
      <3> QED
        BY <1>8, <2>2, <2>4, <3>1 DEF FirstShown
    <2>6. m = u
      BY <2>1, <2>4, <2>5
    <2> QED
      BY <1>4, <1>8, <2>2, <2>3, <2>6
  <1> QED
    BY <1>1, <1>7, <1>8

\* An instant that is the first one is the least one.
LEMMA FirstIsMin ==
  ASSUME NEW s, NEW after, NEW u, Instants(s) \in SUBSET Nat, First(s, after, u)
  PROVE  /\ {v \in Instants(s) : v > after} # {}
         /\ Min({v \in Instants(s) : v > after}) = u
  <1>1. PICK S : S = {v \in Instants(s) : v > after}
    OBVIOUS
  <1>2. S \in SUBSET Nat /\ u \in S /\ \A v \in S : u <= v
    BY <1>1 DEF First
  <1> QED
    BY <1>1, <1>2, MinIs

\* Interval schedules.
LEMMA IntervalFirst ==
  ASSUME NEW s \in Schedules, s.kind = "interval", NEW after \in 0 .. MaxTime
  PROVE  Instants(s) \in SUBSET Nat /\ First(s, after, IntervalNext(s, after))
  <1>1. PICK a \in Nat, e \in Nat : a = s.start_at /\ e = s.every
    BY ScheduleAssumption
  <1>2. /\ e # 0 /\ a <= Horizon /\ MaxTime + e <= Horizon /\ after \in Nat
        /\ after <= MaxTime /\ Horizon \in Nat /\ MaxTime \in Nat
    BY <1>1, ScheduleAssumption
  <1>3. Instants(s) = {u \in a .. Horizon : (u - a) % e = 0}
    BY <1>1 DEF Instants
  <1>4. Instants(s) \in SUBSET Nat
    BY <1>2, <1>3
  <1>5. PICK n : n = IntervalNext(s, after)
    OBVIOUS
  <1>6. CASE after < a
    <2>1. n = a
      BY <1>1, <1>5, <1>6 DEF IntervalNext
    <2>2. a \in a .. Horizon /\ a - a = 0
      BY <1>2
    <2>3. 0 % e = 0
      BY <1>2
    <2>4. a \in Instants(s)
      BY <1>3, <2>2, <2>3
    <2>5. \A v \in Instants(s) : a <= v
      BY <1>3
    <2> QED
      BY <1>4, <1>5, <1>6, <2>1, <2>4, <2>5 DEF First
  <1>7. CASE ~(after < a)
    <2>1. PICK d \in Nat : d = after - a
      BY <1>2, <1>7
    <2>2. PICK q \in Nat, r \in Nat : d \div e = q /\ d = e * q + r /\ r < e
      BY <1>2, Division
    <2>3. Max({1, q + 1}) = q + 1
      <3>1. PICK m \in Nat : m = q + 1
        OBVIOUS
      <3>2. m \in {1, m} /\ \A y \in {1, m} : m >= y
        BY <3>1
      <3>3. \A x \in {1, m} : (\A y \in {1, m} : x >= y) => x = m
        BY <3>1
      <3>4. Max({1, m}) = m
        BY <3>2, <3>3 DEF Max
      <3> QED
        BY <3>1, <3>4
    <2>4. n = a + (q + 1) * e
      BY <1>1, <1>5, <1>7, <2>1, <2>2, <2>3 DEF IntervalNext
    <2>5. PICK p \in Nat : p = e * (q + 1)
      OBVIOUS
    <2>6. n = a + p /\ p = e * q + e /\ e * q \in Nat
      BY <2>4, <2>5
    <2>7. n > after /\ n <= after + e
      BY <2>1, <2>2, <2>6
    <2>8. n \in a .. Horizon
      BY <1>2, <2>6, <2>7
    <2>9. p % e = 0
      BY <1>2, <2>5, Multiple
    <2>10. n \in Instants(s)
      <3>1. n - a = p
        BY <2>6
      <3> QED
        BY <1>3, <2>8, <2>9, <3>1
    <2>11. ASSUME NEW v \in Instants(s), v > after PROVE n <= v
      <3>1. v \in a .. Horizon /\ (v - a) % e = 0
        BY <1>3
      <3>2. PICK w \in Nat : w = v - a
        BY <3>1
      <3>3. PICK k \in Nat : w = e * k
        <4>1. PICK k \in Nat, z \in Nat : w \div e = k /\ w % e = z /\ w = e * k + z /\ z < e
          BY <1>2, Division
        <4>2. z = 0
          BY <3>1, <3>2, <4>1
        <4> QED
          BY <4>1, <4>2
      <3>4. w > d
        BY <2>1, <2>11, <3>1, <3>2
      <3>5. ~(k <= q)
        <4>1. k <= q => e * k <= e * q /\ e * k \in Nat
          BY ProductGrows
        <4> QED
          BY <2>2, <2>6, <3>3, <3>4, <4>1
      <3>6. p <= w
        <4>1. q + 1 <= k
          BY <3>5
        <4>2. e * (q + 1) <= e * k
          BY <4>1, ProductGrows
        <4> QED
          BY <2>5, <3>3, <4>2
      <3> QED
        BY <2>6, <3>1, <3>2, <3>6
    <2> QED
      BY <1>4, <1>5, <2>7, <2>10, <2>11 DEF First
  <1> QED
    BY <1>6, <1>7

\* Cron schedules: the search goes through local time, and finds the instant
\* that is first in UTC.
LEMMA CronFirst ==
  ASSUME NEW s \in Schedules, s.kind = "cron", NEW after \in 0 .. MaxTime,
         CronNext(s, after) # Unsupported
  PROVE  Instants(s) \in SUBSET Nat /\ First(s, after, CronNext(s, after))
  <1>1. PICK zone \in [0 .. Horizon -> Nat] : zone = s.zone /\ ShownInOrder(zone)
    BY CronInstants
  <1>2. after \in 0 .. Horizon /\ DayLength \in Nat /\ DayLength # 0 /\ SearchDays \in Nat
    BY ScheduleAssumption
  <1>3. PICK x \in Nat : x = zone[after]
    BY <1>2
  <1>4. PICK day \in Nat, r \in Nat : x \div DayLength = day /\ x = DayLength * day + r
    <2>1. PICK q \in Nat, r \in Nat : x \div DayLength = q /\ x % DayLength = r
                                     /\ x = DayLength * q + r /\ r < DayLength
      BY <1>2, Division
    <2> QED
      BY <2>1
  <1>5. PICK from \in Nat : from = day * DayLength
    BY <1>2
  <1>6. PICK to : to = (day + SearchDays) * DayLength - 1
    OBVIOUS
  <1>7. to \in Int
    BY <1>2, <1>6
  <1>8. from <= x
    BY <1>2, <1>4, <1>5
  <1>9. PICK found : found = {l \in from .. to : CronRuns(s, after, l) # NoRun}
    OBVIOUS
  <1>10. CronNext(s, after) = IF found = {} THEN Unsupported ELSE CronRuns(s, after, Min(found))
    BY <1>1, <1>3, <1>4, <1>5, <1>6, <1>9, Zenon DEF CronNext
  <1>11. found # {} /\ found \in SUBSET Nat
    BY <1>5, <1>7, <1>9, <1>10
  <1>12. PICK l : l = Min(found)
    OBVIOUS
  <1>13. l \in found /\ \A k \in found : l <= k
    BY <1>11, <1>12, MinOfNaturals
  <1>14. l \in from .. to /\ l \in Nat /\ CronRuns(s, after, l) # NoRun
    BY <1>9, <1>11, <1>13
  <1>15. PICK n : n = CronRuns(s, after, l)
    OBVIOUS
  <1>16. n = CronNext(s, after)
    BY <1>10, <1>11, <1>12, <1>15
  <1>17. n \in Instants(s) /\ n > after /\ zone[n] = l
    BY <1>1, <1>14, <1>15, CronFinds
  <1>18. \A u \in Instants(s) : u \in 0 .. Horizon /\ FirstShown(zone, u)
    BY <1>1, CronInstants
  <1>19. Instants(s) \in SUBSET Nat
    BY <1>18
  <1>20. ASSUME NEW v \in Instants(s), v > after, ~(n <= v) PROVE FALSE
    <2>1. v \in 0 .. Horizon /\ n \in 0 .. Horizon /\ FirstShown(zone, v) /\ FirstShown(zone, n)
      BY <1>17, <1>18
    <2>2. zone[v] < zone[n]
      BY <1>1, <1>20, <2>1 DEF ShownInOrder
    <2>3. PICK w \in 0 .. Horizon : FirstShown(zone, w) /\ zone[w] = x /\ w <= after
      <3>1. Candidates(zone, x) # {}
        BY <1>2, <1>3 DEF Candidates
      <3> QED
        BY <1>2, <1>3, <3>1, FirstShowing
    <2>4. w < v
      BY <1>20, <2>1, <2>3
    <2>5. x < zone[v]
      BY <1>1, <2>1, <2>3, <2>4 DEF ShownInOrder
    <2>6. PICK k \in Nat : k = zone[v]
      BY <2>1
    <2>7. k \in from .. to /\ k < l
      BY <1>7, <1>8, <1>14, <1>17, <2>2, <2>5, <2>6
    <2>8. CronRuns(s, after, k) = v
      BY <1>1, <1>20, <2>6, CronFinds
    <2>9. v # NoRun
      BY <2>1 DEF NoRun
    <2>10. k \in found
      BY <1>9, <2>7, <2>8, <2>9
    <2> QED
      BY <1>13, <1>14, <2>6, <2>7, <2>10
  <1> QED
    BY <1>16, <1>17, <1>19, <1>20 DEF First

\* What next_run_after returns, unless it raises.
LEMMA NextIsFirst ==
  ASSUME NEW s \in Schedules, NEW after \in 0 .. MaxTime,
         next_run_after(s, after) # Unsupported
  PROVE  LET later == {u \in Instants(s) : u > after}
         IN  next_run_after(s, after) = IF later = {} THEN NoRun ELSE Min(later)
  <1>1. CASE s.kind = "once"
    <2>1. PICK a \in Nat : a = s.at
      BY <1>1, ScheduleAssumption
    <2>2. Instants(s) = {a}
      BY <1>1, <2>1 DEF Instants
    <2>3. next_run_after(s, after) = IF a > after THEN a ELSE NoRun
      BY <1>1, <2>1 DEF next_run_after
    <2>4. CASE a > after
      <3>1. {u \in Instants(s) : u > after} = {a}
        BY <2>2, <2>4
      <3>2. Min({a}) = a
        BY MinIs
      <3> QED
        BY <2>3, <2>4, <3>1, <3>2
    <2>5. CASE ~(a > after)
      BY <2>2, <2>3, <2>5
    <2> QED
      BY <2>4, <2>5
  <1>2. CASE s.kind = "interval"
    <2>1. next_run_after(s, after) = IntervalNext(s, after)
      BY <1>2 DEF next_run_after
    <2> QED
      BY <1>2, <2>1, IntervalFirst, FirstIsMin
  <1>3. CASE s.kind = "cron"
    <2>1. next_run_after(s, after) = CronNext(s, after)
      BY <1>3 DEF next_run_after
    <2> QED
      BY <1>3, <2>1, CronFirst, FirstIsMin
  <1> QED
    BY <1>1, <1>2, <1>3, ScheduleAssumption

-----------------------------------------------------------------------------
(***************************************************************************)
(* The scan of late instants gathers all of them, in order.                *)
(***************************************************************************)

\* One row of the scan: what it collects after every instant, if `rest` is what
\* it collects with one candidate less.
Row(rest, s, time, left) ==
  [after \in Int |->
     LET candidate == next_run_after(s, after)
     IN  IF left = 0 \/ candidate = Unsupported THEN <<Unsupported>>
         ELSE IF candidate = NoRun \/ candidate > time THEN << >>
         ELSE <<candidate>> \o rest[candidate]]

\* The rows of the scan, for at most n candidates.
Collects(h, s, time, n) == h = [left \in 0 .. n |-> Row(h[left - 1], s, time, left)]

\* The scan's recursion has a solution: a least bound without one is not 0, and
\* one row more makes the solution of the bound before it its own.
LEMMA CollectorExists ==
  ASSUME NEW s, NEW time, NEW n \in Nat
  PROVE  \E h : Collects(h, s, time, n)
  <1> DEFINE S == {k \in Nat : ~ \E h : Collects(h, s, time, k)}
  <1> SUFFICES ASSUME S # {} PROVE FALSE
    OBVIOUS
  <1>1. PICK m \in S : \A k \in S : m <= k
    BY MinOfNaturals
  <1>2. CASE m = 0
    <2> DEFINE h == [left \in 0 .. 0 |-> Row(0, s, time, 0)]
    <2>1. \A x : Row(x, s, time, 0) = [after \in Int |-> <<Unsupported>>]
      BY DEF Row
    <2>2. h = [left \in 0 .. 0 |-> Row(h[left - 1], s, time, left)]
      <3>1. \A left \in 0 .. 0 : left = 0 /\ Row(h[left - 1], s, time, left) = Row(0, s, time, 0)
        BY <2>1
      <3> HIDE DEF h
      <3>2. [left \in 0 .. 0 |-> Row(h[left - 1], s, time, left)] = [left \in 0 .. 0 |-> Row(0, s, time, 0)]
        BY <3>1
      <3> QED
        BY <3>2 DEF h
    <2> HIDE DEF h
    <2>3. Collects(h, s, time, 0)
      BY <2>2 DEF Collects
    <2> QED
      BY <1>1, <1>2, <2>3
  <1>3. CASE m # 0
    <2>1. m - 1 \in Nat /\ m - 1 \notin S
      BY <1>1, <1>3
    <2>2. PICK g : Collects(g, s, time, m - 1)
      BY <2>1
    <2> DEFINE h == [left \in 0 .. m |-> Row(g[left - 1], s, time, left)]
    <2>3. \A left \in 0 .. m - 1 : g[left] = Row(g[left - 1], s, time, left)
      BY <1>1, <2>1, <2>2 DEF Collects
    <2>4. \A left \in 0 .. m : h[left] = Row(g[left - 1], s, time, left)
      OBVIOUS
    <2> HIDE DEF h
    <2>5. \A left \in 1 .. m : left - 1 \in 0 .. m - 1 /\ left - 1 \in 0 .. m
      BY <1>1
    <2>6. \A left \in 1 .. m : h[left - 1] = g[left - 1]
      BY <2>3, <2>4, <2>5
    <2>7. Row(h[0 - 1], s, time, 0) = Row(g[0 - 1], s, time, 0)
      BY DEF Row
    <2>8. \A left \in 0 .. m : Row(h[left - 1], s, time, left) = Row(g[left - 1], s, time, left)
      <3> SUFFICES ASSUME NEW left \in 0 .. m
                   PROVE  Row(h[left - 1], s, time, left) = Row(g[left - 1], s, time, left)
        OBVIOUS
      <3>1. CASE left = 0
        BY <2>7, <3>1
      <3>2. CASE left # 0
        <4>1. left \in 1 .. m
          BY <1>1, <3>2
        <4>2. h[left - 1] = g[left - 1]
          BY <2>6, <4>1
        <4> QED
          BY <4>2
      <3> QED
        BY <3>1, <3>2
    <2>9. h = [left \in 0 .. m |-> Row(h[left - 1], s, time, left)]
      <3>1. [left \in 0 .. m |-> Row(h[left - 1], s, time, left)]
              = [left \in 0 .. m |-> Row(g[left - 1], s, time, left)]
        BY <2>8
      <3> QED
        BY <3>1 DEF h
    <2>10. Collects(h, s, time, m)
      BY <2>9 DEF Collects
    <2> QED
      BY <1>1, <2>10
  <1> QED
    BY <1>2, <1>3

\* The scan takes the row of its bound.
LEMMA ScanUnfolds ==
  ASSUME NEW s, NEW time
  PROVE  \E h : /\ Collects(h, s, time, MaxScan)
                /\ \A cursor : Scan(s, cursor, time) = h[MaxScan][cursor]
  <1>1. PICK h : h = (CHOOSE f : Collects(f, s, time, MaxScan))
    OBVIOUS
  <1>2. Collects(h, s, time, MaxScan)
    BY <1>1, CollectorExists, ScheduleAssumption
  <1>3. \A cursor : Scan(s, cursor, time) = (CHOOSE f : Collects(f, s, time, MaxScan))[MaxScan][cursor]
    BY DEF Scan, Collects, Row
  <1> QED
    BY <1>1, <1>2, <1>3

\* What the scan has to collect: the instants after the cursor that are due, in
\* order, unless it ends in an error.
Gathered(due, s, after, time) ==
  /\ due \in Seq(Int)
  /\ \/ Len(due) > 0 /\ due[Len(due)] = Unsupported
     \/ /\ \A i \in 1 .. Len(due) : due[i] \in Instants(s) /\ after < due[i] /\ due[i] <= time
        /\ \A i, j \in 1 .. Len(due) : i < j => due[i] < due[j]
        /\ \A u \in Instants(s) : after < u /\ u <= time => \E i \in 1 .. Len(due) : due[i] = u

\* The instants of a schedule are numbers.
LEMMA InstantsAreNumbers ==
  ASSUME NEW s \in Schedules
  PROVE  Instants(s) \in SUBSET Nat
  BY ScheduleAssumption DEF Instants

\* One candidate before what was gathered after it.
LEMMA GatheredOneMore ==
  ASSUME NEW s \in Schedules, NEW time \in 0 .. MaxTime, NEW after \in 0 .. time,
         NEW c \in Instants(s), after < c, c <= time,
         \A u \in Instants(s) : u > after => c <= u,
         NEW rest, Gathered(rest, s, c, time)
  PROVE  Gathered(<<c>> \o rest, s, after, time)
  <1>1. Instants(s) \in SUBSET Nat /\ c \in Int /\ MaxTime \in Nat /\ rest \in Seq(Int)
    BY InstantsAreNumbers, ScheduleAssumption DEF Gathered
  <1>2. PICK n \in Nat : n = Len(rest)
    BY <1>1
  <1>3. PICK due : due = <<c>> \o rest
    OBVIOUS
  <1>4. /\ due \in Seq(Int) /\ Len(due) = n + 1 /\ due[1] = c
        /\ \A i \in 1 .. n : due[i + 1] = rest[i]
        /\ \A i \in 1 .. n : rest[i] \in Int
    BY <1>1, <1>2, <1>3
  <1>5. CASE n > 0 /\ rest[n] = Unsupported
    <2>1. due[n + 1] = Unsupported
      BY <1>4, <1>5
    <2> QED
      BY <1>3, <1>4, <2>1 DEF Gathered
  <1>6. CASE /\ \A i \in 1 .. n : rest[i] \in Instants(s) /\ c < rest[i] /\ rest[i] <= time
             /\ \A i, j \in 1 .. n : i < j => rest[i] < rest[j]
             /\ \A u \in Instants(s) : c < u /\ u <= time => \E i \in 1 .. n : rest[i] = u
    <2>1. \A i \in 1 .. n + 1 : i = 1 \/ (i - 1 \in 1 .. n /\ due[i] = rest[i - 1])
      <3> SUFFICES ASSUME NEW i \in 1 .. n + 1, i # 1
                   PROVE  i - 1 \in 1 .. n /\ due[i] = rest[i - 1]
        OBVIOUS
      <3>1. i - 1 \in 1 .. n /\ (i - 1) + 1 = i
        OBVIOUS
      <3> QED
        BY <1>4, <3>1
    <2>2. \A i \in 1 .. n + 1 : due[i] \in Instants(s) /\ after < due[i] /\ due[i] <= time
      <3> SUFFICES ASSUME NEW i \in 1 .. n + 1
                   PROVE  due[i] \in Instants(s) /\ after < due[i] /\ due[i] <= time
        OBVIOUS
      <3>1. CASE i = 1
        BY <1>4, <3>1
      <3>2. CASE i - 1 \in 1 .. n /\ due[i] = rest[i - 1]
        BY <1>1, <1>4, <1>6, <3>2
      <3> QED
        BY <2>1, <3>1, <3>2
    <2>3. \A i, j \in 1 .. n + 1 : i < j => due[i] < due[j]
      <3> SUFFICES ASSUME NEW i \in 1 .. n + 1, NEW j \in 1 .. n + 1, i < j
                   PROVE  due[i] < due[j]
        OBVIOUS
      <3>1. j - 1 \in 1 .. n /\ due[j] = rest[j - 1]
        BY <2>1
      <3>2. CASE i = 1
        BY <1>4, <1>6, <3>1, <3>2
      <3>3. CASE i - 1 \in 1 .. n /\ due[i] = rest[i - 1]
        BY <1>6, <3>1, <3>3
      <3> QED
        BY <2>1, <3>2, <3>3
    <2>4. ASSUME NEW u \in Instants(s), after < u, u <= time
          PROVE  \E i \in 1 .. n + 1 : due[i] = u
      <3>1. CASE u = c
        BY <1>4, <3>1
      <3>2. CASE u # c
        <4>1. c < u
          BY <1>1, <2>4, <3>2
        <4>2. PICK i \in 1 .. n : rest[i] = u
          BY <1>6, <2>4, <4>1
        <4> QED
          BY <1>4, <4>2
      <3> QED
        BY <3>1, <3>2
    <2> QED
      BY <1>3, <1>4, <2>2, <2>3, <2>4 DEF Gathered
  <1> QED
    BY <1>2, <1>5, <1>6 DEF Gathered

\* The scan gathers all of it, whatever its bound: induction on the candidates
\* that it may still look at.
LEMMA ScanGathers ==
  ASSUME NEW s \in Schedules, NEW time \in 0 .. MaxTime, NEW cursor \in 0 .. time
  PROVE  Gathered(Scan(s, cursor, time), s, cursor, time)
  <1>1. PICK h : /\ Collects(h, s, time, MaxScan)
                 /\ \A a : Scan(s, a, time) = h[MaxScan][a]
    BY ScanUnfolds
  <1>2. MaxScan \in Nat /\ MaxTime \in Nat /\ Instants(s) \in SUBSET Nat
    BY ScheduleAssumption, InstantsAreNumbers
  <1>3. \A left \in 0 .. MaxScan : h[left] = Row(h[left - 1], s, time, left)
    BY <1>1 DEF Collects
  <1> DEFINE S == {left \in 0 .. MaxScan : \E a \in 0 .. time : ~Gathered(h[left][a], s, a, time)}
  <1>4. ASSUME S # {} PROVE FALSE
    <2>1. PICK left \in S : \A k \in S : left <= k
      <3>1. S \in SUBSET Nat
        BY <1>2
      <3> HIDE DEF S
      <3> QED
        BY <1>4, <3>1, MinOfNaturals
    <2>2. PICK a \in 0 .. time : ~Gathered(h[left][a], s, a, time)
      BY <2>1
    <2>3. PICK c : c = next_run_after(s, a)
      OBVIOUS
    <2>4. a \in Int /\ a \in 0 .. MaxTime /\ left \in 0 .. MaxScan
      BY <1>2, <2>1
    <2>5. h[left][a] = IF left = 0 \/ c = Unsupported THEN <<Unsupported>>
                       ELSE IF c = NoRun \/ c > time THEN << >>
                       ELSE <<c>> \o h[left - 1][c]
      <3>1. PICK r : r = h[left - 1]
        OBVIOUS
      <3>2. h[left] = Row(r, s, time, left)
        BY <1>3, <2>4, <3>1
      <3>3. Row(r, s, time, left)[a] =
              IF left = 0 \/ c = Unsupported THEN <<Unsupported>>
              ELSE IF c = NoRun \/ c > time THEN << >> ELSE <<c>> \o r[c]
        BY <2>3, <2>4 DEF Row
      <3> QED
        BY <3>1, <3>2, <3>3
    <2>6. CASE left = 0 \/ c = Unsupported
      <3>1. h[left][a] = <<Unsupported>>
        BY <2>5, <2>6
      <3>2. Gathered(<<Unsupported>>, s, a, time)
        BY DEF Gathered, Unsupported
      <3> QED
        BY <2>2, <3>1, <3>2
    <2>7. CASE left # 0 /\ c # Unsupported
      <3> DEFINE later == {u \in Instants(s) : u > a}
      <3>1. c = IF later = {} THEN NoRun ELSE Min(later)
        BY <2>3, <2>4, <2>7, NextIsFirst
      <3>2. later # {} => c \in later /\ \A u \in later : c <= u
        <4>1. later \in SUBSET Nat
          BY <1>2
        <4> QED
          BY <3>1, <4>1, MinOfNaturals
      <3>3. CASE later = {} \/ c > time
        <4>1. h[left][a] = << >>
          BY <2>5, <2>7, <3>1, <3>3
        <4>2. \A u \in Instants(s) : ~(a < u /\ u <= time)
          BY <1>2, <2>4, <3>2, <3>3
        <4>3. Gathered(<< >>, s, a, time)
          BY <4>2 DEF Gathered
        <4> QED
          BY <2>2, <4>1, <4>3
      <3>4. CASE later # {} /\ ~(c > time)
        <4>1. c \in Instants(s) /\ a < c /\ c <= time /\ \A u \in Instants(s) : u > a => c <= u
          BY <1>2, <2>4, <3>2, <3>4
        <4>2. c \in 0 .. time /\ c # NoRun
          BY <1>2, <4>1 DEF NoRun
        <4>3. left - 1 \in 0 .. MaxScan /\ left - 1 \notin S
          BY <1>2, <2>1, <2>7
        <4>4. Gathered(h[left - 1][c], s, c, time)
          BY <4>2, <4>3
        <4>5. h[left][a] = <<c>> \o h[left - 1][c]
          BY <2>5, <2>7, <3>4, <4>2
        <4> QED
          BY <2>2, <4>1, <4>4, <4>5, GatheredOneMore
      <3> QED
        BY <3>3, <3>4
    <2> QED
      BY <2>6, <2>7
  <1>5. MaxScan \in 0 .. MaxScan
    BY <1>2
  <1> QED
    BY <1>1, <1>4, <1>5

-----------------------------------------------------------------------------
(***************************************************************************)
(* What a wakeup runs is what its policy picks of what it has missed.      *)
(***************************************************************************)

\* What a wakeup has missed, and what its policy picks of it, for any wakeup.
MissedBy(s, p, first, time) == RunsIn(s, Max({first, time - p.catch_up_window}), time)

Picks(s, p, first, time, new) ==
  CASE p.mode = "skip" ->
         new = {u \in {first} : u >= time - p.grace}
    [] p.mode = "latest" ->
         new = {u \in MissedBy(s, p, first, time) :
                  \A v \in MissedBy(s, p, first, time) : v <= u}
    [] p.mode = "catch_up" ->
         /\ new \subseteq MissedBy(s, p, first, time)
         /\ Cardinality(new) = Min({Cardinality(MissedBy(s, p, first, time)), p.max_catch_up})
         /\ \A u \in new, v \in MissedBy(s, p, first, time) \ new : u < v

\* The instants of a wakeup are in order, none of them before it was due or yet
\* to come, and the ones that the policy picks.
Proper(sel, s, p, first, time) ==
  /\ sel \in Seq(Int)
  /\ \A i \in 1 .. Len(sel) : first <= sel[i] /\ sel[i] <= time
  /\ \A i, j \in 1 .. Len(sel) : i < j => sel[i] < sel[j]
  /\ Picks(s, p, first, time, {sel[i] : i \in 1 .. Len(sel)})

\* One instant is in order.
LEMMA ProperOne ==
  ASSUME NEW s, NEW p, NEW time \in Nat, NEW first \in Nat, NEW u \in Nat,
         first <= u, u <= time, Picks(s, p, first, time, {u}),
         NEW sel \in Seq(Int), Len(sel) = 1, sel[1] = u
  PROVE  Proper(sel, s, p, first, time)
  <1>1. \A i \in 1 .. Len(sel) : i = 1
    OBVIOUS
  <1>2. 1 \in 1 .. Len(sel)
    OBVIOUS
  <1>3. {sel[i] : i \in 1 .. Len(sel)} = {u}
    <2>1. \A i \in 1 .. Len(sel) : sel[i] = u
      BY <1>1
    <2> QED
      BY <1>2, <2>1
  <1>4. /\ \A i \in 1 .. Len(sel) : first <= sel[i] /\ sel[i] <= time
        /\ \A i, j \in 1 .. Len(sel) : i < j => sel[i] < sel[j]
    BY <1>1
  <1>5. Picks(s, p, first, time, {sel[i] : i \in 1 .. Len(sel)})
    BY <1>3
  <1> QED
    BY <1>4, <1>5 DEF Proper

\* Nothing is in order.
LEMMA ProperNone ==
  ASSUME NEW s, NEW p, NEW time \in Nat, NEW first \in Nat,
         Picks(s, p, first, time, {})
  PROVE  Proper(<< >>, s, p, first, time)
  <1>1. {(<< >>)[i] : i \in 1 .. Len(<< >>)} = {}
    OBVIOUS
  <1> QED
    BY <1>1 DEF Proper

\* What the wakeup of a late interval runs is the last multiple that is due.
LEMMA LatestInterval ==
  ASSUME NEW s \in Schedules, s.kind = "interval", NEW time \in 0 .. MaxTime,
         NEW first \in Instants(s), first <= time
  PROVE  LET latest == LatestIntervalDue(s, first, time)
         IN  /\ latest \in Instants(s) /\ first <= latest /\ latest <= time
             /\ \A v \in Instants(s) : v <= time => v <= latest
  <1>1. PICK a \in Nat, e \in Nat : a = s.start_at /\ e = s.every /\ e # 0
    BY ScheduleAssumption
  <1>2. Instants(s) = {u \in a .. Horizon : (u - a) % e = 0}
    BY <1>1 DEF Instants
  <1>3. /\ Horizon \in Nat /\ MaxTime \in Nat /\ MaxTime <= Horizon
        /\ first \in Nat /\ a <= first /\ time \in Nat /\ time <= Horizon
    BY <1>1, <1>2, ScheduleAssumption
  <1>4. PICK k, r \in Nat : /\ (time - first) \div e = k /\ time - first = e * k + r /\ r < e
    <2>1. time - first \in Nat
      BY <1>3
    <2> QED
      BY <1>1, <2>1, Division
  <1>5. PICK q \in Nat : first - a = e * q
    <2>1. first - a \in Nat /\ (first - a) % e = 0
      BY <1>1, <1>2, <1>3
    <2> QED
      BY <1>1, <2>1, Divisible
  <1>6. PICK latest : latest = LatestIntervalDue(s, first, time)
    OBVIOUS
  <1>7. latest = first + e * k
    <2>1. Max({0, k}) = k
      <3>1. 0 \in Int /\ k \in Int /\ k >= 0
        OBVIOUS
      <3>2. PICK m : m = Max({0, k})
        OBVIOUS
      <3>3. m \in {0, k} /\ m >= k
        BY <3>1, <3>2, LargerOfTwo, Zenon
      <3>4. m = k
        BY <3>1, <3>3
      <3> QED
        BY <3>2, <3>4
    <2>2. latest = first + Max({0, k}) * e
      BY <1>1, <1>4, <1>6 DEF LatestIntervalDue
    <2>3. k * e = e * k
      OBVIOUS
    <2> QED
      BY <2>1, <2>2, <2>3
  <1>8. e * k \in Nat /\ e * q \in Nat
    BY ProductGrows
  <1>9. latest \in Nat /\ first <= latest /\ latest <= time /\ time < latest + e
    BY <1>3, <1>4, <1>7, <1>8
  <1>10. latest - a = e * (q + k)
    <2>1. e * (q + k) = e * q + e * k
      OBVIOUS
    <2> QED
      BY <1>3, <1>5, <1>7, <1>8, <2>1
  <1>11. latest \in Instants(s)
    <2>1. (latest - a) % e = 0
      BY <1>1, <1>10, Multiple
    <2> QED
      BY <1>2, <1>3, <1>9, <2>1
  <1>12. ASSUME NEW v \in Instants(s), v <= time, ~(v <= latest) PROVE FALSE
    <2>1. v \in Nat /\ v - a \in Nat /\ (v - a) % e = 0
      BY <1>2, <1>3
    <2>2. PICK m \in Nat : v - a = e * m
      BY <1>1, <2>1, Divisible
    <2>3. CASE m <= q + k
      <3>1. e * m <= e * (q + k)
        BY <2>3, ProductGrows
      <3> QED
        BY <1>9, <1>10, <1>12, <2>1, <2>2, <3>1
    <2>4. CASE ~(m <= q + k)
      <3>1. q + k + 1 <= m /\ q + k + 1 \in Nat
        BY <2>4
      <3>2. e * (q + k + 1) <= e * m /\ e * m \in Nat
        BY <3>1, ProductGrows
      <3>3. e * (q + k + 1) = e * (q + k) + e
        OBVIOUS
      <3>4. e * (q + k) \in Nat
        BY ProductGrows
      <3>5. latest + e <= v
        BY <1>9, <1>10, <2>1, <2>2, <3>2, <3>3, <3>4
      <3> QED
        BY <1>3, <1>9, <1>12, <2>1, <3>5
    <2> QED
      BY <2>3, <2>4
  <1> QED
    BY <1>6, <1>9, <1>11, <1>12

\* The window of a wakeup starts at `from`.
OpensAt(from, s, p, first, time) ==
  /\ from = Max({first, time - p.catch_up_window})
  /\ first <= from /\ time - p.catch_up_window <= from
  /\ from = first \/ from = time - p.catch_up_window
  /\ MissedBy(s, p, first, time) = {u \in Instants(s) : from <= u /\ u <= time}

\* Every wakeup has such a window.
LEMMA Window ==
  ASSUME NEW s \in Schedules, NEW p \in Policies, NEW time \in 0 .. MaxTime,
         NEW first \in Instants(s), first >= 1, first <= time
  PROVE  \E from \in 1 .. time : OpensAt(from, s, p, first, time)
  <1>1. first \in Nat /\ time \in Nat /\ p.catch_up_window \in Nat
    BY InstantsAreNumbers, ScheduleAssumption
  <1>2. PICK low \in Int : low = time - p.catch_up_window
    BY <1>1
  <1>3. low <= time
    BY <1>1, <1>2
  <1>4. PICK from : from = Max({first, low})
    OBVIOUS
  <1>5. from \in {first, low} /\ from \in Int /\ from >= first /\ from >= low
    <2>1. first \in Int
      BY <1>1
    <2> QED
      BY <1>2, <1>4, <2>1, LargerOfTwo, Zenon
  <1>6. from \in 1 .. time
    BY <1>1, <1>3, <1>5
  <1>7. MissedBy(s, p, first, time) = {u \in Instants(s) : from <= u /\ u <= time}
    BY <1>2, <1>4 DEF MissedBy, RunsIn
  <1> QED
    BY <1>1, <1>2, <1>4, <1>5, <1>6, <1>7 DEF OpensAt

\* The instants of `due` are what the wakeup has missed, in order.
Lists(due, s, p, first, time) ==
  /\ due \in Seq(Int)
  /\ \A i \in 1 .. Len(due) : first <= due[i] /\ due[i] <= time
  /\ \A i, j \in 1 .. Len(due) : i < j => due[i] < due[j]
  /\ MissedBy(s, p, first, time) = {due[i] : i \in 1 .. Len(due)}

\* The scan of a wakeup lists what it has missed, in order, or raises.
LEMMA DueTimesAreMissed ==
  ASSUME NEW s \in Schedules, NEW p \in Policies, NEW time \in 0 .. MaxTime,
         NEW first \in Instants(s), first >= 1, first <= time,
         NEW due, due = DueTimes(s, p, first, time),
         ~(Len(due) > 0 /\ due[Len(due)] = Unsupported)
  PROVE  Lists(due, s, p, first, time)
  <1>0. PICK from \in 1 .. time : OpensAt(from, s, p, first, time)
    BY Window
  <1>1. /\ from = Max({first, time - p.catch_up_window}) /\ first <= from
        /\ MissedBy(s, p, first, time) = {u \in Instants(s) : from <= u /\ u <= time}
    BY <1>0 DEF OpensAt
  <1>2. time \in Nat /\ from - 1 \in 0 .. time /\ Instants(s) \in SUBSET Nat /\ first \in Nat
    BY InstantsAreNumbers, ScheduleAssumption
  <1>3. due = Scan(s, from - 1, time)
    BY <1>1 DEF DueTimes
  <1>4. Gathered(due, s, from - 1, time)
    BY <1>2, <1>3, ScanGathers
  <1>5. /\ due \in Seq(Int)
        /\ \A i \in 1 .. Len(due) : due[i] \in Instants(s) /\ from - 1 < due[i] /\ due[i] <= time
        /\ \A i, j \in 1 .. Len(due) : i < j => due[i] < due[j]
        /\ \A u \in Instants(s) : from - 1 < u /\ u <= time =>
             \E i \in 1 .. Len(due) : due[i] = u
    BY <1>4 DEF Gathered
  <1>6. \A i \in 1 .. Len(due) : due[i] \in Nat /\ from <= due[i] /\ first <= due[i]
    <2> SUFFICES ASSUME NEW i \in 1 .. Len(due)
                 PROVE  due[i] \in Nat /\ from <= due[i] /\ first <= due[i]
      OBVIOUS
    <2>1. PICK u : u = due[i]
      OBVIOUS
    <2>2. u \in Nat /\ from - 1 < u
      BY <1>2, <1>5, <2>1
    <2>3. from <= u /\ first <= u
      BY <1>1, <1>2, <2>2
    <2> QED
      BY <2>1, <2>2, <2>3
  <1>7. MissedBy(s, p, first, time) = {due[i] : i \in 1 .. Len(due)}
    <2>1. \A u \in Instants(s) : from <= u <=> from - 1 < u
      BY <1>2
    <2>2. \A u \in MissedBy(s, p, first, time) : \E i \in 1 .. Len(due) : due[i] = u
      BY <1>1, <1>5, <2>1
    <2>3. \A i \in 1 .. Len(due) : due[i] \in MissedBy(s, p, first, time)
      BY <1>1, <1>5, <1>6
    <2> QED
      BY <2>2, <2>3
  <1> QED
    BY <1>5, <1>6, <1>7 DEF Lists

\* The policy that skips late instants.
LEMMA SkipIsProper ==
  ASSUME NEW s \in Schedules, NEW p \in Policies, NEW time \in 0 .. MaxTime,
         NEW first \in Instants(s), first >= 1, first <= time, p.mode = "skip"
  PROVE  Proper(Selected(s, p, first, time), s, p, first, time)
  <1>1. first \in Nat /\ time \in Nat /\ p.grace \in Nat
    BY InstantsAreNumbers, ScheduleAssumption
  <1>2. \A new : Picks(s, p, first, time, new) <=> new = {u \in {first} : u >= time - p.grace}
    BY DEF Picks
  <1>3. Selected(s, p, first, time) = IF first < time - p.grace THEN << >> ELSE <<first>>
    BY DEF Selected
  <1>4. CASE first < time - p.grace
    <2>1. {u \in {first} : u >= time - p.grace} = {}
      BY <1>1, <1>4
    <2> QED
      BY <1>1, <1>2, <1>3, <1>4, <2>1, ProperNone
  <1>5. CASE ~(first < time - p.grace)
    <2>1. {u \in {first} : u >= time - p.grace} = {first}
      BY <1>1, <1>5
    <2>2. Picks(s, p, first, time, {first})
      BY <1>2, <2>1
    <2>3. <<first>> \in Seq(Int) /\ Len(<<first>>) = 1 /\ (<<first>>)[1] = first /\ first <= first
      BY <1>1
    <2> QED
      BY <1>1, <1>3, <1>5, <2>2, <2>3, ProperOne
  <1> QED
    BY <1>4, <1>5

\* What the latest policy picks: the greatest of what was missed, if there is one.
LEMMA LatestPicks ==
  ASSUME NEW s, NEW p, p.mode = "latest", NEW first, NEW time, NEW M,
         M = MissedBy(s, p, first, time), M \in SUBSET Int
  PROVE  /\ M = {} => Picks(s, p, first, time, {})
         /\ \A u \in M : (\A v \in M : v <= u) => Picks(s, p, first, time, {u})
  <1>1. \A new : Picks(s, p, first, time, new) <=> new = {u \in M : \A v \in M : v <= u}
    BY DEF Picks
  <1>2. ASSUME NEW u \in M, \A v \in M : v <= u
        PROVE  {w \in M : \A v \in M : v <= w} = {u}
    <2>1. ASSUME NEW w \in M, \A v \in M : v <= w PROVE w = u
      BY <1>2, <2>1
    <2> QED
      BY <1>2, <2>1
  <1> QED
    BY <1>1, <1>2

\* The policy that runs the latest instant, computed for an interval.
LEMMA LatestIntervalIsProper ==
  ASSUME NEW s \in Schedules, NEW p \in Policies, NEW time \in 0 .. MaxTime,
         NEW first \in Instants(s), first >= 1, first <= time,
         p.mode = "latest", s.kind = "interval"
  PROVE  Proper(Selected(s, p, first, time), s, p, first, time)
  <1>1. /\ first \in Nat /\ time \in Nat /\ p.catch_up_window \in Nat
        /\ Instants(s) \in SUBSET Nat
    BY InstantsAreNumbers, ScheduleAssumption
  <1>2. PICK latest : latest = LatestIntervalDue(s, first, time)
    OBVIOUS
  <1>3. /\ latest \in Instants(s) /\ first <= latest /\ latest <= time
        /\ \A v \in Instants(s) : v <= time => v <= latest
    BY <1>2, LatestInterval
  <1>4. Selected(s, p, first, time) =
          IF latest >= time - p.catch_up_window THEN <<latest>> ELSE << >>
    BY <1>2 DEF Selected
  <1>0. PICK from \in 1 .. time : OpensAt(from, s, p, first, time)
    BY Window
  <1>5. /\ first <= from /\ time - p.catch_up_window <= from
        /\ from = first \/ from = time - p.catch_up_window
        /\ MissedBy(s, p, first, time) = {u \in Instants(s) : from <= u /\ u <= time}
    BY <1>0 DEF OpensAt
  <1>6. PICK M : M = MissedBy(s, p, first, time)
    OBVIOUS
  <1>7. M = {u \in Instants(s) : from <= u /\ u <= time} /\ M \in SUBSET Int
    BY <1>1, <1>5, <1>6
  <1>8. CASE latest >= time - p.catch_up_window
    <2>1. latest \in M
      BY <1>1, <1>3, <1>5, <1>7, <1>8
    <2>2. \A v \in M : v <= latest
      BY <1>3, <1>7
    <2>3. Picks(s, p, first, time, {latest})
      BY <1>6, <1>7, <2>1, <2>2, LatestPicks
    <2>4. <<latest>> \in Seq(Int) /\ Len(<<latest>>) = 1 /\ (<<latest>>)[1] = latest
      BY <1>1, <1>3
    <2> QED
      BY <1>1, <1>3, <1>4, <1>8, <2>3, <2>4, ProperOne
  <1>9. CASE ~(latest >= time - p.catch_up_window)
    <2>1. M = {}
      BY <1>1, <1>3, <1>5, <1>7, <1>9
    <2>2. Picks(s, p, first, time, {})
      BY <1>6, <1>7, <2>1, LatestPicks
    <2> QED
      BY <1>1, <1>4, <1>9, <2>2, ProperNone
  <1> QED
    BY <1>8, <1>9

\* The policy that runs the latest instant, from a scan.
LEMMA LatestScanIsProper ==
  ASSUME NEW s \in Schedules, NEW p \in Policies, NEW time \in 0 .. MaxTime,
         NEW first \in Instants(s), first >= 1, first <= time,
         p.mode = "latest", s.kind # "interval",
         Selected(s, p, first, time) # <<Unsupported>>
  PROVE  Proper(Selected(s, p, first, time), s, p, first, time)
  <1>1. first \in Nat /\ time \in Nat /\ Instants(s) \in SUBSET Nat
    BY InstantsAreNumbers, ScheduleAssumption
  <1>2. PICK due : due = DueTimes(s, p, first, time)
    OBVIOUS
  <1>3. PICK n : n = Len(due)
    OBVIOUS
  <1>4. Selected(s, p, first, time) =
          IF n > 0 /\ due[n] = Unsupported THEN <<Unsupported>>
          ELSE SubSeq(due, Max({1, n}), n)
    BY <1>2, <1>3 DEF Selected
  <1>5. ~(n > 0 /\ due[n] = Unsupported)
    BY <1>4
  <1>6. /\ due \in Seq(Int)
        /\ \A i \in 1 .. n : first <= due[i] /\ due[i] <= time
        /\ \A i, j \in 1 .. n : i < j => due[i] < due[j]
        /\ MissedBy(s, p, first, time) = {due[i] : i \in 1 .. n}
    <2>1. ~(Len(due) > 0 /\ due[Len(due)] = Unsupported)
      BY <1>3, <1>5
    <2>2. Lists(due, s, p, first, time)
      BY <1>2, <2>1, DueTimesAreMissed
    <2> QED
      BY <1>3, <2>2 DEF Lists
  <1>7. n \in Nat /\ \A i \in 1 .. n : due[i] \in Int
    BY <1>3, <1>6
  <1>8. PICK M : M = MissedBy(s, p, first, time)
    OBVIOUS
  <1>9. M = {due[i] : i \in 1 .. n} /\ M \in SUBSET Int
    BY <1>6, <1>7, <1>8
  <1>10. PICK m : m = Max({1, n})
    OBVIOUS
  <1>11. m \in {1, n} /\ m >= 1 /\ m >= n /\ m \in Int
    <2>1. 1 \in Int /\ n \in Int
      BY <1>7
    <2> QED
      BY <1>10, <2>1, LargerOfTwo, Zenon
  <1>12. Selected(s, p, first, time) = SubSeq(due, m, n)
    BY <1>4, <1>5, <1>10
  <1>13. CASE n = 0
    <2>1. SubSeq(due, m, n) = << >>
      BY <1>6, <1>11, <1>13
    <2>2. M = {}
      BY <1>9, <1>13
    <2>3. Picks(s, p, first, time, {})
      BY <1>8, <1>9, <2>2, LatestPicks
    <2> QED
      BY <1>1, <1>12, <2>1, <2>3, ProperNone
  <1>14. CASE n # 0
    <2>1. m = n /\ n \in 1 .. n
      BY <1>7, <1>11, <1>14
    <2>2. SubSeq(due, n, n) \in Seq(Int) /\ Len(SubSeq(due, n, n)) = 1 /\ SubSeq(due, n, n)[1] = due[n]
      BY <1>3, <1>6, <1>7, <2>1
    <2>3. PICK u \in Int : u = due[n]
      BY <1>7, <2>1
    <2>4. u \in M
      BY <1>9, <2>1, <2>3
    <2>5. \A v \in M : v <= u
      <3> SUFFICES ASSUME NEW i \in 1 .. n PROVE due[i] <= u
        BY <1>9
      <3>1. CASE i = n
        BY <2>3, <3>1
      <3>2. CASE i < n
        BY <1>6, <1>7, <2>1, <2>3, <3>2
      <3> QED
        BY <1>7, <3>1, <3>2
    <2>6. Picks(s, p, first, time, {u})
      BY <1>8, <1>9, <2>4, <2>5, LatestPicks
    <2>7. first <= u /\ u <= time /\ u \in Nat
      BY <1>1, <1>6, <2>1, <2>3
    <2> QED
      BY <1>1, <1>12, <2>1, <2>2, <2>3, <2>6, <2>7, ProperOne
  <1> QED
    BY <1>13, <1>14

\* The policy that catches up.
LEMMA CatchUpIsProper ==
  ASSUME NEW s \in Schedules, NEW p \in Policies, NEW time \in 0 .. MaxTime,
         NEW first \in Instants(s), first >= 1, first <= time,
         p.mode = "catch_up",
         Selected(s, p, first, time) # <<Unsupported>>
  PROVE  Proper(Selected(s, p, first, time), s, p, first, time)
  <1>1. first \in Nat /\ time \in Nat /\ p.max_catch_up \in Nat
    BY InstantsAreNumbers, ScheduleAssumption
  <1>2. PICK due : due = DueTimes(s, p, first, time)
    OBVIOUS
  <1>3. PICK n : n = Len(due)
    OBVIOUS
  <1>4. Selected(s, p, first, time) =
          IF n > 0 /\ due[n] = Unsupported THEN <<Unsupported>>
          ELSE SubSeq(due, 1, Min({n, p.max_catch_up}))
    BY <1>2, <1>3 DEF Selected
  <1>5. ~(n > 0 /\ due[n] = Unsupported)
    BY <1>4
  <1>6. /\ due \in Seq(Int)
        /\ \A i \in 1 .. n : first <= due[i] /\ due[i] <= time
        /\ \A i, j \in 1 .. n : i < j => due[i] < due[j]
        /\ MissedBy(s, p, first, time) = {due[i] : i \in 1 .. n}
    <2>1. ~(Len(due) > 0 /\ due[Len(due)] = Unsupported)
      BY <1>3, <1>5
    <2>2. Lists(due, s, p, first, time)
      BY <1>2, <2>1, DueTimesAreMissed
    <2> QED
      BY <1>3, <2>2 DEF Lists
  <1>7. n \in Nat /\ \A i \in 1 .. n : due[i] \in Int
    BY <1>3, <1>6
  <1>8. PICK k : k = Min({n, p.max_catch_up})
    OBVIOUS
  <1>9. k \in Nat /\ k <= n
    BY <1>1, <1>7, <1>8, SmallerOfTwo, Zenon
  <1>10. PICK sel : sel = SubSeq(due, 1, k)
    OBVIOUS
  <1>11. Selected(s, p, first, time) = sel
    BY <1>4, <1>5, <1>8, <1>10
  <1>12. sel \in Seq(Int) /\ Len(sel) = k /\ \A i \in 1 .. k : sel[i] = due[i] /\ i \in 1 .. n
    BY <1>3, <1>6, <1>9, <1>10
  <1>13. PICK new : new = {due[i] : i \in 1 .. k}
    OBVIOUS
  <1>14. {sel[i] : i \in 1 .. Len(sel)} = new
    BY <1>12, <1>13
  <1>15. PICK M : M = MissedBy(s, p, first, time)
    OBVIOUS
  <1>16. M = {due[i] : i \in 1 .. n}
    BY <1>6, <1>15
  <1>17. Cardinality(new) = k /\ Cardinality(M) = n
    <2>1. k \in 0 .. Len(due) /\ n \in 0 .. Len(due)
      BY <1>3, <1>7, <1>9
    <2> QED
      BY <1>3, <1>6, <1>13, <1>16, <2>1, IncreasingCounts
  <1>18. new \subseteq M
    BY <1>12, <1>13, <1>16
  <1>19. ASSUME NEW u \in new, NEW v \in M \ new PROVE u < v
    <2>1. PICK i \in 1 .. k : u = due[i]
      BY <1>13
    <2>2. PICK j \in 1 .. n : v = due[j]
      BY <1>16
    <2>3. j \notin 1 .. k
      BY <1>13, <2>2
    <2>4. i < j /\ i \in 1 .. n
      BY <1>7, <1>9, <2>3
    <2> QED
      BY <1>6, <2>1, <2>2, <2>4
  <1>20. Picks(s, p, first, time, new)
    <2>1. Picks(s, p, first, time, new) <=>
            /\ new \subseteq M
            /\ Cardinality(new) = Min({Cardinality(M), p.max_catch_up})
            /\ \A u \in new, v \in M \ new : u < v
      BY <1>15 DEF Picks
    <2>2. Cardinality(new) = Min({Cardinality(M), p.max_catch_up})
      BY <1>8, <1>17
    <2> QED
      BY <1>18, <1>19, <2>1, <2>2
  <1>21. /\ \A i \in 1 .. Len(sel) : first <= sel[i] /\ sel[i] <= time
         /\ \A i, j \in 1 .. Len(sel) : i < j => sel[i] < sel[j]
    BY <1>6, <1>12
  <1> QED
    BY <1>11, <1>12, <1>14, <1>20, <1>21 DEF Proper

\* Whatever its policy, a wakeup that does not raise runs what it should.
LEMMA SelectedIsProper ==
  ASSUME NEW s \in Schedules, NEW p \in Policies, NEW time \in 0 .. MaxTime,
         NEW first \in Instants(s), first >= 1, first <= time,
         Selected(s, p, first, time) # <<Unsupported>>
  PROVE  Proper(Selected(s, p, first, time), s, p, first, time)
  <1>1. p.mode \in {"skip", "latest", "catch_up"}
    BY ScheduleAssumption
  <1> QED
    BY <1>1, SkipIsProper, LatestIntervalIsProper, LatestScanIsProper, CatchUpIsProper

-----------------------------------------------------------------------------
(***************************************************************************)
(* The life of a task.                                                     *)
(***************************************************************************)

\* The wakeup was computed, without an error, at an instant that has passed.
ScheduleInv ==
  /\ schedule \in Schedules
  /\ now \in 0 .. MaxTime /\ last \in 0 .. MaxTime
  /\ next_run_at = next_run_after(schedule, last)
  /\ next_run_at # Unsupported

\* It holds first and is kept.
LEMMA ScheduleInvInit == Init => ScheduleInv
  BY ScheduleAssumption DEF Init, ScheduleInv

LEMMA ScheduleInvStep == ScheduleInv /\ [Next]_vars => ScheduleInv'
  <1> SUFFICES ASSUME ScheduleInv, [Next]_vars PROVE ScheduleInv'
    OBVIOUS
  <1>1. MaxTime \in Nat
    BY ScheduleAssumption
  <1>2. CASE Pass
    BY <1>1, <1>2 DEF Pass, ScheduleInv
  <1>3. CASE Materialize
    BY <1>3 DEF Materialize, Raises, ScheduleInv
  <1>4. CASE MaterializeRaises
    BY <1>4 DEF MaterializeRaises, ScheduleInv
  <1>5. CASE UNCHANGED vars
    BY <1>5 DEF vars, ScheduleInv
  <1> QED
    BY <1>2, <1>3, <1>4, <1>5 DEF Next

\* No wakeup jumps over an instant of its schedule, whatever the misfire policy,
\* the lateness of the wakeups before it, and the gaps and repetitions of its
\* local time.
THEOREM WakeupIsFirst == Spec => []NextRunIsFirst
  <1>1. ScheduleInv => NextRunIsFirst
    BY NextIsFirst DEF ScheduleInv, NextRunIsFirst
  <1> QED
    BY <1>1, ScheduleInvInit, ScheduleInvStep, PTL DEF Spec

\* What ran is in order, and none of it lies behind the last wakeup.
LifeInv ==
  /\ ScheduleInv
  /\ policy \in Policies
  /\ ran \in Seq(Int)
  /\ \A i \in 1 .. Len(ran) : ran[i] <= last
  /\ \A i, j \in 1 .. Len(ran) : i < j => ran[i] < ran[j]

\* A wakeup that is due is an instant of its schedule, after the last one.
LEMMA WakeupDue ==
  ASSUME ScheduleInv, Due
  PROVE  /\ next_run_at \in Instants(schedule) /\ next_run_at >= 1
         /\ last < next_run_at /\ next_run_at <= now
  <1>1. PICK later : later = {u \in Instants(schedule) : u > last}
    OBVIOUS
  <1>2. next_run_at = IF later = {} THEN NoRun ELSE Min(later)
    BY <1>1, NextIsFirst DEF ScheduleInv
  <1>3. Instants(schedule) \in SUBSET Nat /\ last \in Nat
    BY InstantsAreNumbers, ScheduleAssumption DEF ScheduleInv
  <1>4. later # {} /\ next_run_at = Min(later)
    BY <1>2 DEF Due
  <1>5. later \in SUBSET Nat
    BY <1>1, <1>3
  <1>6. next_run_at \in later
    BY <1>4, <1>5, MinOfNaturals
  <1> QED
    BY <1>1, <1>3, <1>6 DEF Due

\* What a wakeup that does not raise does to the life of its task.
LEMMA MaterializeRuns ==
  ASSUME LifeInv, Materialize
  PROVE  /\ PolicyRuns({ran'[i] : i \in Len(ran) + 1 .. Len(ran')})
         /\ \A i, j \in 1 .. Len(ran') : i < j => ran'[i] < ran'[j]
         /\ ran' \in Seq(Int)
         /\ \A i \in 1 .. Len(ran') : ran'[i] <= last'
  <1> DEFINE s == schedule
             p == policy
             first == next_run_at
  <1>1. PICK sel : sel = Selected(s, p, first, now)
    OBVIOUS
  <1>2. ran' = ran \o sel /\ last' = now /\ sel # <<Unsupported>>
    BY <1>1 DEF Materialize, Raises
  <1>3. /\ first \in Instants(s) /\ first >= 1 /\ last < first /\ first <= now
    BY WakeupDue DEF LifeInv, Materialize
  <1>4. /\ s \in Schedules /\ p \in Policies /\ now \in 0 .. MaxTime /\ last \in 0 .. MaxTime
        /\ MaxTime \in Nat /\ first \in Nat
    BY <1>3, InstantsAreNumbers, ScheduleAssumption DEF LifeInv, ScheduleInv
  <1>5. Proper(sel, s, p, first, now)
    BY <1>1, <1>2, <1>3, <1>4, SelectedIsProper
  <1>6. PICK n \in Nat, k \in Nat : n = Len(ran) /\ k = Len(sel)
    BY <1>5 DEF LifeInv, Proper
  <1>7. /\ ran \in Seq(Int) /\ sel \in Seq(Int)
        /\ \A i \in 1 .. n : ran[i] <= last
        /\ \A i, j \in 1 .. n : i < j => ran[i] < ran[j]
        /\ \A i \in 1 .. k : first <= sel[i] /\ sel[i] <= now
        /\ \A i, j \in 1 .. k : i < j => sel[i] < sel[j]
    BY <1>5, <1>6 DEF LifeInv, Proper
  <1>8. /\ ran' \in Seq(Int) /\ Len(ran') = n + k
        /\ \A i \in 1 .. n : ran'[i] = ran[i] /\ ran[i] \in Int
        /\ \A i \in 1 .. k : ran'[n + i] = sel[i] /\ sel[i] \in Int
    BY <1>2, <1>6, <1>7
  <1>9. \A i \in 1 .. n + k : i \in 1 .. n \/ (i - n \in 1 .. k /\ n + (i - n) = i)
    OBVIOUS
  <1>10. \A i \in 1 .. n + k :
           \/ i \in 1 .. n /\ ran'[i] = ran[i]
           \/ i - n \in 1 .. k /\ ran'[i] = sel[i - n]
    BY <1>8, <1>9
  <1>11. \A i \in 1 .. n + k : ran'[i] <= now
    <2> SUFFICES ASSUME NEW i \in 1 .. n + k PROVE ran'[i] <= now
      OBVIOUS
    <2>1. CASE i \in 1 .. n /\ ran'[i] = ran[i]
      BY <1>3, <1>4, <1>7, <1>8, <2>1
    <2>2. CASE i - n \in 1 .. k /\ ran'[i] = sel[i - n]
      BY <1>7, <2>2
    <2> QED
      BY <1>10, <2>1, <2>2
  <1>12. \A i, j \in 1 .. n + k : i < j => ran'[i] < ran'[j]
    <2> SUFFICES ASSUME NEW i \in 1 .. n + k, NEW j \in 1 .. n + k, i < j
                 PROVE  ran'[i] < ran'[j]
      OBVIOUS
    <2>1. CASE j \in 1 .. n
      <3>1. i \in 1 .. n
        BY <2>1
      <3> QED
        BY <1>7, <1>8, <2>1, <3>1
    <2>2. CASE i \in 1 .. n /\ j - n \in 1 .. k /\ ran'[j] = sel[j - n]
      <3>1. ran[i] <= last /\ first <= sel[j - n] /\ ran[i] \in Int /\ sel[j - n] \in Int
        BY <1>7, <1>8, <2>2
      <3> QED
        BY <1>3, <1>4, <1>8, <2>2, <3>1
    <2>3. CASE /\ i - n \in 1 .. k /\ ran'[i] = sel[i - n]
               /\ j - n \in 1 .. k /\ ran'[j] = sel[j - n]
      <3>1. i - n < j - n
        OBVIOUS
      <3> QED
        BY <1>7, <2>3, <3>1
    <2> QED
      BY <1>10, <2>1, <2>2, <2>3
  <1>13. PICK new : new = {sel[i] : i \in 1 .. k}
    OBVIOUS
  <1>14. {ran'[i] : i \in Len(ran) + 1 .. Len(ran')} = new
    <2>1. \A i \in n + 1 .. n + k : i - n \in 1 .. k /\ ran'[i] = sel[i - n]
      BY <1>10
    <2>2. \A i \in 1 .. k : n + i \in n + 1 .. n + k /\ ran'[n + i] = sel[i]
      BY <1>8
    <2>3. PICK R : R = {ran'[i] : i \in n + 1 .. n + k}
      OBVIOUS
    <2>4. R = new
      BY <1>13, <2>1, <2>2, <2>3
    <2> QED
      BY <1>6, <1>8, <2>3, <2>4
  <1>15. Picks(s, p, first, now, new)
    BY <1>5, <1>6, <1>13 DEF Proper
  <1>16. PolicyRuns(new)
    BY <1>15 DEF PolicyRuns, Picks, Missed, MissedBy
  <1> QED
    BY <1>2, <1>8, <1>11, <1>12, <1>14, <1>16

\* A late wakeup runs exactly what its policy picks of what it has missed, and no
\* instant runs twice or out of order, however late the wakeups are, wherever the
\* local clock jumps and whatever bounds the scan.
THEOREM LateRunsFollowPolicy == Spec => LateRuns
  <1>1. Init => LifeInv
    BY ScheduleInvInit DEF Init, LifeInv
  <1>2. LifeInv /\ [Next]_vars => LifeInv'
    <2> SUFFICES ASSUME LifeInv, [Next]_vars PROVE LifeInv'
      OBVIOUS
    <2>1. ScheduleInv'
      BY ScheduleInvStep DEF LifeInv
    <2>2. CASE Materialize
      BY <2>1, <2>2, MaterializeRuns DEF LifeInv, Materialize
    <2>3. CASE UNCHANGED <<policy, ran, last>>
      BY <2>1, <2>3 DEF LifeInv
    <2> QED
      BY <2>2, <2>3 DEF Next, Pass, MaterializeRaises, vars
  <1>3. LifeInv /\ [Next]_vars =>
          [last' # last =>
             /\ PolicyRuns({ran'[i] : i \in Len(ran) + 1 .. Len(ran')})
             /\ \A i, j \in 1 .. Len(ran') : i < j => ran'[i] < ran'[j]]_vars
    <2>1. ASSUME LifeInv, [Next]_vars, last' # last PROVE Materialize
      BY <2>1 DEF Next, Pass, MaterializeRaises, vars
    <2> QED
      BY <2>1, MaterializeRuns
  <1> QED
    BY <1>1, <1>2, <1>3, PTL DEF Spec, LateRuns

=============================================================================

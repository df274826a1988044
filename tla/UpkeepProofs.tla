--------------------------- MODULE UpkeepProofs ---------------------------
(***************************************************************************)
(* Of Upkeep, for any tasks, schedules, calendars, administrators, versions *)
(* and bounds.                                                             *)
(*                                                                         *)
(* The calendar: for days, weeks and months of any length, nextRun returns *)
(* the first instant after "from" that the schedule names (NextRunIsNearest). *)
(* Where a month begins is a recursion; the induction on sets of naturals  *)
(* that its facts need (InductionOnSets) follows from the library's fact   *)
(* that < is well founded.                                                 *)
(*                                                                         *)
(* The tasks: rows are armed for the nearest instant of their schedule, say *)
(* that they run only while they do, and have each slot served by one run of *)
(* the tick: because of what it remembers (TickedOnce), and because what is *)
(* armed is later than what was served (ServedIsPast).                     *)
(*                                                                         *)
(* The update: helpers that run one at a time never leave the machine      *)
(* without a version that starts, and none of them installs an older       *)
(* version.  The helper keeps its promises only at some of its steps;      *)
(* StepFits(step) says for each of them what is in the three directories,  *)
(* which version runs, and what was staged.  A helper that is cut short    *)
(* leaves more behind than one that is not, so the two are told apart.     *)
(***************************************************************************)
EXTENDS Upkeep, WellFoundedInduction, TLAPS

(* Induction *)

LEMMA LeastNatural ==
    ASSUME NEW T, T \subseteq Nat, T # {}
    PROVE  \E x \in T : \A y \in T : x <= y
<1> DEFINE R == OpToRel(<, Nat)
<1>1. IsWellFoundedOn(R, Nat)
  BY NatLessThanWellFounded
<1>2. \A x, y \in Nat : x < y => <<x, y>> \in R
  BY DEF OpToRel
<1> HIDE DEF R
<1>3. PICK x \in T : \A y \in T : <<y, x>> \notin R
  BY <1>1, WFMin
<1>4. \A y \in T : ~(y < x)
  BY <1>2, <1>3, Zenon
<1>5. \A y \in T : y \in Nat
  OBVIOUS
<1> QED  BY <1>4, <1>5

LEMMA InductionOnSets ==
    ASSUME NEW S, 0 \in S, \A n \in Nat : n \in S => n + 1 \in S
    PROVE  Nat \subseteq S
<1> SUFFICES ASSUME Nat \ S # {} PROVE FALSE
  OBVIOUS
<1>1. PICK x \in Nat \ S : \A y \in Nat \ S : x <= y
  BY LeastNatural
<1>2. x \in Nat /\ x # 0
  OBVIOUS
<1>3. x - 1 \in Nat /\ ~(x <= x - 1)
  BY <1>2
<1>4. x - 1 \in S
  BY <1>1, <1>3
<1>5. (x - 1) + 1 = x
  BY <1>2
<1> QED  BY <1>1, <1>3, <1>4, <1>5

-----------------------------------------------------------------------------
(* Where the months begin *)

LEMMA DaysInType == \A m \in Nat : DaysIn(m) \in Nat \ {0}
<1> SUFFICES ASSUME NEW m \in Nat PROVE DaysIn(m) \in Nat \ {0}
  OBVIOUS
<1>1. Len(MonthDays) \in Nat \ {0}
  BY CalendarAssumption
<1>2. m % Len(MonthDays) \in 0 .. Len(MonthDays) - 1
  BY <1>1
<1>3. (m % Len(MonthDays)) + 1 \in 1 .. Len(MonthDays)
  BY <1>1, <1>2
<1> QED  BY <1>3, CalendarAssumption DEF DaysIn

\* f says where the months up to the n-th begin.
BeginsUpTo(f, n) ==
    /\ f \in [0 .. n -> Nat] /\ f[0] = 0
    /\ \A m \in 1 .. n : f[m] = f[m - 1] + DaysIn(m - 1)

LEMMA BeginsExists == \A n \in Nat : \E f : BeginsUpTo(f, n)
<1> DEFINE S == {n \in Nat : \E f : BeginsUpTo(f, n)}
<1>1. 0 \in S
  <2>1. BeginsUpTo([i \in 0 .. 0 |-> 0], 0)
    BY DEF BeginsUpTo
  <2> QED  BY <2>1
<1>2. ASSUME NEW n \in Nat, n \in S PROVE n + 1 \in S
  <2>1. PICK f : BeginsUpTo(f, n)
    BY <1>2
  <2> DEFINE g == [i \in 0 .. n + 1 |-> IF i = n + 1 THEN f[n] + DaysIn(n) ELSE f[i]]
  <2>2. f[n] \in Nat /\ f[0] = 0 /\ \A i \in 0 .. n : f[i] \in Nat
    BY <2>1 DEF BeginsUpTo
  <2>3. \A m \in 1 .. n : f[m] = f[m - 1] + DaysIn(m - 1)
    BY <2>1 DEF BeginsUpTo
  <2>4. f[n] + DaysIn(n) \in Nat
    BY <2>2, DaysInType
  <2>5. g \in [0 .. n + 1 -> Nat] /\ g[0] = 0
    BY <2>2, <2>4
  <2>6. ASSUME NEW m \in 1 .. n + 1 PROVE g[m] = g[m - 1] + DaysIn(m - 1)
    <3>1. CASE m = n + 1
      <4>1. m - 1 = n
        BY <3>1
      <4> QED  BY <3>1, <4>1
    <3>2. CASE m # n + 1
      <4>1. m \in 1 .. n /\ m - 1 \in 0 .. n /\ m - 1 # n + 1
        BY <3>2
      <4> QED  BY <2>3, <4>1, <3>2
    <3> QED  BY <3>1, <3>2
  <2> HIDE DEF g
  <2>7. BeginsUpTo(g, n + 1)
    BY <2>5, <2>6 DEF BeginsUpTo
  <2> QED  BY <2>7
<1> HIDE DEF S
<1>3. Nat \subseteq S
  BY <1>1, <1>2, InductionOnSets
<1> QED  BY <1>3 DEF S

LEMMA BeginsUnique ==
    ASSUME NEW n \in Nat, NEW f, NEW g, BeginsUpTo(f, n), BeginsUpTo(g, n)
    PROVE  \A m \in 0 .. n : f[m] = g[m]
<1> DEFINE S == {m \in Nat : m <= n => f[m] = g[m]}
<1>1. 0 \in S
  BY DEF BeginsUpTo
<1>2. ASSUME NEW m \in Nat, m \in S PROVE m + 1 \in S
  BY <1>2 DEF BeginsUpTo
<1> HIDE DEF S
<1>3. Nat \subseteq S
  BY <1>1, <1>2, InductionOnSets
<1> QED  BY <1>3 DEF S

\* The recursion that defines MonthStart has a solution: the n-th value of the
\* function for n months.
LEMMA MonthStartRecursion ==
    \E G : /\ G = [m \in Nat |-> IF m = 0 THEN 0 ELSE G[m - 1] + DaysIn(m - 1)]
           /\ G \in [Nat -> Nat]
<1> DEFINE H(n) == CHOOSE f : BeginsUpTo(f, n)
           G == [n \in Nat |-> H(n)[n]]
<1>1. \A n \in Nat : BeginsUpTo(H(n), n)
  BY BeginsExists
<1> HIDE DEF H
<1>2. ASSUME NEW n \in Nat PROVE H(n + 1)[n] = H(n)[n]
  <2>1. BeginsUpTo(H(n + 1), n + 1) /\ BeginsUpTo(H(n), n)
    BY <1>1
  <2> DEFINE h == [i \in 0 .. n |-> H(n + 1)[i]]
  <2>2. BeginsUpTo(h, n)
    BY <2>1 DEF BeginsUpTo
  <2>3. h[n] = H(n)[n]
    BY <2>1, <2>2, BeginsUnique
  <2> QED  BY <2>3
<1>3. \A n \in Nat : H(n)[n] \in Nat
  BY <1>1 DEF BeginsUpTo
<1>4. H(0)[0] = 0
  BY <1>1 DEF BeginsUpTo
<1>5. ASSUME NEW n \in Nat PROVE H(n + 1)[n + 1] = H(n)[n] + DaysIn(n)
  <2>1. BeginsUpTo(H(n + 1), n + 1) /\ n + 1 \in 1 .. n + 1 /\ (n + 1) - 1 = n
    BY <1>1
  <2>2. H(n + 1)[n + 1] = H(n + 1)[n] + DaysIn(n)
    BY <2>1 DEF BeginsUpTo
  <2> QED  BY <1>2, <2>2
<1>6. ASSUME NEW m \in Nat
      PROVE  G[m] = IF m = 0 THEN 0 ELSE G[m - 1] + DaysIn(m - 1)
  <2>1. CASE m = 0
    BY <1>4, <2>1
  <2>2. CASE m # 0
    <3>1. m - 1 \in Nat /\ (m - 1) + 1 = m
      BY <2>2
    <3>2. H(m)[m] = H(m - 1)[m - 1] + DaysIn(m - 1)
      BY <1>5, <3>1
    <3> QED  BY <2>2, <3>1, <3>2
  <2> QED  BY <2>1, <2>2
<1>7. G = [m \in Nat |-> G[m]]
  OBVIOUS
<1>8. G = [m \in Nat |-> IF m = 0 THEN 0 ELSE G[m - 1] + DaysIn(m - 1)]
  BY <1>6, <1>7
<1>9. G \in [Nat -> Nat]
  BY <1>3
<1> QED  BY <1>8, <1>9

LEMMA MonthStartEquation ==
    MonthStart = [m \in Nat |-> IF m = 0 THEN 0 ELSE MonthStart[m - 1] + DaysIn(m - 1)]
BY MonthStartRecursion DEF MonthStart

\* Each month begins where the one before it ends.
LEMMA MonthStartFacts ==
    /\ MonthStart[0] = 0
    /\ \A m \in Nat : MonthStart[m] \in Nat
    /\ \A m \in Nat : MonthStart[m + 1] = MonthStart[m] + DaysIn(m)
<1>1. MonthStart[0] = 0
  BY MonthStartEquation
<1>2. ASSUME NEW m \in Nat PROVE MonthStart[m + 1] = MonthStart[m] + DaysIn(m)
  <2>1. m + 1 \in Nat /\ m + 1 # 0 /\ (m + 1) - 1 = m
    OBVIOUS
  <2> QED  BY <2>1, MonthStartEquation
<1> DEFINE S == {m \in Nat : MonthStart[m] \in Nat}
<1>3. 0 \in S
  BY <1>1
<1>4. ASSUME NEW m \in Nat, m \in S PROVE m + 1 \in S
  BY <1>2, <1>4, DaysInType
<1> HIDE DEF S
<1>5. Nat \subseteq S
  BY <1>3, <1>4, InductionOnSets
<1> QED  BY <1>1, <1>2, <1>5 DEF S

\* A later month begins no earlier than the earlier one ends.
LEMMA MonthsInOrder ==
    ASSUME NEW m \in Nat, NEW k \in Nat, m < k
    PROVE  MonthStart[m + 1] <= MonthStart[k]
<1> DEFINE S == {n \in Nat : m < n => MonthStart[m + 1] <= MonthStart[n]}
<1>1. 0 \in S
  OBVIOUS
<1>2. ASSUME NEW n \in Nat, n \in S PROVE n + 1 \in S
  <2>1. MonthStart[n] \in Nat /\ MonthStart[m + 1] \in Nat /\ DaysIn(n) \in Nat
        /\ MonthStart[n + 1] = MonthStart[n] + DaysIn(n)
    BY MonthStartFacts, DaysInType
  <2>2. CASE m = n
    BY <2>1, <2>2
  <2>3. CASE m # n
    BY <1>2, <2>1, <2>3
  <2> QED  BY <2>2, <2>3
<1> HIDE DEF S
<1>3. Nat \subseteq S
  BY <1>1, <1>2, InductionOnSets
<1> QED  BY <1>3 DEF S

LEMMA MonthsGoOn == \A m \in Nat : m <= MonthStart[m]
<1> DEFINE S == {m \in Nat : m <= MonthStart[m]}
<1>1. 0 \in S
  BY MonthStartFacts
<1>2. ASSUME NEW m \in Nat, m \in S PROVE m + 1 \in S
  <2>1. /\ m <= MonthStart[m] /\ MonthStart[m] \in Nat /\ DaysIn(m) \in Nat \ {0}
        /\ MonthStart[m + 1] = MonthStart[m] + DaysIn(m)
    BY <1>2, MonthStartFacts, DaysInType
  <2>2. m + 1 <= MonthStart[m + 1]
    BY <2>1
  <2> QED  BY <2>2
<1> HIDE DEF S
<1>3. Nat \subseteq S
  BY <1>1, <1>2, InductionOnSets
<1> QED  BY <1>3 DEF S

\* Every day is in a month, and in one only.
LEMMA MonthOfDay ==
    ASSUME NEW d \in Nat
    PROVE  /\ MonthOf(d) \in Nat
           /\ MonthStart[MonthOf(d)] <= d /\ d < MonthStart[MonthOf(d) + 1]
           /\ \A m \in Nat : MonthStart[m] <= d /\ d < MonthStart[m + 1] => m = MonthOf(d)
<1> DEFINE T == {m \in Nat : d < MonthStart[m + 1]}
<1>1. d \in T
  <2>1. d + 1 <= MonthStart[d + 1] /\ MonthStart[d + 1] \in Nat
    BY MonthsGoOn, MonthStartFacts
  <2> QED  BY <2>1
<1>2. PICK m \in T : \A y \in T : m <= y
  BY <1>1, LeastNatural
<1>3. m \in 0 .. d /\ m \in Nat
  BY <1>1, <1>2
<1>4. MonthStart[m] <= d
  <2>1. CASE m = 0
    BY <2>1, MonthStartFacts
  <2>2. CASE m # 0
    <3>1. m - 1 \in Nat /\ (m - 1) + 1 = m /\ ~(m <= m - 1)
      BY <1>3, <2>2
    <3>2. ~(d < MonthStart[m])
      BY <1>2, <3>1
    <3> QED  BY <1>3, <3>2, MonthStartFacts
  <2> QED  BY <2>1, <2>2
<1>5. d < MonthStart[m + 1]
  BY <1>2
<1>6. /\ MonthOf(d) \in 0 .. d
      /\ MonthStart[MonthOf(d)] <= d /\ d < MonthStart[MonthOf(d) + 1]
  BY <1>3, <1>4, <1>5 DEF MonthOf
<1>7. ASSUME NEW k \in Nat, MonthStart[k] <= d, d < MonthStart[k + 1] PROVE k = MonthOf(d)
  <2> DEFINE n == MonthOf(d)
  <2>1. /\ n \in Nat /\ MonthStart[n] \in Nat /\ MonthStart[n + 1] \in Nat
        /\ MonthStart[k] \in Nat /\ MonthStart[k + 1] \in Nat
        /\ MonthStart[n] <= d /\ d < MonthStart[n + 1]
    BY <1>6, MonthStartFacts
  <2> HIDE DEF n
  <2>2. n < k => MonthStart[n + 1] <= MonthStart[k]
    BY <2>1, MonthsInOrder
  <2>3. k < n => MonthStart[k + 1] <= MonthStart[n]
    BY <2>1, MonthsInOrder
  <2>4. n = k
    BY <1>7, <2>1, <2>2, <2>3
  <2> QED  BY <2>4 DEF n
<1> QED  BY <1>6, <1>7

\* The day a schedule names in a month is a day of that month.
LEMMA PlaceInMonth ==
    ASSUME NEW s \in Schedule, NEW m \in Nat
    PROVE  /\ Place(s, m) \in Nat
           /\ MonthStart[m] <= Place(s, m) /\ Place(s, m) < MonthStart[m + 1]
           /\ MonthOf(Place(s, m)) = m
<1>1. s.day \in Nat \ {0} /\ DaysIn(m) \in Nat \ {0}
  BY DaysInType DEF Schedule
<1>2. MonthStart[m] \in Nat /\ MonthStart[m + 1] = MonthStart[m] + DaysIn(m)
  BY MonthStartFacts
<1>3. /\ Place(s, m) \in Nat
      /\ MonthStart[m] <= Place(s, m) /\ Place(s, m) < MonthStart[m + 1]
  BY <1>1, <1>2 DEF Place
<1> QED  BY <1>3, MonthOfDay

-----------------------------------------------------------------------------
(* Days and minutes *)

LEMMA Division ==
    ASSUME NEW n \in Nat, NEW p \in Nat \ {0}
    PROVE  /\ n \div p \in Nat /\ n % p \in 0 .. p - 1
           /\ n = (n \div p) * p + (n % p)
OBVIOUS

LEMMA Multiples ==
    ASSUME NEW d \in Nat, NEW e \in Nat, d < e, NEW p \in Nat
    PROVE  d * p \in Nat /\ e * p \in Nat /\ d * p + p <= e * p
<1>1. PICK k \in Nat : e = d + 1 + k
  <2>1. e - d - 1 \in Nat /\ e = d + 1 + (e - d - 1)
    OBVIOUS
  <2> QED  BY <2>1
<1>2. e * p = d * p + p + k * p /\ d * p \in Nat /\ k * p \in Nat
  BY <1>1
<1>3. d * p + p + k * p \in Nat /\ p \in Nat
  BY <1>2
<1> QED  BY <1>2, <1>3

\* Quotient and remainder are the only ones.
LEMMA DivisionUnique ==
    ASSUME NEW d \in Nat, NEW p \in Nat \ {0}, NEW r \in 0 .. p - 1
    PROVE  (d * p + r) \div p = d /\ (d * p + r) % p = r
<1> DEFINE n == d * p + r
           q == n \div p
           x == n % p
<1>1. d * p \in Nat /\ n \in Nat
  OBVIOUS
<1> HIDE DEF n
<1>2. q \in Nat /\ x \in 0 .. p - 1 /\ n = q * p + x
  BY <1>1, Division
<1> HIDE DEF q, x
<1>3. d * p + r = q * p + x /\ q * p \in Nat
  BY <1>2 DEF n
<1>4. ~(q < d)
  <2> SUFFICES ASSUME q < d PROVE FALSE
    OBVIOUS
  <2>1. q * p + p <= d * p
    BY <1>2, Multiples
  <2> QED  BY <1>1, <1>2, <1>3, <2>1
<1>5. ~(d < q)
  <2> SUFFICES ASSUME d < q PROVE FALSE
    OBVIOUS
  <2>1. d * p + p <= q * p
    BY <1>2, Multiples
  <2> QED  BY <1>1, <1>2, <1>3, <2>1
<1>6. q = d
  BY <1>2, <1>4, <1>5
<1>7. x = r
  BY <1>1, <1>2, <1>3, <1>6
<1> QED  BY <1>6, <1>7 DEF n, q, x

LEMMA PerDayType == PerDay \in Nat \ {0}
BY CalendarAssumption DEF PerDay

LEMMA DayOfType == \A t \in Nat : DayOf(t) \in Nat
BY PerDayType, Division DEF DayOf

\* A minute of a day is on that day.
LEMMA AtFacts ==
    ASSUME NEW d \in Nat, NEW minute \in 0 .. DayMinutes - 1
    PROVE  At(d, minute) \in Nat /\ DayOf(At(d, minute)) = d
           /\ At(d, minute) % PerDay = 2 * minute
<1>1. 2 * minute \in 0 .. PerDay - 1
  BY CalendarAssumption DEF PerDay
<1>2. d * PerDay \in Nat
  BY PerDayType
<1> DEFINE r == 2 * minute
<1>3. d * PerDay + r \in Nat
  BY <1>1, <1>2, PerDayType
<1>4. r \in 0 .. PerDay - 1
  BY <1>1
<1> HIDE DEF r
<1>5. (d * PerDay + r) \div PerDay = d /\ (d * PerDay + r) % PerDay = r
  BY <1>4, PerDayType, DivisionUnique
<1> QED  BY <1>3, <1>5 DEF At, DayOf, r

\* Of two days the same minute comes later on the later one; and what is on an
\* earlier day is earlier.
LEMMA AtInOrder ==
    ASSUME NEW d \in Nat, NEW e \in Nat, d < e, NEW minute \in 0 .. DayMinutes - 1
    PROVE  At(d, minute) < At(e, minute)
<1>1. d * PerDay \in Nat /\ e * PerDay \in Nat /\ d * PerDay + PerDay <= e * PerDay
  BY PerDayType, Multiples
<1>2. 2 * minute \in Nat
  BY CalendarAssumption
<1> QED  BY <1>1, <1>2, PerDayType DEF At

LEMMA EarlierDay ==
    ASSUME NEW t \in Nat, NEW d \in Nat, DayOf(t) < d, NEW minute \in 0 .. DayMinutes - 1
    PROVE  t < At(d, minute)
<1>1. /\ DayOf(t) \in Nat /\ t % PerDay \in 0 .. PerDay - 1
      /\ t = DayOf(t) * PerDay + (t % PerDay)
  BY PerDayType, Division DEF DayOf
<1>2. DayOf(t) * PerDay \in Nat /\ d * PerDay \in Nat
      /\ DayOf(t) * PerDay + PerDay <= d * PerDay
  BY <1>1, PerDayType, Multiples
<1>3. 2 * minute \in Nat
  BY CalendarAssumption
<1> QED  BY <1>1, <1>2, <1>3, PerDayType DEF At

LEMMA DaysGoOn ==
    ASSUME NEW t \in Nat, NEW u \in Nat, t <= u
    PROVE  DayOf(t) <= DayOf(u)
<1>1. DayOf(t) \in Nat /\ DayOf(u) \in Nat
  BY DayOfType
<1> SUFFICES ASSUME DayOf(u) < DayOf(t) PROVE FALSE
  BY <1>1
<1>2. /\ t = DayOf(t) * PerDay + (t % PerDay) /\ t % PerDay \in 0 .. PerDay - 1
      /\ u = DayOf(u) * PerDay + (u % PerDay) /\ u % PerDay \in 0 .. PerDay - 1
  BY PerDayType, Division DEF DayOf
<1>3. DayOf(t) * PerDay \in Nat /\ DayOf(u) * PerDay \in Nat
      /\ DayOf(u) * PerDay + PerDay <= DayOf(t) * PerDay
  BY <1>1, PerDayType, Multiples
<1> QED  BY <1>2, <1>3, PerDayType

LEMMA PastDay ==
    ASSUME NEW from \in Nat, NEW d \in Nat, d < DayOf(from),
           NEW minute \in 0 .. DayMinutes - 1
    PROVE  At(d, minute) <= from
<1>1. At(d, minute) \in Nat /\ DayOf(At(d, minute)) = d
  BY AtFacts
<1>2. ~(from <= At(d, minute))
  BY <1>1, DaysGoOn, DayOfType
<1> QED  BY <1>1, <1>2

-----------------------------------------------------------------------------
(* The days a schedule names *)

Named(s, d) ==
    /\ s.frequency = "weekly"  => d % WeekDays = s.weekday
    /\ s.frequency = "monthly" => d = Place(s, MonthOf(d))

\* A slot is the schedule's minute of a day it names.
LEMMA SlotIsNamed ==
    ASSUME NEW s \in Schedule, NEW t \in Nat
    PROVE  IsSlot(s, t) <=> t = At(DayOf(t), s.minute) /\ Named(s, DayOf(t))
<1> DEFINE d == DayOf(t)
           m == MonthOf(d)
<1>1. d \in Nat /\ s.minute \in 0 .. DayMinutes - 1 /\ s.day \in Nat \ {0}
  BY DayOfType DEF Schedule
<1>2. t % PerDay = 2 * s.minute <=> t = At(d, s.minute)
  <2>1. t = d * PerDay + (t % PerDay) /\ t % PerDay \in 0 .. PerDay - 1
    BY PerDayType, Division DEF DayOf
  <2> DEFINE r == t % PerDay
  <2> HIDE DEF d, r
  <2>2. r \in Nat /\ d * PerDay \in Nat /\ 2 * s.minute \in Nat
    BY <1>1, <2>1, PerDayType, CalendarAssumption DEF r
  <2> QED  BY <2>1, <2>2 DEF At, r
<1>3. /\ m \in Nat /\ MonthStart[m] \in Nat /\ DaysIn(m) \in Nat \ {0}
      /\ MonthStart[m] <= d /\ d < MonthStart[m] + DaysIn(m)
  BY <1>1, MonthOfDay, MonthStartFacts, DaysInType
<1>4. d = Place(s, m) <=>
        \/ d - MonthStart[m] + 1 = s.day
        \/ d - MonthStart[m] + 1 = DaysIn(m) /\ s.day > d - MonthStart[m] + 1
  <2> HIDE DEF d, m
  <2> QED  BY <1>1, <1>3 DEF Place
<1> QED  BY <1>2, <1>4 DEF IsSlot, Named

\* The day next comes is the first that is named and not past.
ComesFirst(s, from, day) ==
    /\ day \in Nat /\ Named(s, day) /\ At(day, s.minute) > from
    /\ \A d \in Nat : Named(s, d) /\ d < day => At(d, s.minute) <= from

LEMMA DailyFirst ==
    ASSUME NEW s \in Schedule, s.frequency = "daily", NEW from \in Nat
    PROVE  \E day : NextRun(s, from) = At(day, s.minute) /\ ComesFirst(s, from, day)
<1> DEFINE today == DayOf(from)
           day == IF At(today, s.minute) <= from THEN today + 1 ELSE today
<1>1. today \in Nat /\ s.minute \in 0 .. DayMinutes - 1 /\ day \in Nat
  BY DayOfType DEF Schedule
<1>2. NextRun(s, from) = At(day, s.minute)
  BY DEF NextRun
<1>3. At(day, s.minute) > from
  <2>1. At(today + 1, s.minute) > from /\ At(today + 1, s.minute) \in Nat
    BY <1>1, EarlierDay, AtFacts
  <2>2. At(today, s.minute) \in Nat
    BY <1>1, AtFacts
  <2> QED  BY <2>1, <2>2
<1>4. ASSUME NEW d \in Nat, d < day PROVE At(d, s.minute) <= from
  <2>1. CASE d < today
    BY <1>1, <2>1, PastDay
  <2>2. CASE d = today
    BY <1>1, <1>4, <2>2
  <2> QED  BY <1>1, <1>4, <2>1, <2>2
<1>5. Named(s, day)
  BY DEF Named
<1> QED  BY <1>1, <1>2, <1>3, <1>4, <1>5 DEF ComesFirst

\* How far a weekday is ahead.
LEMMA Ahead ==
    ASSUME NEW t \in Nat, NEW w \in Nat \ {0}, NEW v \in 0 .. w - 1
    PROVE  LET ahead == (v + w - (t % w)) % w
           IN  /\ ahead \in 0 .. w - 1
               /\ \A k \in 0 .. w - 1 : (t + k) % w = v <=> k = ahead
<1> DEFINE r == t % w
           q == t \div w
           ahead == (v + w - r) % w
<1>1. q \in Nat /\ r \in 0 .. w - 1 /\ t = q * w + r
  BY Division
<1> HIDE DEF r, q
<1>2. q * w \in Nat /\ (q + 1) * w = q * w + w
  BY <1>1
<1>3. ahead = IF v >= r THEN v - r ELSE v + w - r
  <2>1. CASE v >= r
    <3>1. v - r \in 0 .. w - 1 /\ v + w - r = 1 * w + (v - r)
      BY <1>1, <2>1
    <3>2. (1 * w + (v - r)) % w = v - r
      BY <3>1, DivisionUnique
    <3> QED  BY <2>1, <3>1, <3>2
  <2>2. CASE ~(v >= r)
    <3>1. v + w - r \in 0 .. w - 1 /\ v + w - r = 0 * w + (v + w - r)
      BY <1>1, <2>2
    <3>2. (0 * w + (v + w - r)) % w = v + w - r
      BY <3>1, DivisionUnique
    <3> QED  BY <2>2, <3>1, <3>2
  <2> QED  BY <2>1, <2>2
<1>4. ASSUME NEW k \in 0 .. w - 1
      PROVE  (t + k) % w = IF r + k < w THEN r + k ELSE r + k - w
  <2>1. CASE r + k < w
    <3>1. r + k \in 0 .. w - 1 /\ t + k = q * w + (r + k)
      BY <1>1, <1>2, <2>1
    <3>2. (q * w + (r + k)) % w = r + k
      BY <1>1, <3>1, DivisionUnique
    <3> QED  BY <2>1, <3>1, <3>2
  <2>2. CASE ~(r + k < w)
    <3>1. r + k - w \in 0 .. w - 1 /\ t + k = (q + 1) * w + (r + k - w) /\ q + 1 \in Nat
      BY <1>1, <1>2, <2>2
    <3>2. ((q + 1) * w + (r + k - w)) % w = r + k - w
      BY <3>1, DivisionUnique
    <3> QED  BY <2>2, <3>1, <3>2
  <2> QED  BY <2>1, <2>2
<1>5. ahead \in 0 .. w - 1
  BY <1>1, <1>3
<1>6. ASSUME NEW k \in 0 .. w - 1 PROVE (t + k) % w = v <=> k = ahead
  <2> DEFINE z == (t + k) % w
  <2>1. z = IF r + k < w THEN r + k ELSE r + k - w
    BY <1>4
  <2> HIDE DEF ahead, z
  <2>2. z = v <=> k = ahead
    BY <1>1, <1>3, <2>1
  <2> QED  BY <2>2 DEF z
<1> QED  BY <1>5, <1>6 DEF r

LEMMA WeeklyFirst ==
    ASSUME NEW s \in Schedule, s.frequency = "weekly", NEW from \in Nat
    PROVE  \E day : NextRun(s, from) = At(day, s.minute) /\ ComesFirst(s, from, day)
<1> DEFINE today == DayOf(from)
           ahead == (s.weekday + WeekDays - (today % WeekDays)) % WeekDays
           over == ahead = 0 /\ At(today, s.minute) <= from
           day == IF over THEN today + WeekDays ELSE today + ahead
<1>1. /\ today \in Nat /\ s.minute \in 0 .. DayMinutes - 1
      /\ WeekDays \in Nat \ {0} /\ s.weekday \in 0 .. WeekDays - 1
  BY DayOfType, CalendarAssumption DEF Schedule
<1>2. /\ ahead \in 0 .. WeekDays - 1
      /\ \A k \in 0 .. WeekDays - 1 : (today + k) % WeekDays = s.weekday <=> k = ahead
  <2> HIDE DEF today
  <2> QED  BY <1>1, Ahead
<1>3. NextRun(s, from) = At(day, s.minute)
  BY DEF NextRun
<1> HIDE DEF today, ahead
<1>4. At(today, s.minute) \in Nat /\ day \in Nat
  BY <1>1, <1>2, AtFacts
<1>5. \A d \in Nat : today < d => At(d, s.minute) > from
  BY <1>1, EarlierDay DEF today
<1>6. At(day, s.minute) > from
  <2>1. CASE day = today
    <3>1. ahead = 0 /\ ~over
      BY <1>1, <1>2, <2>1
    <3> QED  BY <1>4, <2>1, <3>1
  <2>2. CASE day # today
    <3>1. today < day
      BY <1>1, <1>2, <2>2
    <3> QED  BY <1>4, <1>5, <3>1
  <2> QED  BY <2>1, <2>2
<1>7. day % WeekDays = s.weekday
  <2>1. CASE over
    <3>1. (today + 0) % WeekDays = s.weekday /\ today + 0 = today
      <4>1. 0 \in 0 .. WeekDays - 1 /\ ahead = 0
        BY <1>1, <2>1
      <4>2. (today + 0) % WeekDays = s.weekday
        BY <1>2, <4>1
      <4> QED  BY <1>1, <4>2
    <3>2. /\ today = (today \div WeekDays) * WeekDays + (today % WeekDays)
          /\ today \div WeekDays \in Nat /\ today % WeekDays \in 0 .. WeekDays - 1
      BY <1>1, Division
    <3> DEFINE q == today \div WeekDays
               r == today % WeekDays
    <3> HIDE DEF q, r
    <3>3. today + WeekDays = (q + 1) * WeekDays + r /\ q + 1 \in Nat
      BY <1>1, <3>2 DEF q, r
    <3>4. ((q + 1) * WeekDays + r) % WeekDays = r
      BY <1>1, <3>2, <3>3, DivisionUnique DEF q, r
    <3> QED  BY <2>1, <3>1, <3>3, <3>4 DEF r
  <2>2. CASE ~over
    BY <1>2, <2>2
  <2> QED  BY <2>1, <2>2
<1>8. ASSUME NEW d \in Nat, Named(s, d), d < day PROVE At(d, s.minute) <= from
  <2>1. CASE d < today
    BY <1>1, <2>1, PastDay DEF today
  <2>2. CASE ~(d < today)
    <3>1. d - today \in 0 .. WeekDays - 1 /\ today + (d - today) = d
      BY <1>1, <1>2, <1>8, <2>2
    <3>2. d % WeekDays = s.weekday
      BY <1>8 DEF Named
    <3>3. d - today = ahead
      BY <1>2, <3>1, <3>2
    <3>4. over
      BY <1>1, <1>2, <1>8, <3>3
    <3> QED  BY <1>1, <3>1, <3>3, <3>4
  <2> QED  BY <2>1, <2>2
<1>9. Named(s, day)
  BY <1>7 DEF Named
<1> QED  BY <1>3, <1>4, <1>6, <1>8, <1>9 DEF ComesFirst

LEMMA MonthlyFirst ==
    ASSUME NEW s \in Schedule, s.frequency = "monthly", NEW from \in Nat
    PROVE  \E day : NextRun(s, from) = At(day, s.minute) /\ ComesFirst(s, from, day)
<1> DEFINE today == DayOf(from)
           month == MonthOf(today)
           over == At(Place(s, month), s.minute) <= from
           day == IF over THEN Place(s, month + 1) ELSE Place(s, month)
<1>1. today \in Nat /\ s.minute \in 0 .. DayMinutes - 1
  BY DayOfType DEF Schedule
<1>2. /\ month \in Nat /\ MonthStart[month] <= today /\ today < MonthStart[month + 1]
      /\ MonthStart[month + 1] \in Nat
  <2> HIDE DEF today
  <2> QED  BY <1>1, MonthOfDay, MonthStartFacts
<1>3. NextRun(s, from) = At(day, s.minute)
  BY DEF NextRun
<1> HIDE DEF month, today
<1>4. /\ Place(s, month) \in Nat /\ MonthOf(Place(s, month)) = month
      /\ Place(s, month) < MonthStart[month + 1]
  BY <1>2, PlaceInMonth
<1>5. /\ Place(s, month + 1) \in Nat /\ MonthOf(Place(s, month + 1)) = month + 1
      /\ MonthStart[month + 1] <= Place(s, month + 1)
      /\ Place(s, month + 1) < MonthStart[month + 2]
  <2>1. month + 1 \in Nat /\ (month + 1) + 1 = month + 2
    BY <1>2
  <2> QED  BY <2>1, PlaceInMonth
<1>6. At(day, s.minute) > from
  <2>1. CASE over
    <3>1. today < Place(s, month + 1)
      BY <1>1, <1>2, <1>5
    <3> QED  BY <1>1, <1>5, <2>1, <3>1, EarlierDay, AtFacts DEF today
  <2>2. CASE ~over
    BY <1>1, <1>4, <2>2, AtFacts
  <2> QED  BY <2>1, <2>2
<1>7. Named(s, day)
  BY <1>4, <1>5 DEF Named
<1>8. ASSUME NEW d \in Nat, Named(s, d), d < day PROVE At(d, s.minute) <= from
  <2> DEFINE m == MonthOf(d)
  <2>1. d = Place(s, m)
    BY <1>8 DEF Named
  <2>2. /\ m \in Nat /\ MonthStart[m] <= d /\ d < MonthStart[m + 1]
        /\ MonthStart[m] \in Nat /\ MonthStart[m + 1] \in Nat
    <3>1. /\ m \in Nat /\ MonthStart[m] <= d /\ d < MonthStart[m + 1]
      BY MonthOfDay
    <3> HIDE DEF m
    <3> QED  BY <3>1, MonthStartFacts
  <2> HIDE DEF m
  <2>3. CASE m < month
    <3>1. MonthStart[m + 1] <= MonthStart[month] /\ MonthStart[month] \in Nat
      BY <1>2, <2>2, <2>3, MonthsInOrder, MonthStartFacts
    <3>2. d < today
      BY <1>1, <1>2, <2>2, <3>1
    <3> QED  BY <1>1, <3>2, PastDay DEF today
  <2>4. CASE m = month
    <3>1. over
      BY <1>8, <2>1, <2>4
    <3> QED  BY <2>1, <2>4, <3>1
  <2>5. CASE m = month + 1
    <3>1. d = Place(s, month + 1) /\ MonthStart[month + 1] <= d
      BY <2>1, <2>2, <2>5
    <3> QED  BY <1>2, <1>4, <1>5, <1>8, <3>1
  <2>6. CASE month + 1 < m
    <3>1. month + 1 \in Nat /\ (month + 1) + 1 = month + 2
      BY <1>2
    <3>2. MonthStart[month + 2] <= MonthStart[m] /\ MonthStart[month + 2] \in Nat
      BY <2>2, <2>6, <3>1, MonthsInOrder, MonthStartFacts
    <3>3. Place(s, month + 1) < d
      BY <1>5, <2>2, <3>2
    <3>4. Place(s, month) < d
      BY <1>2, <1>4, <1>5, <3>3
    <3> QED  BY <1>4, <1>5, <1>8, <3>3, <3>4
  <2> QED  BY <1>2, <2>2, <2>3, <2>4, <2>5, <2>6
<1>9. day \in Nat
  BY <1>4, <1>5
<1> QED  BY <1>3, <1>6, <1>7, <1>8, <1>9 DEF ComesFirst

\* nextRun (db/system-tasks.ts) returns an instant after "from" that the schedule
\* names, and there is none between: for every schedule, instant and calendar.
THEOREM NextRunIsNearest ==
    ASSUME NEW s \in Schedule, NEW from \in Nat
    PROVE  /\ NextRun(s, from) \in Nat /\ NextRun(s, from) > from
           /\ IsSlot(s, NextRun(s, from))
           /\ \A x \in from + 1 .. NextRun(s, from) - 1 : ~IsSlot(s, x)
<1>1. s.frequency \in {"daily", "weekly", "monthly"} /\ s.minute \in 0 .. DayMinutes - 1
  BY DEF Schedule
<1>2. PICK day : NextRun(s, from) = At(day, s.minute) /\ ComesFirst(s, from, day)
  BY <1>1, DailyFirst, WeeklyFirst, MonthlyFirst
<1> DEFINE n == NextRun(s, from)
<1>3. /\ day \in Nat /\ Named(s, day) /\ n > from
      /\ \A d \in Nat : Named(s, d) /\ d < day => At(d, s.minute) <= from
  BY <1>2 DEF ComesFirst
<1>4. n = At(day, s.minute) /\ n \in Nat /\ DayOf(n) = day
  BY <1>1, <1>2, <1>3, AtFacts
<1> HIDE DEF n
<1>5. IsSlot(s, n)
  BY <1>3, <1>4, SlotIsNamed
<1>6. ASSUME NEW x \in from + 1 .. n - 1, IsSlot(s, x) PROVE FALSE
  <2>1. x \in Nat /\ from < x /\ x < n
    BY <1>4, <1>6
  <2> DEFINE d == DayOf(x)
  <2>2. d \in Nat /\ x = At(d, s.minute) /\ Named(s, d)
    BY <1>6, <2>1, DayOfType, SlotIsNamed
  <2> HIDE DEF d
  <2>3. ~(d < day)
    BY <1>3, <2>1, <2>2
  <2>4. ~(day < d)
    BY <1>1, <1>3, <1>4, <2>1, <2>2, AtInOrder
  <2>5. d = day
    BY <1>3, <2>2, <2>3, <2>4
  <2> QED  BY <1>4, <2>1, <2>2, <2>5
<1> QED  BY <1>3, <1>4, <1>5, <1>6 DEF n

-----------------------------------------------------------------------------
(* The rows of the tasks *)

\* The tick has at most one run of a task in flight, and knows which.
TickedOnce == \A t \in Tasks : ticked[t] = 0 \/ (ticked[t] = 1 /\ t \in running)

ServedIsPast ==
    \A t \in Tasks : served[t] <= now /\ (Lives(t) => row[t].next > served[t])

IInv == RunningIsReal /\ ArmedForNearest /\ TickedOnce /\ ServedIsPast

\* What holds of a single task.
Fits(t) ==
    /\ row[t] \in {Unborn, Deleted} \/ row[t] \in Row
    /\ (Lives(t) /\ row[t].last = "running") => ticked[t] + asked[t] > 0
    /\ (Lives(t) /\ row[t].next > now) =>
          /\ IsSlot(row[t].schedule, row[t].next)
          /\ \A x \in now + 1 .. row[t].next - 1 : ~IsSlot(row[t].schedule, x)
    /\ ticked[t] \in Nat /\ asked[t] \in 0 .. MaxAsked /\ served[t] \in 0 .. MaxTime
    /\ ticked[t] = 0 \/ (ticked[t] = 1 /\ t \in running)
    /\ served[t] <= now /\ (Lives(t) => row[t].next > served[t])

\* The shape of the tables, and the clock.
Shape ==
    /\ now \in 0 .. MaxTime
    /\ DOMAIN row = Tasks
    /\ ticked \in [Tasks -> Nat] /\ asked \in [Tasks -> 0 .. MaxAsked]
    /\ served \in [Tasks -> 0 .. MaxTime]
    /\ running \subseteq Tasks
    /\ edits \in 0 .. MaxEdits /\ stops \in 0 .. MaxStops

-----------------------------------------------------------------------------
LEMMA TaskByTask == IInv <=> Shape /\ \A t \in Tasks : Fits(t)
BY DEF IInv, Shape, Fits, RunningIsReal, TypeOK, ArmedForNearest, TickedOnce,
       ServedIsPast

LEMMA InitFits == Init => Shape /\ \A t \in Tasks : Fits(t)
BY TasksAssumption DEF Init, Shape, Fits, Lives

\* Whoever arms a row does so for the nearest instant.
LEMMA ArmedNow ==
    ASSUME Shape, NEW s \in Schedules
    PROVE  /\ NextRun(s, now) \in Nat /\ NextRun(s, now) > now
           /\ IsSlot(s, NextRun(s, now))
           /\ \A x \in now + 1 .. NextRun(s, now) - 1 : ~IsSlot(s, x)
<1>1. now \in Nat /\ s \in Schedule
  BY TasksAssumption DEF Shape
<1> QED  BY <1>1, NextRunIsNearest

\* What a step leaves alone of a task.
LEMMA Untouched ==
    ASSUME NEW t \in Tasks, Fits(t), row'[t] = row[t], asked'[t] = asked[t],
           ticked'[t] = ticked[t], served'[t] = served[t],
           t \in running => t \in running', now' = now
    PROVE  Fits(t)'
BY DEF Fits, Lives

LEMMA LiveRow ==
    ASSUME NEW t \in Tasks, Fits(t), Lives(t)
    PROVE  row[t] \in Row /\ row[t].schedule \in Schedules /\ row[t].next \in Nat
BY DEF Fits, Lives, Row

\* A routes' step is about one row, and no run of the tick.
LEMMA RowKeeps ==
    ASSUME Shape, \A u \in Tasks : Fits(u), NEW t \in Tasks, NEW r,
           row' = [row EXCEPT ![t] = r], UNCHANGED <<now, running, ticked, served>>,
           asked' \in [Tasks -> 0 .. MaxAsked],
           \A u \in Tasks \ {t} : asked'[u] = asked[u],
           edits' \in 0 .. MaxEdits, stops' \in 0 .. MaxStops,
           \/ r = Deleted
           \/ /\ r \in Row
              /\ r.last = "running" => ticked[t] + asked'[t] > 0
              /\ \/ r.next = NextRun(r.schedule, now)
                 \/ Lives(t) /\ r.next = row[t].next /\ r.schedule = row[t].schedule
    PROVE  Shape' /\ \A u \in Tasks : Fits(u)'
<1>1. Shape'
  BY DEF Shape
<1>2. ASSUME NEW u \in Tasks, u # t PROVE Fits(u)'
  BY <1>2, Untouched DEF Shape
<1>3. row'[t] = r
  BY DEF Shape
<1>4. CASE r = Deleted
  BY <1>3, <1>4 DEF Fits, Lives, Shape
<1>5. CASE /\ r \in Row
           /\ r.last = "running" => ticked[t] + asked'[t] > 0
           /\ r.next = NextRun(r.schedule, now)
  <2>1. r.schedule \in Schedules
    BY <1>5 DEF Row
  <2>2. /\ r.next \in Nat /\ r.next > now /\ IsSlot(r.schedule, r.next)
        /\ \A x \in now + 1 .. r.next - 1 : ~IsSlot(r.schedule, x)
    BY <1>5, <2>1, ArmedNow
  <2>3. served[t] <= now /\ served[t] \in Nat /\ now \in Nat
    BY DEF Fits, Shape
  <2>4. r.next > served[t]
    BY <2>2, <2>3
  <2> QED  BY <1>3, <1>5, <2>2, <2>4 DEF Fits, Lives, Shape
<1>6. CASE /\ r \in Row
           /\ r.last = "running" => ticked[t] + asked'[t] > 0
           /\ Lives(t) /\ r.next = row[t].next /\ r.schedule = row[t].schedule
  BY <1>3, <1>6 DEF Fits, Lives, Shape
<1>7. Fits(t)'
  BY <1>4, <1>5, <1>6
<1> QED  BY <1>1, <1>2, <1>7

LEMMA RouteKeeps ==
    ASSUME Shape, \A u \in Tasks : Fits(u), NEW t \in Tasks,
           \/ \E enabled \in BOOLEAN, schedule \in Schedules :
                 \/ CreateSystemTask(t, enabled, schedule)
                 \/ UpdateSystemTask(t, enabled, schedule)
           \/ DeleteSystemTask(t) \/ RunNow(t)
    PROVE  Shape' /\ \A u \in Tasks : Fits(u)'
<1>1. Fits(t)
  OBVIOUS
<1>2. ASSUME Edit, UNCHANGED <<now, work, stops>>
      PROVE  /\ UNCHANGED <<now, running, ticked, served>>
             /\ asked' \in [Tasks -> 0 .. MaxAsked] /\ asked'[t] = asked[t]
             /\ \A u \in Tasks \ {t} : asked'[u] = asked[u]
             /\ edits' \in 0 .. MaxEdits /\ stops' \in 0 .. MaxStops
  BY <1>2, TasksAssumption DEF Edit, work, Shape
<1>3. ASSUME NEW enabled \in BOOLEAN, NEW schedule \in Schedules,
             CreateSystemTask(t, enabled, schedule)
      PROVE  Shape' /\ \A u \in Tasks : Fits(u)'
  <2> DEFINE r == [enabled |-> enabled, schedule |-> schedule,
                   next |-> NextRun(schedule, now), last |-> "never"]
  <2>1. r \in Row
    BY ArmedNow DEF Row
  <2>2. row' = [row EXCEPT ![t] = r] /\ UNCHANGED <<now, work, stops>> /\ Edit
    BY <1>3 DEF CreateSystemTask
  <2>3. r.next = NextRun(r.schedule, now) /\ r.last # "running"
    OBVIOUS
  <2> HIDE DEF r
  <2> QED  BY <1>2, <2>1, <2>2, <2>3, RowKeeps
<1>4. ASSUME NEW enabled \in BOOLEAN, NEW schedule \in Schedules,
             UpdateSystemTask(t, enabled, schedule)
      PROVE  Shape' /\ \A u \in Tasks : Fits(u)'
  <2> DEFINE reArm == schedule # row[t].schedule \/ (enabled /\ ~row[t].enabled)
             r == [row[t] EXCEPT !.enabled = enabled, !.schedule = schedule,
                      !.next = IF reArm THEN NextRun(schedule, now) ELSE @]
  <2>1. Lives(t) /\ Edit /\ UNCHANGED <<now, work, stops>>
    BY <1>4 DEF UpdateSystemTask
  <2>2. row[t] \in Row
    BY <1>1, <2>1, LiveRow
  <2>3. row' = [row EXCEPT ![t] = r]
    BY <1>4, <2>2 DEF UpdateSystemTask, Shape, Row
  <2>4. r \in Row /\ r.schedule = schedule /\ r.last = row[t].last
    BY <2>2, ArmedNow DEF Row
  <2>5. r.next = IF reArm THEN NextRun(schedule, now) ELSE row[t].next
    BY <2>2 DEF Row
  <2>6. \/ r.next = NextRun(r.schedule, now)
        \/ r.next = row[t].next /\ r.schedule = row[t].schedule
    BY <2>4, <2>5
  <2>7. r.last = "running" => ticked[t] + asked[t] > 0
    BY <1>1, <2>1, <2>4 DEF Fits
  <2> HIDE DEF r
  <2>8. /\ UNCHANGED <<now, running, ticked, served>>
        /\ asked' \in [Tasks -> 0 .. MaxAsked] /\ asked'[t] = asked[t]
        /\ \A u \in Tasks \ {t} : asked'[u] = asked[u]
        /\ edits' \in 0 .. MaxEdits /\ stops' \in 0 .. MaxStops
    BY <1>2, <2>1
  <2> QED  BY <2>1, <2>3, <2>4, <2>6, <2>7, <2>8, RowKeeps
<1>5. CASE DeleteSystemTask(t)
  <2>1. row' = [row EXCEPT ![t] = Deleted] /\ Edit /\ UNCHANGED <<now, work, stops>>
    BY <1>5 DEF DeleteSystemTask
  <2>2. /\ UNCHANGED <<now, running, ticked, served>>
        /\ asked' \in [Tasks -> 0 .. MaxAsked]
        /\ \A u \in Tasks \ {t} : asked'[u] = asked[u]
        /\ edits' \in 0 .. MaxEdits /\ stops' \in 0 .. MaxStops
    BY <1>2, <2>1
  <2> QED  BY <2>1, <2>2, RowKeeps
<1>6. CASE RunNow(t)
  <2> DEFINE r == Started(row[t])
  <2>1. /\ Lives(t) /\ row' = [row EXCEPT ![t] = r]
        /\ asked' = [asked EXCEPT ![t] = asked[t] + 1] /\ asked[t] < MaxAsked
        /\ UNCHANGED <<now, running, ticked, served, edits, stops>>
    BY <1>6 DEF RunNow
  <2>2. row[t] \in Row /\ row[t].schedule \in Schedules
    BY <1>1, <2>1, LiveRow
  <2>3. r \in Row /\ r.next = NextRun(r.schedule, now)
    BY <2>2, ArmedNow DEF Started, Row
  <2>4. /\ asked' \in [Tasks -> 0 .. MaxAsked] /\ asked'[t] = asked[t] + 1
        /\ \A u \in Tasks \ {t} : asked'[u] = asked[u]
    BY <2>1, TasksAssumption DEF Shape
  <2>5. ticked[t] + asked'[t] > 0
    BY <1>1, <2>4 DEF Fits
  <2> HIDE DEF r
  <2> QED  BY <2>1, <2>3, <2>4, <2>5, RowKeeps DEF Shape
<1> QED  BY <1>3, <1>4, <1>5, <1>6

LEMMA TickKeeps ==
    ASSUME Shape, \A u \in Tasks : Fits(u), Tick
    PROVE  /\ Shape' /\ \A u \in Tasks : Fits(u)'
           /\ \A u \in Tasks : ticked'[u] > ticked[u] =>
                 ticked[u] = 0 /\ served'[u] > served[u] /\ row'[u].next > now
<1>1. ASSUME NEW t \in Tasks, t \in ToStart
      PROVE  /\ row[t] \in Row /\ row[t].schedule \in Schedules /\ t \notin running
             /\ row'[t] = Started(row[t]) /\ ticked'[t] = ticked[t] + 1
             /\ served'[t] = row[t].next /\ row[t].next <= now /\ row[t].next \in Nat
             /\ row[t].next > served[t] /\ ticked[t] = 0
  <2>1. Lives(t) /\ row[t].next <= now /\ t \notin running
    BY <1>1 DEF ToStart, Due
  <2>2. row[t] \in Row /\ row[t].schedule \in Schedules /\ row[t].next \in Nat
    BY <2>1, LiveRow
  <2> QED  BY <1>1, <2>1, <2>2 DEF Tick, Fits
<1>2. ASSUME NEW t \in Tasks, t \notin ToStart PROVE Fits(t)' /\ ticked'[t] = ticked[t]
  <2>1. /\ row'[t] = row[t] /\ asked'[t] = asked[t] /\ ticked'[t] = ticked[t]
        /\ served'[t] = served[t] /\ now' = now /\ running \subseteq running'
    BY <1>2 DEF Tick
  <2> QED  BY <2>1, Untouched
<1>3. ASSUME NEW t \in Tasks, t \in ToStart
      PROVE  /\ Fits(t)'
             /\ ticked[t] = 0 /\ served'[t] > served[t] /\ row'[t].next > now
  <2> DEFINE r == Started(row[t])
  <2>1. /\ r \in Row /\ r.schedule = row[t].schedule
        /\ r.next = NextRun(row[t].schedule, now)
    BY <1>1, <1>3, ArmedNow DEF Started, Row
  <2>2. /\ r.next \in Nat /\ r.next > now /\ IsSlot(r.schedule, r.next)
        /\ \A x \in now + 1 .. r.next - 1 : ~IsSlot(r.schedule, x)
    BY <1>1, <1>3, <2>1, ArmedNow
  <2>3. row'[t] = r /\ now' = now /\ t \in running' /\ asked'[t] = asked[t]
    BY <1>1, <1>3 DEF Tick
  <2> HIDE DEF r
  <2>4. ticked'[t] = 1 /\ served'[t] \in 0 .. MaxTime /\ served'[t] <= now
    BY <1>1, <1>3, TasksAssumption DEF Shape
  <2>5. r.next > served'[t] /\ asked[t] \in Nat /\ asked[t] \in 0 .. MaxAsked
    BY <2>2, <2>4 DEF Fits, Shape
  <2>6. Fits(t)'
    BY <2>1, <2>2, <2>3, <2>4, <2>5 DEF Fits
  <2> QED  BY <1>1, <1>3, <2>2, <2>3, <2>6
<1>4. Shape'
  <2>1. /\ DOMAIN row' = Tasks /\ DOMAIN ticked' = Tasks /\ DOMAIN served' = Tasks
        /\ ticked' = [t \in Tasks |-> ticked'[t]] /\ served' = [t \in Tasks |-> served'[t]]
    BY DEF Tick
  <2>2. \A t \in Tasks : ticked'[t] \in Nat /\ served'[t] \in 0 .. MaxTime
    BY <1>2, <1>3 DEF Fits
  <2>3. running' \subseteq Tasks
    BY DEF Tick, ToStart, Shape
  <2>4. UNCHANGED <<now, asked, edits, stops>>
    BY DEF Tick
  <2> QED  BY <2>1, <2>2, <2>3, <2>4 DEF Shape
<1>5. \A u \in Tasks : Fits(u)'
  BY <1>2, <1>3
<1>6. ASSUME NEW u \in Tasks, ticked'[u] > ticked[u]
      PROVE  ticked[u] = 0 /\ served'[u] > served[u] /\ row'[u].next > now
  BY <1>2, <1>3, <1>6 DEF Shape
<1> QED  BY <1>4, <1>5, <1>6

LEMMA FinishKeeps ==
    ASSUME Shape, \A u \in Tasks : Fits(u), NEW t \in Tasks, Finish(t)
    PROVE  Shape' /\ (\A u \in Tasks : Fits(u)') /\ \A u \in Tasks : ticked'[u] <= ticked[u]
<1>1. PICK outcome \in {"ok", "error"} : FinishTicked(t, outcome) \/ FinishAsked(t, outcome)
  BY DEF Finish
<1>2. Fits(t) /\ Finished(t, outcome) /\ UNCHANGED <<now, served, edits, stops>>
  BY <1>1 DEF FinishTicked, FinishAsked
<1>3. /\ DOMAIN row' = Tasks /\ \A u \in Tasks \ {t} : row'[u] = row[u]
      /\ ~Lives(t) => row'[t] = row[t]
  BY <1>2 DEF Finished, Shape
<1>4. Lives(t) => /\ row[t] \in Row /\ row'[t] \in Row /\ row'[t].last # "running"
                  /\ row'[t].next = row[t].next /\ row'[t].schedule = row[t].schedule
  <2> SUFFICES ASSUME Lives(t)
               PROVE  /\ row[t] \in Row /\ row'[t] \in Row /\ row'[t].last # "running"
                      /\ row'[t].next = row[t].next /\ row'[t].schedule = row[t].schedule
    OBVIOUS
  <2>1. row[t] \in Row
    BY <1>2, LiveRow
  <2>2. row'[t] = [row[t] EXCEPT !.last = outcome]
    BY <1>2 DEF Finished, Shape
  <2> QED  BY <2>1, <2>2 DEF Row
<1>5. /\ ticked' \in [Tasks -> Nat] /\ asked' \in [Tasks -> 0 .. MaxAsked]
      /\ running' \subseteq Tasks
      /\ \A u \in Tasks \ {t} : /\ ticked'[u] = ticked[u] /\ asked'[u] = asked[u]
                                /\ u \in running => u \in running'
      /\ ticked'[t] <= ticked[t]
      /\ ticked'[t] = 0 \/ (ticked'[t] = 1 /\ t \in running')
  <2>1. CASE FinishTicked(t, outcome)
    <3>1. ticked[t] = 1 /\ ticked' = [ticked EXCEPT ![t] = ticked[t] - 1]
      BY <1>2, <2>1 DEF FinishTicked, Fits
    <3> QED  BY <2>1, <3>1 DEF FinishTicked, Shape
  <2>2. CASE FinishAsked(t, outcome)
    <3>1. asked' = [asked EXCEPT ![t] = asked[t] - 1] /\ asked[t] > 0
          /\ UNCHANGED <<running, ticked>>
      BY <2>2 DEF FinishAsked
    <3>2. asked' \in [Tasks -> 0 .. MaxAsked]
      BY <3>1, TasksAssumption DEF Shape
    <3> QED  BY <1>2, <3>1, <3>2 DEF Shape, Fits
  <2> QED  BY <1>1, <2>1, <2>2
<1>6. Shape'
  BY <1>2, <1>3, <1>5 DEF Shape
<1>7. ASSUME NEW u \in Tasks, u # t PROVE Fits(u)'
  BY <1>2, <1>3, <1>5, <1>7, Untouched
<1>8. Fits(t)'
  <2>1. ticked'[t] \in Nat /\ asked'[t] \in 0 .. MaxAsked /\ served'[t] = served[t]
    BY <1>2, <1>5
  <2>2. CASE Lives(t)
    BY <1>2, <1>4, <1>5, <2>1, <2>2 DEF Fits, Lives
  <2>3. CASE ~Lives(t)
    BY <1>2, <1>3, <1>5, <2>1, <2>3 DEF Fits, Lives
  <2> QED  BY <2>2, <2>3
<1>9. \A u \in Tasks : ticked'[u] <= ticked[u]
  BY <1>5 DEF Shape
<1> QED  BY <1>6, <1>7, <1>8, <1>9

\* The interrupted runs are cleared with the process that ran them.
LEMMA RestartKeeps ==
    ASSUME Shape, \A u \in Tasks : Fits(u), Restart
    PROVE  Shape' /\ (\A u \in Tasks : Fits(u)') /\ \A u \in Tasks : ticked'[u] <= ticked[u]
<1>1. UNCHANGED <<now, served, edits>> /\ row' = ClearInterrupted
      /\ ticked' = [t \in Tasks |-> 0] /\ asked' = [t \in Tasks |-> 0] /\ running' = {}
  BY DEF Restart
<1>2. stops' \in 0 .. MaxStops /\ 0 \in 0 .. MaxAsked
  BY TasksAssumption DEF Restart, Shape
<1>3. DOMAIN row' = Tasks
  BY <1>1 DEF ClearInterrupted
<1>4. Shape'
  BY <1>1, <1>2, <1>3 DEF Shape
<1>5. ASSUME NEW t \in Tasks PROVE Fits(t)'
  <2>1. CASE ~(Lives(t) /\ row[t].last = "running")
    <3>1. row'[t] = row[t]
      BY <1>1, <2>1 DEF ClearInterrupted
    <3> QED  BY <1>1, <1>2, <2>1, <3>1 DEF Fits, Lives
  <2>2. CASE Lives(t) /\ row[t].last = "running"
    <3>1. row'[t] = [row[t] EXCEPT !.last = "error"] /\ row[t] \in Row
      BY <1>1, <2>2, LiveRow DEF ClearInterrupted
    <3>2. /\ row'[t] \in Row /\ row'[t].last = "error"
          /\ row'[t].next = row[t].next /\ row'[t].schedule = row[t].schedule
      BY <3>1 DEF Row
    <3> QED  BY <1>1, <1>2, <2>2, <3>2 DEF Fits, Lives
  <2> QED  BY <2>1, <2>2
<1> QED  BY <1>1, <1>4, <1>5 DEF Shape

LEMMA ClockKeeps ==
    ASSUME Shape, \A u \in Tasks : Fits(u), Clock
    PROVE  Shape' /\ \A u \in Tasks : Fits(u)'
<1>1. now' = now + 1 /\ now < MaxTime /\ UNCHANGED <<row, work, edits, stops>>
  BY DEF Clock
<1>2. Shape'
  BY <1>1, TasksAssumption DEF Shape, work
<1>3. ASSUME NEW t \in Tasks PROVE Fits(t)'
  <2>1. UNCHANGED <<row, running, ticked, asked, served>> /\ now \in Nat /\ Fits(t)
    BY <1>1 DEF work, Shape
  <2>2. Lives(t)' <=> Lives(t)
    BY <2>1 DEF Lives
  <2>3. ASSUME Lives(t), row[t].next > now'
        PROVE  /\ IsSlot(row[t].schedule, row[t].next)
               /\ \A x \in now' + 1 .. row[t].next - 1 : ~IsSlot(row[t].schedule, x)
    <3>1. row[t].next \in Nat
      BY <2>1, <2>3, LiveRow
    <3>2. \A x \in now' + 1 .. row[t].next - 1 : x \in now + 1 .. row[t].next - 1
      BY <1>1, <2>1, <3>1
    <3> QED  BY <1>1, <2>1, <2>3, <3>1, <3>2 DEF Fits
  <2>4. served[t] <= now' /\ served[t] \in 0 .. MaxTime
    BY <1>1, <2>1 DEF Fits, Shape
  <2> QED  BY <2>1, <2>2, <2>3, <2>4 DEF Fits
<1> QED  BY <1>2, <1>3

LEMMA NextFits ==
    ASSUME Shape, \A u \in Tasks : Fits(u), [Next]_vars
    PROVE  /\ Shape' /\ \A u \in Tasks : Fits(u)'
           /\ \A u \in Tasks : ticked'[u] > ticked[u] =>
                 ticked[u] = 0 /\ served'[u] > served[u] /\ row'[u].next > now
<1>1. ASSUME UNCHANGED ticked \/ \A u \in Tasks : ticked'[u] <= ticked[u], Shape'
      PROVE  \A u \in Tasks : ~(ticked'[u] > ticked[u])
  BY <1>1 DEF Shape
<1>2. ASSUME NEW t \in Tasks,
             \/ \E enabled \in BOOLEAN, schedule \in Schedules :
                   \/ CreateSystemTask(t, enabled, schedule)
                   \/ UpdateSystemTask(t, enabled, schedule)
             \/ DeleteSystemTask(t) \/ RunNow(t)
      PROVE  Shape' /\ (\A u \in Tasks : Fits(u)') /\ UNCHANGED ticked
  <2>1. UNCHANGED ticked
    BY <1>2 DEF CreateSystemTask, UpdateSystemTask, DeleteSystemTask, RunNow, work
  <2> QED  BY <1>2, <2>1, RouteKeeps
<1>3. CASE Clock
  <2>1. UNCHANGED ticked
    BY <1>3 DEF Clock, work
  <2> QED  BY <1>1, <1>3, <2>1, ClockKeeps
<1>4. CASE UNCHANGED vars
  <2>1. Shape' /\ UNCHANGED ticked
    BY <1>4 DEF vars, work, Shape
  <2>2. \A u \in Tasks : Fits(u)'
    BY <1>4, Untouched DEF vars, work
  <2> QED  BY <1>1, <2>1, <2>2
<1>5. ASSUME NEW t \in Tasks, Finish(t)
      PROVE  Shape' /\ (\A u \in Tasks : Fits(u)') /\ \A u \in Tasks : ticked'[u] <= ticked[u]
  BY <1>5, FinishKeeps
<1> QED  BY <1>1, <1>2, <1>3, <1>4, <1>5, TickKeeps, RestartKeeps DEF Next

-----------------------------------------------------------------------------
LEMMA Invariance == Spec => []IInv
<1>1. Init => IInv
  BY InitFits, TaskByTask
<1>2. IInv /\ [Next]_vars => IInv'
  <2> SUFFICES ASSUME IInv, [Next]_vars PROVE IInv'
    OBVIOUS
  <2>1. Shape /\ \A t \in Tasks : Fits(t)
    BY TaskByTask
  <2>2. Shape' /\ \A t \in Tasks : Fits(t)'
    BY <2>1, NextFits
  <2> QED  BY <2>2
        DEF IInv, Shape, Fits, RunningIsReal, TypeOK, ArmedForNearest, TickedOnce,
            ServedIsPast
<1> QED  BY <1>1, <1>2, PTL DEF Spec

\* A row is armed for the nearest instant its schedule names (nextRun), whatever
\* sequence of edits, runs, restarts and hours led there.
THEOREM RowsAreArmedRight == Spec => []ArmedForNearest
<1>1. IInv => ArmedForNearest
  BY DEF IInv
<1> QED  BY Invariance, <1>1, PTL

\* task-runner.ts clears what a crash interrupted, so that no row says "running"
\* of a run that is not there ("a spinner that never resolves").
THEOREM StatusIsReal == Spec => []RunningIsReal
<1>1. IInv => RunningIsReal
  BY DEF IInv
<1> QED  BY Invariance, <1>1, PTL

\* markTaskStarted arms the next run before the work begins, so that a slot is
\* served by one run of the tick, across restarts and edits.
THEOREM OneRunPerSlot == Spec => SlotServedOnce
<1>1. IInv /\ [Next]_vars =>
        [\A t \in Tasks : ticked'[t] > ticked[t] =>
            ticked[t] = 0 /\ served'[t] > served[t] /\ row'[t].next > now]_vars
  BY TaskByTask, NextFits
<1> QED  BY Invariance, <1>1, PTL DEF Spec, SlotServedOnce

-----------------------------------------------------------------------------
(* The update *)

Preparing == {"verify", "empty", "unpack", "prepare", "dropOld", "setAside"}
Swapped == {"install", "restart", "probe"}
GoingBack == {"rbEmpty", "rbSetAside", "rbMoveIn"}
GoneBack == {"rbDrop", "rbRestart", "rbReport"}

\* The installed tree is one that starts, of the version that runs or of an older one.
Follows ==
    backend # Update!None => tree["prefix"] \in Working /\ tree["prefix"] <= backend

\* There is a version to come back to, at each step of the only helper.
Safe(s) ==
    /\ tree["old"] \in Working \cup {Absent}
    /\ tree["old"] # Absent /\ tree["prefix"] \in Versions => tree["old"] <= tree["prefix"]
    /\ s = "none" => tree["prefix"] \in Working \/ tree["old"] \in Working
    /\ s \notin {"moveIn", "install", "restart", "rbMoveIn"} => Follows
    /\ s \in Preparing \cup {"moveIn", "discard"} => backend # Update!None
    /\ s \in {"moveIn"} \cup Swapped \cup GoingBack => tree["old"] \in Working
    /\ s = "setAside" => tree["old"] = Absent
    /\ s \in {"moveIn", "rbMoveIn"} =>
          /\ tree["prefix"] = Absent
          /\ backend # Update!None => tree["old"] <= backend
    /\ s = "rbSetAside" => tree["new"] = Absent
    /\ s \in GoneBack => tree["prefix"] \in Working

\* Of a helper before which none was cut short or met with a mishap: it goes back to
\* what it found.
Uncut(s) ==
    /\ \A a \in Admins : ~helper[a].attached
    /\ s = "none" =>
          /\ backend = Update!Started /\ tree["prefix"] \in Working /\ tree["old"] = Absent
          /\ backend = Update!None => status = "rolled_back"
          /\ status = "rolled_back" => tree["prefix"] = before
    /\ s # "none" => status # "rolled_back"
    /\ s \in Preparing \cup {"moveIn"} => backend = before /\ Update!Starts(before)
    /\ s \in Preparing \cup GoneBack => tree["prefix"] = before /\ tree["old"] = Absent
    /\ s \in {"moveIn"} \cup Swapped \cup GoingBack => tree["old"] = before
    /\ s = "probe" => backend \in {Update!Started, Update!None}
    /\ s \in {"discard", "rbReport"} => backend = Update!Started

NewerStaged == stage.bundle = Update!None \/ stage.bundle > backend

\* What is about to be installed is newer than what runs.
Newer(s) ==
    /\ s \in {"verify", "empty", "unpack"} => NewerStaged
    /\ s \in {"prepare", "dropOld", "setAside", "moveIn"} =>
          tree["new"] \in Versions /\ tree["new"] > backend

StepFits(s) == Safe(s) /\ (~cut /\ mishap = {} => Uncut(s)) /\ Newer(s)

\* A request lives no longer than the process that took it.
RequestsNewer ==
    \A a \in Admins :
        /\ request[a].step # "none" => backend # Update!None /\ request[a].version > backend
        /\ request[a].step \in {"bundle", "sig", "hand"} => NewerStaged

Only(a) == \A b \in Admins : Update!Helping(b) => b = a

AloneFits ==
    Update!InOrder =>
        /\ Update!NoneHelping => StepFits("none")
        /\ \A a \in Admins : Update!Helping(a) => Only(a) /\ StepFits(helper[a].step)

UpdateInv == Update!TypeOK /\ RequestsNewer /\ AloneFits

-----------------------------------------------------------------------------
(* Types *)

LEMMA Constants == ASSUME Update!VersionsAssumption PROVE
    /\ Absent \notin Versions /\ Absent # Update!Partial /\ Update!Partial \notin Versions
    /\ Update!None \notin Versions /\ Working \subseteq Versions
    /\ \A v \in Versions : v \in Nat
<1>1. Versions \subseteq Nat /\ 0 \notin Versions /\ 0 \in Nat /\ Absent \notin Nat
  BY DEF Update!VersionsAssumption
<1>2. Working \subseteq Versions
  BY DEF Update!VersionsAssumption
<1> QED  BY <1>1, <1>2, Zenon DEF Update!Partial, Update!None

LEMMA GotoTyped ==
    ASSUME Update!TypeOK, NEW a \in Admins, NEW s \in Update!HelperSteps, Update!Goto(a, s)
    PROVE  /\ helper' \in [Admins -> [step : Update!HelperSteps, attached : BOOLEAN]]
           /\ helper'[a].step = s
           /\ \A b \in Admins : b # a => helper'[b] = helper[b]
           /\ \A b \in Admins : helper'[b].attached = helper[b].attached
BY DEF Update!TypeOK, Update!Goto

LEMMA ExitTyped ==
    ASSUME Update!TypeOK, NEW a \in Admins, Update!Exit(a)
    PROVE  /\ helper' \in [Admins -> [step : Update!HelperSteps, attached : BOOLEAN]]
           /\ helper'[a].step = "none"
           /\ \A b \in Admins : b # a => helper'[b] = helper[b]
           /\ \A b \in Admins : ~helper[b].attached => ~helper'[b].attached
BY DEF Update!TypeOK, Update!Exit, Update!NoHelper, Update!HelperSteps

LEMMA MovedTyped ==
    ASSUME Update!VersionsAssumption, Update!TypeOK,
           NEW from \in Update!Dirs, NEW to \in Update!Dirs
    PROVE  Update!Moved(from, to) \in [Update!Dirs -> Update!Trees]
BY DEF Update!TypeOK, Update!Moved, Update!Trees

\* What is left when a removal is interrupted.
LEMMA HalfDoneTyped ==
    ASSUME Update!TypeOK, NEW dirs
    PROVE  /\ Update!HalfDone(dirs) \in [Update!Dirs -> Update!Trees]
           /\ \A d \in Update!Dirs : Update!HalfDone(dirs)[d] = tree[d]
                 \/ (d \in dirs /\ tree[d] # Absent /\ Update!HalfDone(dirs)[d] = Update!Partial)
           /\ dirs = {} => Update!HalfDone(dirs) = tree
BY DEF Update!TypeOK, Update!HalfDone, Update!Trees, Update!Dirs

LEMMA StartedTyped ==
    ASSUME Update!VersionsAssumption
    PROVE  /\ Update!Started \in Versions \cup {Update!None}
           /\ Update!Started # Update!None
                => Update!Started = tree["prefix"] /\ tree["prefix"] \in Working
           /\ Update!Started = Update!None <=> ~Update!Starts(tree["prefix"])
BY Constants DEF Update!Started, Update!Starts

\* A restart takes the helper on, or ends it with those that are attached.
LEMMA RestartTyped ==
    ASSUME Update!VersionsAssumption, Update!TypeOK, NEW a \in Admins,
           NEW s \in Update!HelperSteps, Update!RestartService(a, s)
    PROVE  /\ helper' \in [Admins -> [step : Update!HelperSteps, attached : BOOLEAN]]
           /\ helper'[a].step = s
              \/ (helper[a].attached /\ helper'[a].step = "none")
           /\ \A b \in Admins : b # a => helper'[b] \in {helper[b], Update!NoHelper}
           /\ \A b \in Admins : ~helper[b].attached => ~helper'[b].attached
           /\ backend' \in Versions \cup {Update!None}
           /\ UNCHANGED <<request, backend>> \/ request' = [b \in Admins |-> Update!NoRequest]
           /\ mishap' \subseteq Update!Mishaps /\ mishap \subseteq mishap'
<1>0. mishap \subseteq Update!Mishaps /\ backend \in Versions \cup {Update!None}
         /\ helper \in [Admins -> [step : Update!HelperSteps, attached : BOOLEAN]]
  BY DEF Update!TypeOK
<1>1. CASE /\ backend' \in {Update!Started, Update!None}
           /\ request' = [b \in Admins |-> Update!NoRequest]
           /\ \E killed \in SUBSET {b \in Admins : helper[b].attached} :
                 helper' = [b \in Admins |->
                              IF b \in killed THEN Update!NoHelper
                              ELSE IF b = a THEN [helper[a] EXCEPT !.step = s] ELSE helper[b]]
           /\ mishap' = IF s = "rbReport" /\ backend' # Update!Started
                        THEN mishap \cup {"down"} ELSE mishap
  <2>1. PICK killed \in SUBSET {b \in Admins : helper[b].attached} :
           helper' = [b \in Admins |->
                        IF b \in killed THEN Update!NoHelper
                        ELSE IF b = a THEN [helper[a] EXCEPT !.step = s] ELSE helper[b]]
    BY <1>1
  <2>2. Update!NoHelper \in [step : Update!HelperSteps, attached : BOOLEAN]
           /\ Update!NoHelper.step = "none" /\ ~Update!NoHelper.attached
    BY DEF Update!NoHelper, Update!HelperSteps
  <2>3. [helper[a] EXCEPT !.step = s] \in [step : Update!HelperSteps, attached : BOOLEAN]
           /\ [helper[a] EXCEPT !.step = s].step = s
           /\ [helper[a] EXCEPT !.step = s].attached = helper[a].attached
    BY <1>0
  <2>4. helper' \in [Admins -> [step : Update!HelperSteps, attached : BOOLEAN]]
    BY <1>0, <2>1, <2>2, <2>3
  <2>5. mishap' \subseteq Update!Mishaps /\ mishap \subseteq mishap'
    BY <1>0, <1>1 DEF Update!Mishaps
  <2>6. backend' \in Versions \cup {Update!None}
    BY <1>1, StartedTyped
  <2> QED  BY <1>1, <2>1, <2>2, <2>3, <2>4, <2>5, <2>6
<1>2. CASE /\ UNCHANGED <<backend, request>> /\ Update!Goto(a, s)
           /\ mishap' = mishap \cup {"stuck"}
  BY <1>0, <1>2, GotoTyped DEF Update!Mishaps
<1> QED  BY <1>1, <1>2 DEF Update!RestartService

\* Where a helper's step leads, and that it touches nobody else's helper but to end it.
LEMMA HelpSteps ==
    ASSUME Update!VersionsAssumption, Update!TypeOK, NEW a \in Admins, Update!Help(a)
    PROVE  /\ Update!Helping(a)
           /\ helper' \in [Admins -> [step : Update!HelperSteps, attached : BOOLEAN]]
           /\ \A b \in Admins : b # a => helper'[b] \in {helper[b], Update!NoHelper}
           /\ \A b \in Admins : ~helper[b].attached => ~helper'[b].attached
           /\ Update!UnchangedByHelper
           /\ backend' \in Versions \cup {Update!None}
           /\ UNCHANGED <<request, backend>> \/ request' = [b \in Admins |-> Update!NoRequest]
           /\ mishap' \subseteq Update!Mishaps /\ mishap \subseteq mishap'
<1> DEFINE Typed == helper' \in [Admins -> [step : Update!HelperSteps, attached : BOOLEAN]]
           Others == \A b \in Admins : b # a => helper'[b] \in {helper[b], Update!NoHelper}
           Bound == \A b \in Admins : ~helper[b].attached => ~helper'[b].attached
<1>0. mishap \subseteq Update!Mishaps /\ backend \in Versions \cup {Update!None}
  BY DEF Update!TypeOK
<1>1. ASSUME NEW s \in Update!HelperSteps, Update!Goto(a, s) PROVE Typed /\ Others /\ Bound
  BY <1>1, GotoTyped
<1>2. ASSUME Update!Exit(a) PROVE Typed /\ Others /\ Bound
  BY <1>2, ExitTyped
<1>3. ASSUME NEW what \in {{}, {"unmoved"}}, Update!Fail(a, what)
      PROVE  /\ Update!Exit(a)
             /\ mishap' \subseteq Update!Mishaps /\ mishap \subseteq mishap'
  BY <1>0, <1>3 DEF Update!Fail, Update!Unsaid, Update!Mishaps
<1>4. CASE Update!Restart(a) \/ Update!RollbackRestart(a)
  <2>1. PICK s \in {"probe", "rbReport"} : Update!RestartService(a, s)
    BY <1>4 DEF Update!Restart, Update!RollbackRestart
  <2>2. s \in Update!HelperSteps
    BY DEF Update!HelperSteps
  <2>3. Update!Helping(a) /\ Update!UnchangedByHelper
    BY <1>4 DEF Update!Restart, Update!RollbackRestart, Update!Helping
  <2> QED  BY <2>1, <2>2, <2>3, RestartTyped
<1>5. CASE Update!Dies(a)
  <2>1. /\ Update!Helping(a) /\ Update!UnchangedByHelper
        /\ UNCHANGED <<request, backend>> /\ Update!Exit(a)
    BY <1>5 DEF Update!Dies, Update!Helping, Update!Removes
  <2>2. mishap' \subseteq Update!Mishaps /\ mishap \subseteq mishap'
    BY <1>0, <1>5 DEF Update!Dies, Update!Unsaid, Update!Halved, Update!Mishaps
  <2> QED  BY <1>0, <1>2, <2>1, <2>2
<1>6. CASE Update!RollbackSetAside(a)
  <2>1. mishap' \in {mishap, mishap \cup {"unmoved"}}
    BY <1>6 DEF Update!RollbackSetAside, Update!MovedOrNot
  <2>2. /\ Update!Helping(a) /\ Update!UnchangedByHelper /\ UNCHANGED <<request, backend>>
        /\ Update!Goto(a, "rbMoveIn") /\ "rbMoveIn" \in Update!HelperSteps
    BY <1>6 DEF Update!RollbackSetAside, Update!Helping, Update!HelperSteps
  <2> QED  BY <1>0, <1>1, <2>1, <2>2 DEF Update!Mishaps
<1>7. CASE \/ Update!Verify(a) \/ Update!EmptyNew(a) \/ Update!Unpack(a) \/ Update!Prepare(a)
           \/ Update!DropOld(a) \/ Update!SetAside(a) \/ Update!MoveIn(a)
           \/ Update!Install(a) \/ Update!Probe(a) \/ Update!Discard(a)
           \/ Update!RollbackEmpty(a) \/ Update!RollbackMoveIn(a)
           \/ Update!RollbackDrop(a) \/ Update!RollbackReport(a)
  <2> USE DEF Update!Verify, Update!EmptyNew, Update!Unpack, Update!Prepare, Update!DropOld,
              Update!SetAside, Update!MoveIn, Update!Install, Update!Probe, Update!Discard,
              Update!RollbackEmpty, Update!RollbackMoveIn, Update!RollbackDrop,
              Update!RollbackReport
  <2>1. Update!Helping(a) /\ Update!UnchangedByHelper /\ UNCHANGED <<request, backend>>
    BY <1>7 DEF Update!Helping
  <2>2. \/ \E s \in Update!HelperSteps : Update!Goto(a, s) /\ UNCHANGED mishap
        \/ Update!Exit(a) /\ UNCHANGED mishap
        \/ \E what \in {{}, {"unmoved"}} : Update!Fail(a, what)
    BY <1>7 DEF Update!HelperSteps
  <2> QED  BY <1>0, <1>1, <1>2, <1>3, <2>1, <2>2
<1> QED  BY <1>4, <1>5, <1>6, <1>7 DEF Update!Help

LEMMA HelpTyped ==
    ASSUME Update!VersionsAssumption, Update!TypeOK, NEW a \in Admins, Update!Help(a)
    PROVE  Update!TypeOK'
<1>1. /\ helper' \in [Admins -> [step : Update!HelperSteps, attached : BOOLEAN]]
      /\ Update!UnchangedByHelper /\ backend' \in Versions \cup {Update!None}
      /\ UNCHANGED request \/ request' = [b \in Admins |-> Update!NoRequest]
      /\ mishap' \subseteq Update!Mishaps
  BY HelpSteps
<1> USE DEF Update!Help, Update!Verify, Update!EmptyNew, Update!Unpack, Update!Prepare,
            Update!DropOld, Update!SetAside, Update!MoveIn, Update!Install, Update!Restart,
            Update!Probe, Update!Discard, Update!RollbackEmpty,
            Update!RollbackSetAside, Update!RollbackMoveIn, Update!RollbackDrop,
            Update!RollbackRestart, Update!RollbackReport, Update!Dies
<1>2. tree' \in [Update!Dirs -> Update!Trees]
  <2>1. CASE \/ UNCHANGED tree
             \/ \E d, e \in Update!Dirs : tree' = Update!Moved(d, e)
             \/ \E dirs : tree' = Update!HalfDone(dirs)
    BY <2>1, MovedTyped, HalfDoneTyped DEF Update!TypeOK
  <2>2. CASE \E d \in Update!Dirs, v \in Update!Trees : tree' = [tree EXCEPT ![d] = v]
    BY <2>2 DEF Update!TypeOK
  <2>3. CASE Update!Unpack(a)
    BY <2>3 DEF Update!TypeOK, Update!Dirs, Update!Trees, Update!None
  <2> QED  BY <2>1, <2>2, <2>3 DEF Update!MovedOrNot, Update!Dirs, Update!Trees
<1>3. service' \in Versions
  BY DEF Update!TypeOK
<1>4. status' \in {"idle", "running", "ok", "failed", "rolled_back"}
  BY DEF Update!Fail, Update!Unsaid, Update!TypeOK
<1>5. request' \in [Admins -> [step : {"none", "clear", "bundle", "sig", "hand"},
                               version : Versions \cup {Update!None}]]
  BY <1>1 DEF Update!TypeOK, Update!NoRequest
<1> QED  BY <1>1, <1>2, <1>3, <1>4, <1>5
            DEF Update!TypeOK, Update!UnchangedByHelper, Update!history

-----------------------------------------------------------------------------
(* The helper *)

\* Every step of the only helper leads to one it fits.
LEMMA HelpFits ==
    ASSUME Update!VersionsAssumption, Update!TypeOK, NEW a \in Admins, Update!Help(a),
           StepFits(helper[a].step), Update!InOrder'
    PROVE  StepFits(helper[a].step)'
<1> USE Constants
    DEF Update!TypeOK, StepFits, Safe, Uncut, Newer, Follows, Preparing, Swapped, GoingBack,
        GoneBack, Update!Dirs, Update!UnchangedByHelper, Update!history
<1>s. mishap \subseteq mishap' /\ {"stuck", "halved", "unmoved"} \cap mishap' = {}
  BY HelpSteps DEF Update!InOrder
<1>b. \A b \in Admins : ~helper[b].attached => ~helper'[b].attached
  BY HelpSteps
<1>h. UNCHANGED <<stage, cut, before>>
  BY HelpSteps
<1>k. UNCHANGED service /\ tree'["prefix"] = tree["prefix"] => Update!Started' = Update!Started
  BY DEF Update!Started, Update!Starts
<1>v. UNCHANGED service => Update!Starts(before)' = Update!Starts(before)
  BY <1>h DEF Update!Starts
<1>f. ASSUME NEW what, Update!Fail(a, what)
      PROVE  /\ helper'[a].step = "none" /\ (mishap' = {} => status' = "failed")
             /\ what \subseteq mishap'
  BY <1>f, ExitTyped DEF Update!Fail, Update!Unsaid
<1>0. ASSUME helper[a].step \in Preparing, UNCHANGED <<tree, service, backend>>,
             Update!Fail(a, {})
      PROVE  StepFits(helper[a].step)'
  <2>1. helper'[a].step = "none" /\ (mishap' = {} => status' = "failed" /\ mishap = {})
    BY <1>0, <1>f, <1>s
  <2>2. Safe("none")'
    BY <1>0
  <2>3. ~cut /\ mishap = {} => Update!Started = backend /\ backend = before
    BY <1>0 DEF Update!Started
  <2>4. ~cut' /\ mishap' = {} => Uncut("none")'
    BY <1>0, <2>1, <2>2, <2>3, <1>b, <1>h, <1>k
  <2> QED  BY <2>1, <2>2, <2>4
<1>g. ASSUME NEW s \in Update!HelperSteps, Update!Goto(a, s) PROVE helper'[a].step = s
  BY <1>g, GotoTyped
<1>1. CASE Update!Verify(a)
  <2>1. CASE Update!Goto(a, "empty") /\ UNCHANGED <<status, mishap>>
    BY <1>1, <2>1, <1>g, <1>b, <1>k, <1>v DEF Update!Verify, NewerStaged, Update!HelperSteps
  <2> QED  BY <1>0, <1>1, <2>1 DEF Update!Verify
<1>2. CASE Update!EmptyNew(a)
  BY <1>2, <1>g, <1>b, <1>k, <1>v DEF Update!EmptyNew, NewerStaged, Update!HelperSteps
<1>3. CASE Update!Unpack(a)
  <2>1. CASE Update!Goto(a, "prepare") /\ tree' = [tree EXCEPT !["new"] = stage.bundle]
             /\ UNCHANGED <<status, mishap>> /\ stage.bundle # Update!None
    BY <1>3, <2>1, <1>g, <1>b, <1>k, <1>v
       DEF Update!Unpack, NewerStaged, Update!HelperSteps
  <2> QED  BY <1>0, <1>3, <2>1 DEF Update!Unpack
<1>4. CASE Update!Prepare(a)
  <2>1. CASE Update!Goto(a, "dropOld") /\ status' = "running" /\ UNCHANGED mishap
    BY <1>4, <2>1, <1>g, <1>b, <1>k, <1>v DEF Update!Prepare, Update!HelperSteps
  <2> QED  BY <1>0, <1>4, <2>1 DEF Update!Prepare
<1>5. CASE Update!DropOld(a)
  BY <1>5, <1>g, <1>b, <1>k, <1>v DEF Update!DropOld, Update!HelperSteps
<1>6. CASE Update!SetAside(a)
  <2>1. CASE tree' = Update!Moved("prefix", "old") /\ Update!Goto(a, "moveIn")
             /\ UNCHANGED <<status, mishap>>
    BY <1>6, <2>1, <1>g, <1>b, <1>k, <1>v DEF Update!SetAside, Update!Moved, Update!HelperSteps
  <2> QED  BY <1>0, <1>6, <2>1 DEF Update!SetAside
<1>7. CASE Update!MoveIn(a)
  <2>1. CASE tree' = Update!Moved("new", "prefix") /\ Update!Goto(a, "install")
             /\ UNCHANGED <<status, mishap>>
    BY <1>7, <2>1, <1>g, <1>b, <1>k, <1>v DEF Update!MoveIn, Update!Moved, Update!HelperSteps
  <2>2. CASE Update!Fail(a, {}) /\ tree' = Update!Moved("old", "prefix")
    <3>1. tree'["prefix"] = tree["old"] /\ tree'["old"] = Absent
      BY <1>7, <2>2 DEF Update!MoveIn, Update!Moved
    <3> QED  BY <1>7, <2>2, <3>1, <1>f, <1>s, <1>b, <1>h DEF Update!MoveIn, Update!Started, Update!Starts
  <2>3. ~Update!Fail(a, {"unmoved"})
    BY <1>f, <1>s
  <2>4. tree["old"] # Absent
    BY <1>7 DEF Update!MoveIn
  <2> QED  BY <1>7, <2>1, <2>2, <2>3, <2>4 DEF Update!MoveIn
<1>8. CASE Update!Install(a)
  BY <1>8, <1>g, <1>b, <1>k, <1>v DEF Update!Install, Update!HelperSteps
<1>9. ASSUME NEW s \in Update!HelperSteps, Update!RestartService(a, s)
      PROVE  /\ backend' \in {Update!Started, Update!None}
             /\ helper'[a].step = s \/ (helper[a].attached /\ helper'[a].step = "none")
             /\ mishap' = {} => s # "rbReport" \/ backend' = Update!Started
  <2>1. "stuck" \notin mishap'
    BY <1>s
  <2>2. backend' \in {Update!Started, Update!None}
          /\ (mishap' = {} => s # "rbReport" \/ backend' = Update!Started)
    BY <1>9, <2>1 DEF Update!RestartService
  <2> QED  BY <1>9, <2>2, RestartTyped
<1>10. CASE Update!Restart(a)
  <2>1. /\ backend' \in {Update!Started, Update!None} /\ UNCHANGED <<tree, service, status>>
        /\ helper'[a].step = "probe" \/ (helper[a].attached /\ helper'[a].step = "none")
        /\ helper[a].step = "restart"
    BY <1>9, <1>10 DEF Update!Restart, Update!HelperSteps
  <2>2. Update!Started' = Update!Started
    BY <2>1, <1>k
  <2> QED  BY <2>1, <2>2, <1>s, <1>b, <1>h, StartedTyped
<1>11. CASE Update!Probe(a)
  <2>1. CASE /\ backend # Update!None /\ status' = "ok"
             /\ Update!Goto(a, "discard") /\ UNCHANGED mishap
    BY <1>11, <2>1, <1>g, <1>b, <1>k, <1>v DEF Update!Probe, Update!HelperSteps
  <2>2. CASE Update!Goto(a, "rbEmpty") /\ UNCHANGED <<status, mishap>>
    BY <1>11, <2>2, <1>g, <1>b, <1>k, <1>v DEF Update!Probe, Update!HelperSteps
  <2>3. tree["old"] # Absent
    BY <1>11 DEF Update!Probe
  <2> QED  BY <1>11, <2>1, <2>2, <2>3 DEF Update!Probe
<1>12. CASE Update!Discard(a)
  <2>1. helper'[a].step = "none"
    BY <1>12, ExitTyped DEF Update!Discard
  <2>2. Update!Started' = Update!Started
    BY <1>12, <1>k DEF Update!Discard
  <2> QED  BY <1>12, <2>1, <2>2, <1>b, StartedTyped DEF Update!Discard
<1>13. CASE Update!RollbackEmpty(a)
  BY <1>13, <1>g, <1>b, <1>k, <1>v DEF Update!RollbackEmpty, Update!HelperSteps
<1>14. CASE Update!RollbackSetAside(a)
  <2>1. helper'[a].step = "rbMoveIn" /\ helper[a].step = "rbSetAside"
          /\ UNCHANGED <<service, backend, status>> /\ Update!MovedOrNot("prefix", "new")
    BY <1>14, <1>g DEF Update!RollbackSetAside, Update!HelperSteps
  <2>2. tree'["prefix"] = Absent /\ tree'["old"] = tree["old"]
    <3>1. "unmoved" \notin mishap'
      BY <1>s
    <3> QED  BY <2>1, <3>1 DEF Update!MovedOrNot, Update!Moved
  <2> QED  BY <2>1, <2>2, <1>s, <1>b, <1>h
<1>15. CASE Update!RollbackMoveIn(a)
  <2>1. ~Update!Fail(a, {"unmoved"})
    BY <1>f, <1>s
  <2>2. tree' = Update!Moved("old", "prefix") /\ Update!Goto(a, "rbDrop")
          /\ UNCHANGED <<status, mishap>>
    BY <1>15, <2>1 DEF Update!RollbackMoveIn
  <2> QED  BY <1>15, <2>2, <1>g, <1>b, <1>k, <1>v DEF Update!RollbackMoveIn, Update!Moved, Update!HelperSteps
<1>16. CASE Update!RollbackDrop(a)
  BY <1>16, <1>g, <1>b, <1>k, <1>v DEF Update!RollbackDrop, Update!HelperSteps
<1>17. CASE Update!RollbackRestart(a)
  <2>1. /\ backend' \in {Update!Started, Update!None} /\ UNCHANGED <<tree, service, status>>
        /\ helper'[a].step = "rbReport" \/ (helper[a].attached /\ helper'[a].step = "none")
        /\ helper[a].step = "rbRestart" /\ (mishap' = {} => backend' = Update!Started)
    BY <1>9, <1>17 DEF Update!RollbackRestart, Update!HelperSteps
  <2>2. Update!Started' = Update!Started
    BY <2>1, <1>k
  <2> QED  BY <2>1, <2>2, <1>s, <1>b, <1>h, StartedTyped
<1>18. CASE Update!RollbackReport(a)
  <2>1. helper'[a].step = "none"
    BY <1>18, ExitTyped DEF Update!RollbackReport
  <2>2. Update!Started' = Update!Started
    BY <1>18, <1>k DEF Update!RollbackReport
  <2> QED  BY <1>18, <2>1, <2>2, <1>b, StartedTyped DEF Update!RollbackReport
<1>19. CASE Update!Dies(a)
  <2>1. helper'[a].step = "none" /\ mishap' # {} /\ UNCHANGED backend
    BY <1>19, ExitTyped DEF Update!Dies, Update!Unsaid
  <2>2. tree'["old"] = tree["old"] /\ tree'["prefix"] = tree["prefix"]
           /\ helper[a].step \in {"empty", "prepare", "dropOld", "probe", "discard", "rbEmpty",
                                  "rbDrop", "rbReport"}
    <3>1. CASE UNCHANGED tree /\ helper[a].step \in {"prepare", "probe", "rbReport"}
      BY <3>1
    <3>2. CASE Update!Removes(helper[a].step) # {}
                /\ \E dirs \in SUBSET Update!Removes(helper[a].step) : tree' = Update!HalfDone(dirs)
                /\ Update!Halved \subseteq mishap'
      <4>1. PICK dirs \in SUBSET {"new", "old"} : tree' = Update!HalfDone(dirs)
        BY <3>2 DEF Update!Removes
      <4>2. tree'["old"] # Update!Partial
        BY <3>2, <1>s DEF Update!Halved
      <4> QED  BY <3>2, <4>1, <4>2, HalfDoneTyped DEF Update!Removes
    <3> QED  BY <1>19, <3>1, <3>2 DEF Update!Dies
  <2> QED  BY <2>1, <2>2
<1> QED  BY <1>1, <1>2, <1>3, <1>4, <1>5, <1>6, <1>7, <1>8, <1>10, <1>11, <1>12, <1>13,
             <1>14, <1>15, <1>16, <1>17, <1>18, <1>19 DEF Update!Help

LEMMA HelpKeeps ==
    ASSUME Update!VersionsAssumption, UpdateInv, NEW a \in Admins, Update!Help(a)
    PROVE  UpdateInv'
<1>1. Update!TypeOK /\ Update!TypeOK'
  BY HelpTyped DEF UpdateInv
<1>2. /\ Update!Helping(a) /\ Update!UnchangedByHelper
      /\ \A b \in Admins : b # a => helper'[b] \in {helper[b], Update!NoHelper}
      /\ mishap \subseteq mishap'
      /\ UNCHANGED <<request, backend>> \/ request' = [b \in Admins |-> Update!NoRequest]
  BY <1>1, HelpSteps
<1>3. RequestsNewer'
  BY <1>2
     DEF UpdateInv, RequestsNewer, NewerStaged, Update!NoRequest, Update!UnchangedByHelper
<1>4. AloneFits'
  <2> SUFFICES ASSUME Update!InOrder'
               PROVE  /\ Update!NoneHelping' => StepFits("none")'
                      /\ \A b \in Admins :
                            Update!Helping(b)' => Only(b)' /\ StepFits(helper[b].step)'
    BY DEF AloneFits
  <2>0. Update!InOrder
    BY <1>2 DEF Update!InOrder, Update!UnchangedByHelper, Update!history
  <2>1. Only(a) /\ StepFits(helper[a].step)
    BY <1>2, <2>0 DEF UpdateInv, AloneFits
  <2>2. StepFits(helper[a].step)'
    BY <1>1, <2>1, HelpFits
  <2>3. \A b \in Admins : b # a => ~Update!Helping(b)'
    BY <1>2, <2>1 DEF Only, Update!Helping, Update!NoHelper
  <2>4. Update!NoneHelping' => helper'[a].step = "none"
    BY DEF Update!NoneHelping, Update!Helping
  <2>5. Update!NoneHelping' => StepFits("none")'
    BY <2>2, <2>4 DEF StepFits, Safe, Follows, Uncut, Newer
  <2> QED  BY <2>2, <2>3, <2>5 DEF Only
<1> QED  BY <1>1, <1>3, <1>4 DEF UpdateInv

-----------------------------------------------------------------------------
(* The backend, and the power *)

LEMMA UpdateInitFits == ASSUME Update!VersionsAssumption, Update!Init PROVE UpdateInv
<1>0. First \in Working /\ \A v \in Working : v \in Suits[v]
  BY Zenon DEF Update!VersionsAssumption
<1>1. First \in Versions /\ First # Update!None /\ First # Absent /\ First \in Working
         /\ First \in Suits[First]
  BY <1>0, Constants
<1>2. Update!TypeOK
  <2>1. tree \in [Update!Dirs -> Update!Trees]
    BY <1>1 DEF Update!Init, Update!Dirs, Update!Trees
  <2>2. runs \in 0 .. MaxRuns /\ cuts \in 0 .. MaxCuts
    BY DEF Update!Init, Update!VersionsAssumption
  <2> QED  BY <1>1, <2>1, <2>2
              DEF Update!Init, Update!TypeOK, Update!NoRequest, Update!NoHelper,
                  Update!HelperSteps
<1>3. RequestsNewer
  BY DEF Update!Init, RequestsNewer, Update!NoRequest
<1>4. \A a \in Admins : ~Update!Helping(a) /\ ~helper[a].attached
  BY DEF Update!Init, Update!Helping, Update!NoHelper
<1>5. StepFits("none")
  <2>1. tree["prefix"] = First /\ tree["old"] = Absent /\ backend = First /\ service = First
           /\ status = "idle" /\ First \in Nat
    BY <1>1, Constants DEF Update!Init
  <2> QED  BY <1>1, <1>4, <2>1
              DEF StepFits, Safe, Follows, Uncut, Newer, Preparing, Swapped, GoingBack,
                  GoneBack, Update!Started, Update!Starts
<1> QED  BY <1>2, <1>3, <1>4, <1>5 DEF UpdateInv, AloneFits

\* Steps that leave what a helper relies on leave it fit.
LEMMA StepsStayFit ==
    ASSUME UNCHANGED <<tree, service, backend, helper, cut, before, mishap>>,
           UNCHANGED status \/ (status' = "failed" /\ backend # Update!None),
           NewerStaged => NewerStaged'
    PROVE  \A s : StepFits(s) => StepFits(s)'
BY DEF StepFits, Safe, Follows, Uncut, Newer, Update!Started, Update!Starts

\* What a request does to the stage while a helper may be running.
LEMMA StageKeeps ==
    ASSUME Update!VersionsAssumption, UpdateInv, NEW a \in Admins,
           \/ \E v \in Versions : Update!RequestUpdate(a, v)
           \/ Update!ClearStage(a) \/ Update!DownloadFails(a)
           \/ Update!WriteBundle(a) \/ Update!WriteSignature(a)
    PROVE  UpdateInv'
<1>1. UNCHANGED <<tree, service, backend, status, helper, runs, cuts, Update!history, mishap>>
  BY DEF Update!RequestUpdate, Update!ClearStage, Update!DownloadFails,
         Update!WriteBundle, Update!WriteSignature
<1>2. Update!TypeOK'
  BY Constants
     DEF UpdateInv, Update!TypeOK, Update!RequestUpdate, Update!ClearStage,
         Update!DownloadFails, Update!WriteBundle, Update!WriteSignature,
         Update!NoRequest, Update!history
<1>3. NewerStaged => NewerStaged'
  BY DEF UpdateInv, Update!TypeOK, RequestsNewer, NewerStaged, Update!RequestUpdate,
         Update!ClearStage, Update!DownloadFails, Update!WriteBundle,
         Update!WriteSignature
<1>4. RequestsNewer'
  <2>1. ASSUME NEW v \in Versions, Update!RequestUpdate(a, v) PROVE RequestsNewer'
    BY <2>1
       DEF UpdateInv, Update!TypeOK, RequestsNewer, NewerStaged, Update!RequestUpdate
  <2>2. CASE Update!ClearStage(a)
    BY <2>2 DEF UpdateInv, Update!TypeOK, RequestsNewer, NewerStaged, Update!ClearStage
  <2>3. CASE Update!DownloadFails(a)
    BY <2>3
       DEF UpdateInv, Update!TypeOK, RequestsNewer, NewerStaged, Update!DownloadFails,
           Update!NoRequest
  <2>4. CASE Update!WriteBundle(a)
    BY <2>4 DEF UpdateInv, Update!TypeOK, RequestsNewer, NewerStaged, Update!WriteBundle
  <2>5. CASE Update!WriteSignature(a)
    BY <2>5
       DEF UpdateInv, Update!TypeOK, RequestsNewer, NewerStaged, Update!WriteSignature
  <2> QED  BY <2>1, <2>2, <2>3, <2>4, <2>5
<1>5. \A s : StepFits(s) => StepFits(s)'
  BY <1>1, <1>3, StepsStayFit DEF Update!history
<1>6. AloneFits'
  BY <1>1, <1>5
     DEF UpdateInv, Update!TypeOK, AloneFits, Update!InOrder, Update!NoneHelping,
         Update!Helping, Only, Update!history
<1> QED  BY <1>2, <1>4, <1>6 DEF UpdateInv

\* A helper that starts alone finds what the last one left.
LEMMA StartKeeps ==
    ASSUME Update!VersionsAssumption, UpdateInv, NEW a \in Admins,
           Update!HandOver(a) \/ Update!RequestRollback(a)
    PROVE  UpdateInv'
<1>1. UNCHANGED <<tree, service, backend, stage, cuts, cut, mishap>> /\ backend # Update!None
  BY DEF Update!HandOver, Update!RequestRollback, UpdateInv, RequestsNewer
<1>2. Update!TypeOK'
  <2>0. \/ UNCHANGED helper
        \/ \E s \in {"verify", "rbEmpty"}, attached \in BOOLEAN :
              helper' = [helper EXCEPT ![a] = [step |-> s, attached |-> attached]]
    BY DEF Update!HandOver, Update!RequestRollback, Update!StartHelper
  <2>1. helper' \in [Admins -> [step : Update!HelperSteps, attached : BOOLEAN]]
    BY <2>0 DEF UpdateInv, Update!TypeOK, Update!HelperSteps
  <2>2. request' \in [Admins -> [step : {"none", "clear", "bundle", "sig", "hand"},
                                 version : Versions \cup {Update!None}]]
    <3>1. UNCHANGED request \/ request' = [request EXCEPT ![a] = Update!NoRequest]
      BY DEF Update!HandOver, Update!RequestRollback
    <3> QED  BY <3>1 DEF UpdateInv, Update!TypeOK, Update!NoRequest
  <2>3. runs' \in 0 .. MaxRuns /\ before' \in Versions \cup {Update!None}
    BY DEF UpdateInv, Update!TypeOK, Update!HandOver, Update!RequestRollback,
           Update!StartHelper, Update!VersionsAssumption
  <2>4. alone' \in BOOLEAN
    BY DEF UpdateInv, Update!TypeOK, Update!HandOver, Update!RequestRollback,
           Update!StartHelper
  <2>5. status' \in {"idle", "running", "ok", "failed", "rolled_back"}
    BY DEF UpdateInv, Update!TypeOK, Update!HandOver, Update!RequestRollback
  <2> QED  BY <1>1, <2>1, <2>2, <2>3, <2>4, <2>5 DEF UpdateInv, Update!TypeOK
<1>3. RequestsNewer'
  <2>1. UNCHANGED request \/ request' = [request EXCEPT ![a] = Update!NoRequest]
    BY DEF Update!HandOver, Update!RequestRollback
  <2>2. \A b \in Admins : request'[b] \in {request[b], Update!NoRequest}
    BY <2>1 DEF UpdateInv, Update!TypeOK
  <2> QED  BY <1>1, <2>2 DEF UpdateInv, RequestsNewer, NewerStaged, Update!NoRequest
<1>4. ASSUME NEW s \in {"verify", "rbEmpty"}, NEW attached, Update!StartHelper(a, s, attached),
             Update!InOrder /\ Update!NoneHelping => StepFits(s)'
      PROVE  AloneFits'
  <2>1. helper' = [helper EXCEPT ![a] = [step |-> s, attached |-> attached]]
           /\ (alone' => alone /\ Update!NoneHelping)
    BY <1>4 DEF Update!StartHelper
  <2>2. helper'[a].step = s /\ s # "none" /\ \A b \in Admins : b # a => helper'[b] = helper[b]
    BY <2>1 DEF UpdateInv, Update!TypeOK
  <2>3. Update!InOrder' => Update!InOrder /\ Update!NoneHelping
    BY <1>1, <2>1 DEF Update!InOrder
  <2> QED  BY <1>4, <2>2, <2>3 DEF AloneFits, Update!NoneHelping, Update!Helping, Only
<1>5. CASE Update!HandOver(a)
  <2>1. NewerStaged /\ status' = "running" /\ Update!StartHelper(a, "verify", FALSE)
    BY <1>5 DEF Update!HandOver, UpdateInv, RequestsNewer
  <2>2. ASSUME Update!InOrder, Update!NoneHelping PROVE StepFits("verify")'
    <3>1. StepFits("none") /\ before' = backend
      BY <2>1, <2>2 DEF UpdateInv, AloneFits, Update!StartHelper
    <3>2. \A b \in Admins : ~helper[b].attached => ~helper'[b].attached
      BY <2>1 DEF UpdateInv, Update!TypeOK, Update!StartHelper
    <3>3. NewerStaged'
      BY <1>1, <2>1 DEF NewerStaged
    <3>4. Safe("verify")' /\ Newer("verify")'
      BY <1>1, <3>1, <3>3
         DEF StepFits, Safe, Follows, Newer, Preparing, Swapped, GoingBack, GoneBack
    <3>5. ~cut /\ mishap = {} => Uncut("verify")'
      <4> SUFFICES ASSUME ~cut, mishap = {} PROVE Uncut("verify")'
        OBVIOUS
      <4>1. Uncut("none")
        BY <3>1 DEF StepFits
      <4>2. tree["prefix"] = backend /\ Update!Starts(backend)
        BY <1>1, <4>1, StartedTyped DEF Uncut, Update!Started
      <4>3. Update!Starts(before)'
        BY <1>1, <3>1, <4>2 DEF Update!Starts
      <4> QED  BY <1>1, <2>1, <3>1, <3>2, <4>1, <4>2, <4>3
                  DEF Uncut, Preparing, Swapped, GoingBack, GoneBack
    <3> QED  BY <1>1, <3>4, <3>5 DEF StepFits
  <2> QED  BY <1>2, <1>3, <1>4, <2>1, <2>2 DEF UpdateInv
<1>6. CASE Update!RequestRollback(a) /\ tree["old"] # Absent
  <2>1. Update!StartHelper(a, "rbEmpty", TRUE) /\ UNCHANGED status
    BY <1>6 DEF Update!RequestRollback
  <2>2. ASSUME Update!InOrder, Update!NoneHelping PROVE StepFits("rbEmpty")'
    <3>1. StepFits("none")
      BY <2>2 DEF UpdateInv, AloneFits
    <3>2. tree["old"] \in Working /\ (cut \/ mishap # {})
      BY <1>6, <3>1 DEF StepFits, Safe, Uncut, UpdateInv, Update!TypeOK
    <3> QED  BY <1>1, <3>1, <3>2
                DEF StepFits, Safe, Follows, Newer, Preparing, Swapped, GoingBack, GoneBack
  <2> QED  BY <1>2, <1>3, <1>4, <2>1, <2>2 DEF UpdateInv
<1>7. CASE Update!RequestRollback(a) /\ tree["old"] = Absent
  <2>1. status' = "failed" /\ UNCHANGED <<helper, alone, before>>
    BY <1>7 DEF Update!RequestRollback
  <2>2. \A s : StepFits(s) => StepFits(s)'
    BY <1>1, <2>1, StepsStayFit DEF NewerStaged
  <2>3. AloneFits'
    BY <1>1, <2>1, <2>2
       DEF UpdateInv, Update!TypeOK, AloneFits, Update!InOrder, Update!NoneHelping,
           Update!Helping, Only
  <2> QED  BY <1>2, <1>3, <2>3 DEF UpdateInv
<1> QED  BY <1>5, <1>6, <1>7

\* At whatever step the helper is, there is something to come back to.
LEMMA PowerLossKeeps ==
    ASSUME Update!VersionsAssumption, UpdateInv, Update!PowerLoss PROVE UpdateInv'
<1>0. PICK dirs \in SUBSET UNION {Update!Removes(helper[a].step) : a \in Admins} :
         tree' = Update!HalfDone(dirs)
  BY DEF Update!PowerLoss
<1>1. Update!TypeOK'
  <2>1. cuts' \in 0 .. MaxCuts /\ cut' \in BOOLEAN
    BY DEF UpdateInv, Update!TypeOK, Update!PowerLoss, Update!VersionsAssumption
  <2>2. tree' \in [Update!Dirs -> Update!Trees]
    BY <1>0, HalfDoneTyped DEF UpdateInv
  <2>3. backend' = Update!Started' /\ UNCHANGED service
    BY DEF Update!PowerLoss
  <2>4. backend' \in Versions \cup {Update!None}
    <3>1. Update!Started' # Update!None => tree'["prefix"] \in Versions
      BY Constants DEF Update!Started, Update!Starts
    <3> QED  BY <2>3, <3>1 DEF Update!Started
  <2>5. mishap' \subseteq Update!Mishaps
    BY DEF UpdateInv, Update!TypeOK, Update!PowerLoss, Update!Halved, Update!Mishaps
  <2> QED  BY <2>1, <2>2, <2>4, <2>5
              DEF UpdateInv, Update!TypeOK, Update!PowerLoss, Update!NoRequest,
                  Update!NoHelper, Update!HelperSteps
<1>2. RequestsNewer'
  BY DEF Update!PowerLoss, RequestsNewer, Update!NoRequest
<1>3. \A a \in Admins : ~Update!Helping(a)' /\ ~helper'[a].attached
  BY DEF Update!PowerLoss, Update!Helping, Update!NoHelper
<1>4. SUFFICES ASSUME Update!InOrder' PROVE StepFits("none")'
  BY <1>1, <1>2, <1>3 DEF UpdateInv, AloneFits
<1>5. Update!InOrder /\ "halved" \notin mishap'
  BY <1>4 DEF Update!PowerLoss, Update!InOrder
<1>6. tree'["old"] = tree["old"] /\ tree'["prefix"] = tree["prefix"]
  <2>1. dirs \subseteq {"new", "old"}
    BY DEF Update!Removes
  <2>2. tree'["old"] # Update!Partial
    BY <1>5 DEF Update!PowerLoss, Update!Halved
  <2> QED  BY <1>0, <2>1, <2>2, HalfDoneTyped DEF UpdateInv, Update!Dirs
<1>7. /\ backend' = Update!Started /\ Update!Started' = Update!Started
      /\ UNCHANGED <<service, status, before>>
  BY <1>6 DEF Update!PowerLoss, Update!Started, Update!Starts
<1>8. \A s \in Update!HelperSteps : Safe(s) => Safe("none")'
  <2> SUFFICES ASSUME NEW s \in Update!HelperSteps, Safe(s) PROVE Safe("none")'
    OBVIOUS
  <2>1. tree["prefix"] \in Working \/ tree["old"] \in Working
    BY DEF Safe, Follows, Update!HelperSteps, Preparing, Swapped, GoingBack, GoneBack
  <2>2. Follows'
    <3>1. backend' # Update!None => backend' = tree["prefix"] /\ tree["prefix"] \in Working
             /\ tree["prefix"] \in Nat
      BY <1>7, StartedTyped, Constants
    <3> QED  BY <1>6, <3>1 DEF Follows
  <2> QED  BY <1>6, <2>1, <2>2 DEF Safe, Preparing, Swapped, GoingBack, GoneBack
<1>9. CASE Update!NoneHelping
  <2>1. cut' = cut /\ StepFits("none")
    BY <1>5, <1>9 DEF Update!PowerLoss, UpdateInv, Update!TypeOK, AloneFits
  <2>2. mishap' = {} => mishap = {}
    BY DEF Update!PowerLoss
  <2>3. Safe("none")'
    BY <1>8, <2>1 DEF StepFits, Update!HelperSteps
  <2>4. ~cut /\ mishap = {} => Uncut("none")'
    BY <1>3, <1>6, <1>7, <2>1 DEF StepFits, Uncut, Preparing, Swapped, GoingBack, GoneBack
  <2> QED  BY <2>1, <2>2, <2>3, <2>4 DEF StepFits, Newer
<1>10. CASE ~Update!NoneHelping
  <2>1. cut' = TRUE
    BY <1>10 DEF Update!PowerLoss, UpdateInv, Update!TypeOK
  <2>2. \E s \in Update!HelperSteps : StepFits(s)
    BY <1>5, <1>10 DEF UpdateInv, Update!TypeOK, AloneFits, Update!NoneHelping
  <2> QED  BY <1>8, <2>1, <2>2 DEF StepFits, Newer
<1> QED  BY <1>9, <1>10

LEMMA UpdateNextFits ==
    ASSUME Update!VersionsAssumption, UpdateInv, [Update!Next]_(Update!vars) PROVE UpdateInv'
<1>1. CASE UNCHANGED Update!vars
  <2>1. \A s : StepFits(s) => StepFits(s)'
    BY <1>1, StepsStayFit DEF Update!vars, NewerStaged
  <2> QED  BY <1>1, <2>1
              DEF Update!vars, UpdateInv, Update!TypeOK, RequestsNewer, NewerStaged,
                  AloneFits, Update!InOrder, Update!NoneHelping, Update!Helping, Only
<1> QED  BY <1>1, HelpKeeps, StageKeeps, StartKeeps, PowerLossKeeps
            DEF Update!Next, Update!Handle

-----------------------------------------------------------------------------
\* opennas-update, "rather than leaving the machine with no OpenNAS at all":
\* whatever else fails, and whenever the power goes, helpers that run one at a time
\* leave a version to come back to, but for a restart that left the old process
\* running, half a tree in .old, and a tree that could not be moved back; and if
\* nothing of the kind happened and the power stayed on, a backend that answers,
\* unless the one put back does not start with the service files of the one that failed.
THEOREM AVersionRemains ==
    ASSUME Update!VersionsAssumption PROVE Update!Spec => []Update!WorkingVersionRemains
<1>1. Update!Init => UpdateInv
  BY UpdateInitFits
<1>2. UpdateInv /\ [Update!Next]_(Update!vars) => UpdateInv'
  BY UpdateNextFits
<1>3. UpdateInv => Update!WorkingVersionRemains
  <2> SUFFICES ASSUME UpdateInv PROVE Update!WorkingVersionRemains
    OBVIOUS
  <2>1. Update!InOrder => \E s \in Update!HelperSteps : StepFits(s)
    BY DEF UpdateInv, Update!TypeOK, AloneFits, Update!NoneHelping, Update!HelperSteps
  <2>2. \A s \in Update!HelperSteps :
          StepFits(s) => tree["prefix"] \in Working \/ tree["old"] \in Working
    BY DEF StepFits, Safe, Follows, Update!HelperSteps, Preparing, Swapped, GoingBack, GoneBack
  <2>3. Update!LeavesAWorkingVersion
    <3> SUFFICES ASSUME alone, ~cut, mishap = {}, Update!NoneHelping
                 PROVE  /\ tree["prefix"] \in Working
                        /\ status = "rolled_back" => tree["prefix"] = before
                        /\ \/ backend = tree["prefix"]
                           \/ /\ backend = Update!None /\ status = "rolled_back"
                              /\ ~Update!Starts(tree["prefix"])
      BY DEF Update!LeavesAWorkingVersion
    <3>1. Uncut("none")
      BY DEF UpdateInv, AloneFits, StepFits, Update!InOrder
    <3> QED  BY <3>1, StartedTyped DEF Uncut
  <2> QED  BY <2>1, <2>2, <2>3
              DEF Update!WorkingVersionRemains, Update!NeverWithoutOpenNAS, UpdateInv
<1> QED  BY <1>1, <1>2, <1>3, PTL DEF Update!Spec

\* checkForUpdate compares with the version that runs, and the tree that is
\* moved in later, perhaps of another request's download, is newer still: newer than
\* the tree it replaces, as long as that is of the version that runs or an older one,
\* which it is but after a restart that failed and left the old process running.
THEOREM OnlyNewerVersions ==
    ASSUME Update!VersionsAssumption PROVE Update!Spec => Update!NoDowngrade
<1>1. Update!Init => UpdateInv
  BY UpdateInitFits
<1>2. UpdateInv /\ [Update!Next]_(Update!vars) => UpdateInv'
  BY UpdateNextFits
<1>3. UpdateInv /\ [Update!Next]_(Update!vars) =>
        [ \A a \in Admins :
            (Update!InOrder /\ helper[a].step = "moveIn" /\ helper'[a].step = "install")
              => tree'["prefix"] > tree["old"] ]_(Update!vars)
  <2> SUFFICES ASSUME UpdateInv, Update!Next, NEW a \in Admins,
                      Update!InOrder /\ helper[a].step = "moveIn" /\ helper'[a].step = "install"
               PROVE  tree'["prefix"] > tree["old"]
    OBVIOUS
  <2>1. Only(a) /\ StepFits("moveIn")
    BY DEF UpdateInv, AloneFits, Update!Helping
  <2>2. Update!Help(a)
    <3>1. ~Update!PowerLoss
      <4>1. Update!PowerLoss => helper' = [b \in Admins |-> Update!NoHelper]
        BY DEF Update!PowerLoss
      <4> QED  BY <4>1 DEF Update!NoHelper
    <3>2. ASSUME NEW b \in Admins,
                 \/ \E v \in Versions : Update!RequestUpdate(b, v)
                 \/ Update!RequestRollback(b) \/ Update!Handle(b)
          PROVE  FALSE
      <4>1. UNCHANGED helper \/ Update!StartHelper(b, "verify", FALSE)
               \/ Update!StartHelper(b, "rbEmpty", TRUE)
        BY <3>2
           DEF Update!RequestUpdate, Update!RequestRollback, Update!Handle,
               Update!ClearStage, Update!DownloadFails, Update!WriteBundle,
               Update!WriteSignature, Update!HandOver
      <4> QED  BY <4>1 DEF Update!StartHelper, UpdateInv, Update!TypeOK
    <3>3. ASSUME NEW b \in Admins, Update!Help(b) PROVE Update!Help(a)
      <4>1. Update!Helping(b)
        BY <3>3, HelpSteps DEF UpdateInv
      <4> QED  BY <2>1, <3>3, <4>1 DEF Only
    <3> QED  BY <3>1, <3>2, <3>3 DEF Update!Next
  <2>3. Update!MoveIn(a)
    <3>1. ~Update!Dies(a)
      <4>1. Update!Dies(a) => Update!Exit(a)
        BY DEF Update!Dies
      <4> QED  BY <4>1, ExitTyped DEF UpdateInv
    <3> QED  BY <2>2, <3>1
                DEF Update!Help, Update!Verify, Update!EmptyNew, Update!Unpack,
                    Update!Prepare, Update!DropOld, Update!SetAside, Update!Install,
                    Update!Restart, Update!Probe, Update!Discard, Update!RollbackEmpty,
                    Update!RollbackSetAside, Update!RollbackMoveIn, Update!RollbackDrop,
                    Update!RollbackRestart, Update!RollbackReport
  <2>4. tree' = Update!Moved("new", "prefix")
    <3>1. ASSUME NEW what, Update!Fail(a, what) PROVE FALSE
      BY <3>1, ExitTyped DEF Update!Fail, UpdateInv
    <3> QED  BY <2>3, <3>1 DEF Update!MoveIn
  <2>5. /\ tree["prefix"] = Absent /\ tree["old"] <= backend /\ tree["new"] > backend
        /\ tree["old"] \in Nat /\ tree["new"] \in Nat /\ backend \in Nat
    BY <2>1, Constants DEF StepFits, Safe, Newer, UpdateInv, Update!TypeOK
  <2>6. tree'["prefix"] = tree["new"]
    BY <2>4, <2>5 DEF Update!Moved, UpdateInv, Update!TypeOK, Update!Dirs
  <2> QED  BY <2>5, <2>6
<1> QED  BY <1>1, <1>2, <1>3, PTL DEF Update!Spec, Update!NoDowngrade

-----------------------------------------------------------------------------
(* Both parts: a step of the tasks is none of the update *)

LEMMA UpdateIsPart == UpkeepSpec => Update!Spec
<1>1. UpkeepInit => Update!Init
  BY DEF UpkeepInit
<1>2. [UpkeepNext]_<<part, vars, updateVars>> => [Update!Next]_(Update!vars)
  BY DEF UpkeepNext, RunTasks, RunUpdate, updateVars, Update!vars, Update!history
<1> QED  BY <1>1, <1>2, PTL DEF UpkeepSpec, Update!Spec

\* Every instant of an update, whatever the scheduler does meanwhile, leaves a
\* version to come back to, but for the mishaps that WorkingVersionRemains names
\* (opennas-update's swap and its way back).
THEOREM UpkeepLeavesAVersion == UpkeepSpec => []WorkingVersionRemains
BY AVersionRemains, UpdateIsPart, UpdateAssumption, PTL DEF WorkingVersionRemains

\* What is moved in is newer than what was set aside, as long as that is what ran
\* (checkForUpdate).
THEOREM UpkeepNeverGoesBack == UpkeepSpec => NoDowngrade
BY OnlyNewerVersions, UpdateIsPart, UpdateAssumption, PTL DEF NoDowngrade

=============================================================================

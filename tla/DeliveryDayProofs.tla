--------------------------- MODULE DeliveryDayProofs ---------------------------
(***************************************************************************)
(* For every length of hours and days, every zone whose clock changes      *)
(* before the peak block, any series, gaps, prices and number of runs:     *)
(* the axis of timeaxis.py is sound, the facts of a run are what Bronze    *)
(* has of its days and of no others, the columns of generation add up, a   *)
(* delivery hour has one row of prices, both rankings of the battery       *)
(* signals name the same slots, and the API answers in the order of time,  *)
(* with every charge and discharge slot in one window.                     *)
(***************************************************************************)
EXTENDS DeliveryDay, FiniteSetTheorems, SequenceTheorems, TLAPS

------------------------------------------------------------------------------
(* Numbers.                                                                *)

LEMMA Quotient ==
    ASSUME NEW x \in Int, NEW n \in Nat \ {0}
    PROVE  x = n * (x \div n) + (x % n) /\ x \div n \in Int /\ x % n \in 0..n - 1
OBVIOUS

LEMMA QuotientIs ==
    ASSUME NEW n \in Nat \ {0}, NEW q \in Int, NEW r \in 0..n - 1
    PROVE  (n * q + r) \div n = q /\ (n * q + r) % n = r
OBVIOUS

LEMMA NoRemainder ==
    ASSUME NEW x \in Int, NEW n \in Nat \ {0}, x % n = 0
    PROVE  \E k \in Int : x = n * k
<1>1. x = n * (x \div n) + (x % n) /\ x \div n \in Int
  BY Quotient
<1>2. n * (x \div n) \in Int
  BY <1>1
<1>3. QED
  BY <1>1, <1>2

LEMMA Multiples ==
    ASSUME NEW n \in Nat \ {0}, NEW i \in Int, NEW j \in Int
    PROVE  /\ n * i \in Int
           /\ i <= j <=> n * i <= n * j
           /\ n * (i + j) = n * i + n * j
           /\ n * (i - j) = n * i - n * j
           /\ n * (i + 1) = n * i + n
OBVIOUS

LEMMA LengthOfDay ==
    /\ INTERVALS_PER_HOUR \in Nat \ {0} /\ DayHours \in Nat \ {0}
    /\ DayLength \in Nat \ {0}
    /\ DayLength = INTERVALS_PER_HOUR * DayHours
<1>1. INTERVALS_PER_HOUR \in Nat \ {0} /\ DayHours \in Nat \ {0}
  BY AxisAssumption
<1>2. QED
  BY <1>1 DEF DayLength

LEMMA MinMaxOfTwo ==
    ASSUME NEW a \in Int, NEW b \in Int
    PROVE  /\ Min({a, b}) = IF a <= b THEN a ELSE b
           /\ Max({a, b}) = IF a <= b THEN b ELSE a
BY DEF Min, Max

LEMMA SameSize ==
    ASSUME NEW S, NEW T, IsFiniteSet(S), NEW f \in [S -> T],
           \A x, y \in S : f[x] = f[y] => x = y,
           \A t \in T : \E x \in S : f[x] = t
    PROVE  IsFiniteSet(T) /\ Cardinality(T) = Cardinality(S)
<1>1. f \in Bijection(S, T)
  BY DEF Bijection, Injection, Surjection, IsInjective
<1>2. QED
  BY <1>1, FS_Bijection DEF ExistsBijection

------------------------------------------------------------------------------
(* The axis of a zone.                                                     *)

(* A zone whose clock changes on the hour, and not across a midnight.      *)
GoodZone(z) ==
    /\ z \in [change : Int, before : 0..DayHours, after : 0..DayHours]
    /\ z.change % INTERVALS_PER_HOUR = 0
    /\ \A d \in Int :
         ~ /\ z.change + INTERVALS_PER_HOUR * Min({z.before, z.after}) < DayLength * d
           /\ DayLength * d < z.change + INTERVALS_PER_HOUR * Max({z.before, z.after})

LEMMA ZonesAreGood ==
    ASSUME NEW z \in Zones
    PROVE  GoodZone(z)
<1> DEFINE first == z.change + INTERVALS_PER_HOUR * Min({z.before, z.after})
           last == z.change + INTERVALS_PER_HOUR * Max({z.before, z.after})
<1>1. /\ z \in [change : Int, before : 0..DayHours, after : 0..DayHours]
      /\ z.change % INTERVALS_PER_HOUR = 0
      /\ z.before # z.after =>
             last <= (first \div DayLength) * DayLength + INTERVALS_PER_HOUR * PeakStart
  BY ZoneAssumption
<1>0. z.change \in Int /\ z.before \in Int /\ z.after \in Int
  BY <1>1, LengthOfDay
<1>2. Min({z.before, z.after}) \in Int /\ Max({z.before, z.after}) \in Int
  BY <1>0, MinMaxOfTwo
<1>3. first \in Int /\ last \in Int
  BY <1>0, <1>2, LengthOfDay
<1>4. ASSUME NEW d \in Int, first < DayLength * d, DayLength * d < last
      PROVE  FALSE
  <2>1. z.before # z.after
    <3> SUFFICES ASSUME z.before = z.after
                 PROVE  FALSE
      OBVIOUS
    <3>1. first = last
      BY <1>0, MinMaxOfTwo
    <3> HIDE DEF first, last
    <3>2. QED
      BY <1>3, <1>4, <3>1, LengthOfDay
  <2> DEFINE q == first \div DayLength
  <2>2. q \in Int /\ DayLength * q <= first /\ first < DayLength * q + DayLength
    <3> HIDE DEF first
    <3>1. first = DayLength * q + (first % DayLength) /\ q \in Int
      BY <1>3, Quotient, LengthOfDay
    <3>2. first % DayLength \in 0..DayLength - 1
      BY <1>3, Quotient, LengthOfDay
    <3>3. DayLength * q \in Int
      BY <3>1, LengthOfDay
    <3> HIDE DEF q
    <3>4. QED
      BY <3>1, <3>2, <3>3, LengthOfDay
  <2>3. INTERVALS_PER_HOUR * PeakStart <= DayLength /\ INTERVALS_PER_HOUR * PeakStart \in Int
    BY DayAssumption, LengthOfDay, Multiples
  <2>4. last <= DayLength * q + INTERVALS_PER_HOUR * PeakStart
    BY <1>1, <2>1, <2>2, LengthOfDay
  <2> HIDE DEF first, last, q
  <2>5. DayLength * q < DayLength * d /\ DayLength * d < DayLength * (q + 1)
    BY <1>3, <1>4, <2>2, <2>3, <2>4, LengthOfDay
  <2>6. q < d /\ d < q + 1
    BY <2>2, <2>5, LengthOfDay, Multiples
  <2>7. QED
    BY <2>2, <2>6
<1>5. QED
  BY <1>1, <1>4 DEF GoodZone

(* The types of what is computed from an instant. *)
LEMMA LocalIsInt ==
    ASSUME NEW z, GoodZone(z), NEW u \in Int
    PROVE  /\ Offset(z, u) \in 0..DayHours
           /\ INTERVALS_PER_HOUR * Offset(z, u) \in 0..DayLength
           /\ Local(z, u) \in Int
           /\ LocalDate(z, u) \in Int
           /\ LocalTimeId(z, u) \in 0..DayLength - 1
           /\ Local(z, u) = DayLength * LocalDate(z, u) + LocalTimeId(z, u)
<1>1. Offset(z, u) \in 0..DayHours
  BY DEF GoodZone, Offset
<1>2. INTERVALS_PER_HOUR * Offset(z, u) \in 0..DayLength
  BY <1>1, LengthOfDay, Multiples
<1>3. Local(z, u) \in Int
  BY <1>2, LengthOfDay DEF Local
<1>4. QED
  BY <1>1, <1>2, <1>3, Quotient, LengthOfDay DEF LocalDate, LocalTimeId

(* local_midnight_utc finds the first instant whose clock shows the day, or *)
(* a later one.                                                            *)
LEMMA MidnightIsFirst ==
    ASSUME NEW z, GoodZone(z), NEW d \in Int, NEW u \in Int
    PROVE  /\ LocalMidnight(z, d) \in Int
           /\ LocalMidnight(z, d) <= u <=> DayLength * d <= Local(z, u)
<1> DEFINE b == INTERVALS_PER_HOUR * z.before
           a == INTERVALS_PER_HOUR * z.after
           w == DayLength * d
<1>1. /\ z.change \in Int /\ z.before \in Int /\ z.after \in Int
      /\ a \in Int /\ b \in Int /\ w \in Int
  BY LengthOfDay DEF GoodZone
<1>2. z.before <= z.after <=> b <= a
  BY <1>1, LengthOfDay, Multiples
<1>3. INTERVALS_PER_HOUR * Max({z.before, z.after}) = (IF b <= a THEN a ELSE b)
  BY <1>1, <1>2, MinMaxOfTwo
<1>4. INTERVALS_PER_HOUR * Min({z.before, z.after}) = (IF b <= a THEN b ELSE a)
  BY <1>1, <1>2, MinMaxOfTwo
<1>5. ~ /\ z.change + (IF b <= a THEN b ELSE a) < w
        /\ w < z.change + (IF b <= a THEN a ELSE b)
  BY <1>3, <1>4 DEF GoodZone
<1>6. d * DayLength = w
  BY LengthOfDay
<1>7. LocalMidnight(z, d) = IF w >= z.change + (IF b <= a THEN a ELSE b)
                            THEN w - a ELSE w - b
  BY <1>3, <1>6 DEF LocalMidnight
<1>8. Local(z, u) = IF u < z.change THEN u + b ELSE u + a
  BY DEF Local, Offset
<1> HIDE DEF a, b, w
<1>9. /\ LocalMidnight(z, d) \in Int
      /\ LocalMidnight(z, d) <= u <=> w <= Local(z, u)
  BY <1>1, <1>5, <1>7, <1>8
<1>10. QED
  BY <1>9 DEF w

(* "the single source of truth": the instants of a day are those that      *)
(* from_utc_timestamp puts on it.                                          *)
LEMMA DayInstantsAre ==
    ASSUME NEW z, GoodZone(z), NEW d \in Int, NEW u \in Int
    PROVE  u \in DayInstants(z, d) <=> LocalDate(z, u) = d
<1>1. LocalMidnight(z, d) \in Int /\ LocalMidnight(z, d + 1) \in Int
  BY MidnightIsFirst
<1>2. u \in DayInstants(z, d) <=> /\ DayLength * d <= Local(z, u)
                                 /\ ~ (DayLength * (d + 1) <= Local(z, u))
  BY <1>1, MidnightIsFirst DEF DayInstants
<1> DEFINE q == LocalDate(z, u)
           r == LocalTimeId(z, u)
<1>3. q \in Int /\ r \in 0..DayLength - 1 /\ Local(z, u) = DayLength * q + r
  BY LocalIsInt
<1> HIDE DEF q, r
<1>4. DayLength * (d + 1) = DayLength * d + DayLength /\ DayLength * d \in Int
  BY LengthOfDay, Multiples
<1>5. CASE q = d
  BY <1>2, <1>3, <1>4, <1>5, LengthOfDay DEF q
<1>6. CASE q < d
  <2>1. DayLength * (q + 1) <= DayLength * d /\ DayLength * (q + 1) = DayLength * q + DayLength
    BY <1>3, <1>6, LengthOfDay, Multiples
  <2>2. DayLength * q \in Int
    BY <1>3, LengthOfDay
  <2>3. ~ (DayLength * d <= Local(z, u))
    BY <1>3, <1>4, <2>1, <2>2, LengthOfDay
  <2>4. QED
    BY <1>2, <1>6, <2>3, <1>3 DEF q
<1>7. CASE q > d
  <2>1. DayLength * (d + 1) <= DayLength * q
    BY <1>3, <1>7, LengthOfDay, Multiples
  <2>2. DayLength * q \in Int
    BY <1>3, LengthOfDay
  <2>3. DayLength * (d + 1) <= Local(z, u)
    BY <1>3, <1>4, <2>1, <2>2, LengthOfDay
  <2>4. QED
    BY <1>2, <1>7, <2>3, <1>3 DEF q
<1>8. QED
  BY <1>3, <1>5, <1>6, <1>7

(* An instant lies in one hour, the one that HourStart names.              *)
LEMMA HourOf ==
    ASSUME NEW z, NEW u \in Int
    PROVE  /\ HourStart(z, u) \in Int
           /\ HourStart(z, u) % INTERVALS_PER_HOUR = 0
           /\ u \in HourStart(z, u)..HourStart(z, u) + INTERVALS_PER_HOUR - 1
           /\ \A h \in Int :
                h % INTERVALS_PER_HOUR = 0 /\ u \in h..h + INTERVALS_PER_HOUR - 1
                    => HourStart(z, u) = h
<1> DEFINE n == INTERVALS_PER_HOUR
           q == u \div n
           r == u % n
<1>1. n \in Nat \ {0}
  BY LengthOfDay
<1>2. u = n * q + r /\ q \in Int /\ r \in 0..n - 1
  BY <1>1, Quotient
<1>3. HourStart(z, u) = u - r
  BY DEF HourStart
<1> HIDE DEF n, q, r
<1>4. HourStart(z, u) = n * q + 0 /\ n * q \in Int
  BY <1>1, <1>2, <1>3
<1>5. 0 \in 0..n - 1
  BY <1>1
<1>6. (n * q + 0) % n = 0
  BY <1>1, <1>2, <1>5, QuotientIs
<1>7. ASSUME NEW h \in Int, h % n = 0, u \in h..h + n - 1
      PROVE  HourStart(z, u) = h
  <2>2. PICK k \in Int : h = n * k
    BY <1>1, <1>7, NoRemainder
  <2>3. u - h \in 0..n - 1 /\ u = n * k + (u - h)
    BY <1>1, <1>7, <2>2
  <2>4. (n * k + (u - h)) % n = u - h
    BY <1>1, <2>3, QuotientIs
  <2>5. u % n = u - h
    BY <2>3, <2>4
  <2>6. QED
    BY <1>3, <2>5 DEF r
<1>8. /\ HourStart(z, u) \in Int /\ HourStart(z, u) % n = 0
      /\ u \in HourStart(z, u)..HourStart(z, u) + n - 1
  <2>1. HourStart(z, u) \in Int /\ HourStart(z, u) % n = 0
    BY <1>4, <1>6
  <2>2. u = HourStart(z, u) + r
    BY <1>2, <1>3
  <2>3. QED
    BY <1>1, <1>2, <2>1, <2>2
<1>9. QED
  BY <1>7, <1>8 DEF n

(* All instants of an hour have the date and the clock of its first.       *)
LEMMA HourHasOneLabel ==
    ASSUME NEW z, GoodZone(z), NEW h \in Int, h % INTERVALS_PER_HOUR = 0,
           NEW u \in h..h + INTERVALS_PER_HOUR - 1
    PROVE  /\ Offset(z, u) = Offset(z, h)
           /\ LocalDate(z, u) = LocalDate(z, h)
           /\ ClockHour(z, u) = LocalTimeId(z, h)
           /\ ClockHour(z, h) = LocalTimeId(z, h)
           /\ LocalHour(z, u) = LocalHour(z, h)
           /\ LocalHour(z, h) \in 0..DayHours - 1
           /\ LocalTimeId(z, u) = LocalTimeId(z, h) + (u - h)
<1> DEFINE n == INTERVALS_PER_HOUR
           r == u - h
<1>1. n \in Nat \ {0} /\ DayHours \in Nat \ {0} /\ DayLength = n * DayHours
  BY LengthOfDay
<1>2. u \in Int /\ r \in 0..n - 1 /\ u = h + r
  BY <1>1
<1>3. PICK k \in Int : h = n * k
  BY <1>1, NoRemainder
<1>4. PICK c \in Int : z.change = n * c
  <2>1. z.change \in Int /\ z.change % n = 0
    BY DEF GoodZone
  <2>2. QED
    BY <1>1, <2>1, NoRemainder
<1>5. u < z.change <=> h < z.change
  <2>1. n * k < n * c => n * (k + 1) <= n * c
    BY <1>1, Multiples
  <2>2. n * (k + 1) = n * k + n /\ n * k \in Int /\ n * c \in Int
    BY <1>1, Multiples
  <2> DEFINE x == n * k
             y == n * c
  <2>3. x < y => x + n <= y
    BY ONLY <2>1, <2>2
  <2>5. x \in Int /\ y \in Int /\ h = x /\ z.change = y
    BY <1>3, <1>4, <2>2
  <2> HIDE DEF r, n, x, y
  <2>4. QED
    BY <1>1, <1>2, <2>3, <2>5
<1>6. Offset(z, u) = Offset(z, h)
  BY <1>5 DEF Offset
<1> DEFINE o == Offset(z, h)
           q == LocalDate(z, h)
           t == LocalTimeId(z, h)
<1>7. /\ o \in Int /\ q \in Int /\ t \in 0..DayLength - 1
      /\ Local(z, h) = h + n * o /\ Local(z, h) = DayLength * q + t
      /\ Local(z, u) = u + n * o
  BY <1>1, <1>6, LocalIsInt DEF Local
<1> DEFINE j == k + o - DayHours * q
<1>8. j \in Int /\ t = n * j
  <2>1. DayLength * q = n * (DayHours * q)
    BY <1>1, <1>7
  <2>2. DayHours * q \in Int
    BY <1>1, <1>7
  <2> DEFINE p == DayHours * q
  <2> HIDE DEF o, q, t, p, n
  <2>3. t = n * k + n * o - n * p
    BY <1>1, <1>3, <1>7, <2>1, <2>2 DEF p
  <2>4. n * (k + o) = n * k + n * o /\ n * ((k + o) - p) = n * (k + o) - n * p
    BY <1>1, <1>3, <1>7, <2>2, Multiples DEF p
  <2>5. t = n * ((k + o) - p)
    <3>1. n * k \in Int /\ n * o \in Int /\ n * p \in Int
      BY <1>1, <1>3, <1>7, <2>2 DEF p
    <3>2. QED
      BY <2>3, <2>4, <3>1
  <2>6. QED
    BY <1>3, <1>7, <2>2, <2>5 DEF p
<1> HIDE DEF o, q, t, n, r, j
<1>9. j \in 0..DayHours - 1
  <2>1. n * 0 <= n * j /\ n * j < n * DayHours
    BY <1>1, <1>7, <1>8
  <2>2. 0 <= j /\ j < DayHours
    BY <1>1, <1>8, <2>1, Multiples
  <2>3. QED
    BY <1>1, <1>8, <2>2
<1>10. n * j + r \in 0..DayLength - 1
  <2>1. n * (j + 1) <= n * DayHours /\ n * (j + 1) = n * j + n /\ 0 <= n * j
    BY <1>1, <1>9, Multiples
  <2>2. n * j \in Int
    BY <1>1, <1>9
  <2>3. QED
    BY <1>1, <1>2, <2>1, <2>2
<1>11. Local(z, u) = DayLength * q + (n * j + r)
  <2>1. Local(z, u) = Local(z, h) + r
    BY <1>1, <1>2, <1>7
  <2>2. QED
    BY <1>1, <1>2, <1>7, <1>8, <2>1
<1>12. LocalDate(z, u) = q /\ LocalTimeId(z, u) = n * j + r
  <2> DEFINE s == n * j + r
  <2>1. s \in 0..DayLength - 1 /\ Local(z, u) = DayLength * q + s
    BY <1>10, <1>11
  <2> HIDE DEF s
  <2>2. (DayLength * q + s) \div DayLength = q /\ (DayLength * q + s) % DayLength = s
    BY <1>7, <2>1, QuotientIs, LengthOfDay
  <2>3. QED
    BY <2>1, <2>2 DEF LocalDate, LocalTimeId, s
<1>13. LocalHour(z, u) = j
  BY <1>1, <1>2, <1>8, <1>12, QuotientIs DEF LocalHour, n
<1>14. LocalHour(z, h) = j
  <2>1. 0 \in 0..n - 1 /\ t = n * j + 0
    BY <1>1, <1>8
  <2>2. (n * j + 0) \div n = j
    BY <1>1, <1>8, <2>1, QuotientIs
  <2>3. QED
    BY <2>1, <2>2 DEF LocalHour, n, t
<1>15. ClockHour(z, u) = t /\ ClockHour(z, h) = t
  BY <1>1, <1>8, <1>13, <1>14 DEF ClockHour, n
<1>16. QED
  BY <1>6, <1>8, <1>9, <1>12, <1>13, <1>14, <1>15 DEF q, t, n, r

LEMMA HoursOfDay == DayLength % INTERVALS_PER_HOUR = 0
<1>1. 0 \in 0..INTERVALS_PER_HOUR - 1 /\ DayLength = INTERVALS_PER_HOUR * DayHours + 0
  BY LengthOfDay
<1>2. QED
  BY <1>1, QuotientIs, LengthOfDay

(* A day of the model lies within the instants of the model.               *)
LEMMA DaysWithinBounds ==
    ASSUME NEW z, GoodZone(z), NEW d \in 1..LastDay, NEW u \in Int, LocalDate(z, u) = d
    PROVE  u \in 0..(LastDay + 1) * DayLength - 1 /\ u < DayLength * (d + 1)
<1> DEFINE o == INTERVALS_PER_HOUR * Offset(z, u)
           m == DayLength * d
<1>1. /\ o \in 0..DayLength /\ LocalTimeId(z, u) \in 0..DayLength - 1
      /\ u + o = m + LocalTimeId(z, u)
  BY LocalIsInt DEF Local
<1>2. d \in Int /\ LastDay \in Int /\ DayLength \in Nat \ {0}
  BY DayAssumption, LengthOfDay
<1>3. DayLength * 1 <= m /\ m <= DayLength * LastDay /\ m \in Int
  BY <1>2, Multiples
<1>4. (LastDay + 1) * DayLength = DayLength * LastDay + DayLength
  BY <1>2
<1>5. DayLength * (d + 1) = m + DayLength
  BY <1>2, Multiples
<1>6. DayLength * LastDay \in Int
  BY <1>2
<1> HIDE DEF o, m
<1>7. QED
  BY <1>1, <1>2, <1>3, <1>4, <1>5, <1>6

LEMMA DayInstantsFinite ==
    ASSUME NEW z, GoodZone(z), NEW d \in Int
    PROVE  /\ IsFiniteSet(DayInstants(z, d))
           /\ DayInstants(z, d) \subseteq Int
           /\ LocalMidnight(z, d) \in Int
           /\ LocalMidnight(z, d) <= LocalMidnight(z, d + 1)
           /\ Cardinality(DayInstants(z, d)) = LocalMidnight(z, d + 1) - LocalMidnight(z, d)
<1> DEFINE m == LocalMidnight(z, d)
           n == LocalMidnight(z, d + 1)
<1>1. m \in Int /\ n \in Int
  BY MidnightIsFirst
<1>2. m <= n
  <2>1. DayLength * (d + 1) <= Local(z, n)
    BY <1>1, MidnightIsFirst
  <2>2. DayLength * d <= DayLength * (d + 1) /\ DayLength * d \in Int /\ DayLength * (d + 1) \in Int
    BY Multiples, LengthOfDay
  <2>3. Local(z, n) \in Int
    BY <1>1, LocalIsInt
  <2>4. DayLength * d <= Local(z, n)
    BY <2>1, <2>2, <2>3
  <2>5. QED
    BY <1>1, <2>4, MidnightIsFirst
<1> HIDE DEF m, n
<1>3. IsFiniteSet(m..n - 1) /\ Cardinality(m..n - 1) = n - m
  <2>1. n - 1 \in Int
    BY <1>1
  <2>2. /\ IsFiniteSet(m..n - 1)
        /\ Cardinality(m..n - 1) = IF m > n - 1 THEN 0 ELSE n - 1 - m + 1
    BY <1>1, <2>1, FS_Interval
  <2>3. QED
    BY <1>1, <1>2, <2>2
<1>4. DayInstants(z, d) = m..n - 1
  BY DEF DayInstants, m, n
<1>5. QED
  BY <1>1, <1>2, <1>3, <1>4 DEF m, n

(* No two rows of dim_datetime have the same instant; a clock shows a time *)
(* twice a day at most, and the second time is marked.                     *)
LEMMA LabelsDiffer ==
    ASSUME NEW z, GoodZone(z), NEW d \in Int,
           NEW u \in DayInstants(z, d), NEW v \in DayInstants(z, d), u < v,
           LocalTimeId(z, u) = LocalTimeId(z, v)
    PROVE  ~ IntervalAt(z, d, u).is_repeated_hour /\ IntervalAt(z, d, v).is_repeated_hour
<1>1. /\ u \in Int /\ v \in Int /\ LocalMidnight(z, d) \in Int
      /\ LocalMidnight(z, d) <= u
  BY DayInstantsFinite, MidnightIsFirst DEF DayInstants
<1>2. IntervalAt(z, d, v).is_repeated_hour
  <2>1. u \in LocalMidnight(z, d)..v - 1
    BY <1>1
  <2>2. QED
    BY <2>1 DEF IntervalAt
<1>3. ASSUME NEW x \in DayInstants(z, d), NEW y \in DayInstants(z, d),
             LocalTimeId(z, x) = LocalTimeId(z, y)
      PROVE  Local(z, x) = Local(z, y) /\ x \in Int /\ y \in Int
  <2>1. x \in Int /\ y \in Int
    BY DayInstantsFinite
  <2>2. LocalDate(z, x) = d /\ LocalDate(z, y) = d
    BY <2>1, DayInstantsAre
  <2>3. QED
    BY <1>3, <2>1, <2>2, LocalIsInt
<1> DEFINE a == INTERVALS_PER_HOUR * z.after
           b == INTERVALS_PER_HOUR * z.before
<1>4. a \in Int /\ b \in Int /\ z.change \in Int
  BY LengthOfDay DEF GoodZone
<1>5. \A x \in Int : Local(z, x) = IF x < z.change THEN x + b ELSE x + a
  BY DEF Local, Offset
<1> HIDE DEF a, b
<1>6. u < z.change
  <2>1. Local(z, u) = Local(z, v)
    BY <1>3
  <2>2. QED
    BY <1>1, <1>4, <1>5, <2>1
<1>7. ASSUME NEW seen \in LocalMidnight(z, d)..u - 1,
             LocalTimeId(z, seen) = LocalTimeId(z, u)
      PROVE  FALSE
  <2>1. seen \in Int /\ seen < u
    BY <1>1
  <2>2. seen \in DayInstants(z, d)
    BY <1>1, <2>1, MidnightIsFirst DEF DayInstants
  <2>3. Local(z, seen) = Local(z, u)
    BY <1>3, <1>7, <2>2
  <2>4. QED
    BY <1>1, <1>4, <1>5, <1>6, <2>1, <2>3
<1>8. QED
  BY <1>2, <1>7 DEF IntervalAt

(* The rows of the axis: one for each instant of its days.                 *)
LEMMA IntervalsAre ==
    ASSUME NEW z, GoodZone(z), NEW d \in Int, NEW u \in DayInstants(z, d)
    PROVE  /\ IntervalAt(z, d, u).timestamp_utc = u
           /\ IntervalAt(z, d, u).date_id = d
           /\ IntervalAt(z, d, u).interval_of_day = u - LocalMidnight(z, d) + 1
           /\ IntervalAt(z, d, u).local_time_id = LocalTimeId(z, u)
<1>1. u \in Int
  BY DayInstantsFinite
<1>2. QED
  BY <1>1, DayInstantsAre DEF IntervalAt

(* Where the peak block is, the clock of the day has changed if it does.   *)
LEMMA PeakComesAfter ==
    ASSUME NEW z \in Zones, NEW d \in Int, z.before # z.after,
           z.change + INTERVALS_PER_HOUR * Max({z.before, z.after}) <= DayLength * (d + 1)
    PROVE  z.change + INTERVALS_PER_HOUR * Max({z.before, z.after})
               <= DayLength * d + INTERVALS_PER_HOUR * PeakStart
<1> DEFINE first == z.change + INTERVALS_PER_HOUR * Min({z.before, z.after})
           last == z.change + INTERVALS_PER_HOUR * Max({z.before, z.after})
           p == INTERVALS_PER_HOUR * PeakStart
           q == first \div DayLength
<1>1. last <= q * DayLength + p
  BY ZoneAssumption
<1>2. z.change \in Int /\ z.before \in Int /\ z.after \in Int
  BY ZoneAssumption, LengthOfDay
<1>3. first \in Int /\ last \in Int /\ first < last
  <2>1. Min({z.before, z.after}) \in Int /\ Max({z.before, z.after}) \in Int
        /\ Min({z.before, z.after}) < Max({z.before, z.after})
    BY <1>2, MinMaxOfTwo
  <2> DEFINE x == INTERVALS_PER_HOUR * Min({z.before, z.after})
             y == INTERVALS_PER_HOUR * Max({z.before, z.after})
  <2>2. x < y /\ x \in Int /\ y \in Int
    BY <2>1, LengthOfDay, Multiples
  <2>3. first = z.change + x /\ last = z.change + y
    OBVIOUS
  <2> HIDE DEF x, y, first, last
  <2>4. QED
    BY <1>2, <2>2, <2>3
<1>4. p \in Int
  BY DayAssumption, LengthOfDay
<1> HIDE DEF first, last, p
<1>5. /\ first = DayLength * q + (first % DayLength)
      /\ q \in Int /\ first % DayLength \in 0..DayLength - 1
  BY <1>3, Quotient, LengthOfDay
<1> HIDE DEF q
<1>6. DayLength * q \in Int /\ DayLength * d \in Int /\ DayLength * (d + 1) \in Int
  BY <1>5, LengthOfDay
<1>7. q * DayLength = DayLength * q
  BY <1>5, LengthOfDay
<1>8. DayLength * q < DayLength * (d + 1)
  <2>1. last <= DayLength * (d + 1)
    BY DEF last
  <2>2. QED
    BY <1>3, <1>5, <1>6, <2>1, LengthOfDay
<1>9. q < d + 1
  BY <1>5, <1>8, Multiples, LengthOfDay
<1>10. DayLength * q <= DayLength * d
  BY <1>5, <1>9, Multiples, LengthOfDay
<1>11. last <= DayLength * d + p
  BY <1>1, <1>3, <1>4, <1>6, <1>7, <1>10
<1>12. QED
  BY <1>11 DEF last, p

(* From the peak hours of a day on, its clock is as far from the next      *)
(* midnight as it shows.                                                   *)
LEMMA PeakIsBeforeMidnight ==
    ASSUME NEW z \in Zones, NEW d \in Int, NEW u \in Int,
           NEW t \in INTERVALS_PER_HOUR * PeakStart..DayLength - 1
    PROVE  Local(z, u) = DayLength * d + t <=> u = LocalMidnight(z, d + 1) - DayLength + t
<1> DEFINE b == INTERVALS_PER_HOUR * z.before
           a == INTERVALS_PER_HOUR * z.after
           w == DayLength * d
           v == DayLength * (d + 1)
           p == INTERVALS_PER_HOUR * PeakStart
<1>0. GoodZone(z)
  BY ZonesAreGood
<1>1. /\ z.change \in Int /\ z.before \in Int /\ z.after \in Int
      /\ a \in Int /\ b \in Int /\ w \in Int
  BY <1>0, LengthOfDay DEF GoodZone
<1>2. p \in Int /\ t \in Int /\ t < DayLength /\ p <= t
  BY DayAssumption, LengthOfDay
<1>3. z.before <= z.after <=> b <= a
  BY <1>1, LengthOfDay, Multiples
<1>4. z.before = z.after <=> b = a
  BY <1>1, LengthOfDay, Multiples
<1>5. INTERVALS_PER_HOUR * Max({z.before, z.after}) = (IF b <= a THEN a ELSE b)
  BY <1>1, <1>3, MinMaxOfTwo
<1>6. INTERVALS_PER_HOUR * Min({z.before, z.after}) = (IF b <= a THEN b ELSE a)
  BY <1>1, <1>3, MinMaxOfTwo
<1>7. d + 1 \in Int /\ v = w + DayLength /\ (d + 1) * DayLength = v /\ v \in Int
  BY LengthOfDay, Multiples
<1>8. ~ /\ z.change + (IF b <= a THEN b ELSE a) < v
        /\ v < z.change + (IF b <= a THEN a ELSE b)
  BY <1>0, <1>5, <1>6, <1>7 DEF GoodZone
<1>9. LocalMidnight(z, d + 1) = IF v >= z.change + (IF b <= a THEN a ELSE b)
                                THEN v - a ELSE v - b
  BY <1>5, <1>7 DEF LocalMidnight
<1>10. b # a /\ z.change + (IF b <= a THEN a ELSE b) <= v
           => z.change + (IF b <= a THEN a ELSE b) <= w + p
  BY <1>4, <1>5, PeakComesAfter
<1>11. Local(z, u) = IF u < z.change THEN u + b ELSE u + a
  BY DEF Local, Offset
<1> DEFINE m == LocalMidnight(z, d + 1)
           x == Local(z, u)
           c == z.change
<1>12. /\ c \in Int /\ DayLength \in Nat \ {0}
       /\ m = IF v >= c + (IF b <= a THEN a ELSE b) THEN v - a ELSE v - b
       /\ x = IF u < c THEN u + b ELSE u + a
       /\ ~ /\ c + (IF b <= a THEN b ELSE a) < v
            /\ v < c + (IF b <= a THEN a ELSE b)
       /\ b # a /\ c + (IF b <= a THEN a ELSE b) <= v
              => c + (IF b <= a THEN a ELSE b) <= w + p
  BY <1>1, <1>8, <1>9, <1>10, <1>11, LengthOfDay
<1> HIDE DEF a, b, w, v, p, m, x, c
<1>13. x = w + t <=> u = m - DayLength + t
  BY <1>1, <1>2, <1>7, <1>12
<1>14. QED
  BY <1>13 DEF x, w, m

LEMMA DayIntervalsCount ==
    ASSUME NEW z, GoodZone(z), NEW d \in Int
    PROVE  /\ Cardinality(DayIntervals(z, d)) = LocalMidnight(z, d + 1) - LocalMidnight(z, d)
           /\ \A i : i \in DayIntervals(z, d)
                   <=> \E u \in DayInstants(z, d) : i = IntervalAt(z, d, u)
<1>1. /\ IsFiniteSet(DayInstants(z, d))
      /\ Cardinality(DayInstants(z, d)) = LocalMidnight(z, d + 1) - LocalMidnight(z, d)
  BY DayInstantsFinite
<1> DEFINE f == [u \in DayInstants(z, d) |-> IntervalAt(z, d, u)]
<1>2. /\ f \in [DayInstants(z, d) -> DayIntervals(z, d)]
      /\ \A i \in DayIntervals(z, d) : \E u \in DayInstants(z, d) : f[u] = i
  BY DEF DayIntervals
<1>3. Cardinality(DayIntervals(z, d)) = Cardinality(DayInstants(z, d))
  <2>1. ASSUME NEW u \in DayInstants(z, d), NEW v \in DayInstants(z, d), f[u] = f[v]
        PROVE  u = v
    BY <2>1 DEF IntervalAt
  <2> HIDE DEF f
  <2>2. QED
    BY <1>1, <1>2, <2>1, SameSize
<1>4. QED
  BY <1>1, <1>3 DEF DayIntervals

(* The peak block in numbers of intervals, on days of any length.          *)
LEMMA PeakBlock ==
    ASSUME NEW z \in Zones, NEW d \in Int
    PROVE  LET shift == Cardinality(DayIntervals(z, d)) - DayLength
           IN  PeakIntervals(z, d, PeakStart, PeakEnd)
                   = INTERVALS_PER_HOUR * PeakStart + 1 + shift..INTERVALS_PER_HOUR * PeakEnd + shift
<1> DEFINE m == LocalMidnight(z, d)
           n == LocalMidnight(z, d + 1)
           p == INTERVALS_PER_HOUR * PeakStart
           e == INTERVALS_PER_HOUR * PeakEnd
           shift == Cardinality(DayIntervals(z, d)) - DayLength
           Block == p + 1 + shift..e + shift
<1>1. GoodZone(z)
  BY ZonesAreGood
<1>2. m \in Int /\ n \in Int /\ m <= n /\ Cardinality(DayIntervals(z, d)) = n - m
  BY <1>1, DayInstantsFinite, DayIntervalsCount
<1>3. /\ p \in Int /\ e \in Int /\ e <= DayLength /\ 0 <= p
      /\ PeakStart \in Int /\ PeakEnd \in Int
  <2>1. /\ PeakStart \in 0..DayHours /\ PeakEnd \in 0..DayHours
        /\ DayLength = INTERVALS_PER_HOUR * DayHours /\ DayHours \in Int
    BY DayAssumption, LengthOfDay
  <2>2. QED
    BY <2>1, LengthOfDay, Multiples
<1>4. shift = n - m - DayLength /\ shift \in Int /\ DayLength \in Nat \ {0}
  BY <1>2, LengthOfDay
(* The peak hours in intervals of the local clock. *)
<1>5. ASSUME NEW u \in Int
      PROVE  LocalHour(z, u) \in PeakStart..PeakEnd - 1 <=> LocalTimeId(z, u) \in p..e - 1
  <2> DEFINE t == LocalTimeId(z, u)
             j == LocalHour(z, u)
  <2>1. t \in Int
    BY <1>1, LocalIsInt, LengthOfDay
  <2>2. t = INTERVALS_PER_HOUR * j + (t % INTERVALS_PER_HOUR) /\ j \in Int
        /\ t % INTERVALS_PER_HOUR \in 0..INTERVALS_PER_HOUR - 1
    <3> HIDE DEF t
    <3>1. QED
      BY <2>1, Quotient, LengthOfDay DEF LocalHour, t
  <2> HIDE DEF t, j
  <2>3. /\ INTERVALS_PER_HOUR * j \in Int
        /\ INTERVALS_PER_HOUR * (j + 1) = INTERVALS_PER_HOUR * j + INTERVALS_PER_HOUR
    BY <2>2, LengthOfDay, Multiples
  <2>4. PeakStart <= j <=> p <= INTERVALS_PER_HOUR * j
    BY <1>3, <2>2, LengthOfDay, Multiples
  <2>5. j + 1 <= PeakStart <=> INTERVALS_PER_HOUR * j + INTERVALS_PER_HOUR <= p
    BY <1>3, <2>2, <2>3, LengthOfDay, Multiples
  <2>6. j + 1 <= PeakEnd <=> INTERVALS_PER_HOUR * j + INTERVALS_PER_HOUR <= e
    BY <1>3, <2>2, <2>3, LengthOfDay, Multiples
  <2>7. PeakEnd <= j <=> e <= INTERVALS_PER_HOUR * j
    BY <1>3, <2>2, LengthOfDay, Multiples
  <2> DEFINE x == INTERVALS_PER_HOUR * j
             r == t % INTERVALS_PER_HOUR
  <2>8. t = x + r /\ r \in 0..INTERVALS_PER_HOUR - 1 /\ x \in Int
    BY <2>2, <2>3
  <2>9. /\ PeakStart <= j <=> p <= x
        /\ j + 1 <= PeakStart <=> x + INTERVALS_PER_HOUR <= p
        /\ j + 1 <= PeakEnd <=> x + INTERVALS_PER_HOUR <= e
        /\ PeakEnd <= j <=> e <= x
    BY <2>4, <2>5, <2>6, <2>7
  <2> HIDE DEF x, r, p, e
  <2>10. PeakStart <= j <=> p <= t
    BY <1>3, <2>2, <2>8, <2>9, LengthOfDay
  <2>11. j <= PeakEnd - 1 <=> t <= e - 1
    BY <1>3, <2>2, <2>8, <2>9, LengthOfDay
  <2>12. QED
    BY <1>3, <2>1, <2>2, <2>10, <2>11 DEF j, t
(* An instant of the day in its peak hours is where the block says. *)
<1>6. ASSUME NEW u \in DayInstants(z, d), LocalTimeId(z, u) \in p..e - 1
      PROVE  u = n - DayLength + LocalTimeId(z, u)
  <2>1. u \in Int /\ LocalDate(z, u) = d
    BY <1>1, DayInstantsAre, DayInstantsFinite
  <2>2. LocalTimeId(z, u) \in p..DayLength - 1
    BY <1>3, <1>4, <1>6
  <2>3. Local(z, u) = DayLength * d + LocalTimeId(z, u)
    BY <1>1, <2>1, LocalIsInt
  <2>4. QED
    BY <2>1, <2>2, <2>3, PeakIsBeforeMidnight
<1>7. ASSUME NEW u \in DayInstants(z, d), LocalTimeId(z, u) \in p..e - 1
      PROVE  u - m + 1 \in Block
  <2> DEFINE t == LocalTimeId(z, u)
  <2>1. u = n - DayLength + t /\ t \in p..e - 1
    BY <1>6, <1>7
  <2> HIDE DEF m, n, p, e, t, shift
  <2>2. QED
    BY <1>2, <1>3, <1>4, <2>1
<1>8. ASSUME NEW x \in Block
      PROVE  \E u \in DayInstants(z, d) : LocalTimeId(z, u) \in p..e - 1 /\ x = u - m + 1
  <2> DEFINE t == x - 1 - shift
             u == n - DayLength + t
  <2>1. /\ t \in p..e - 1 /\ t \in p..DayLength - 1 /\ t \in 0..DayLength - 1
        /\ u \in Int /\ x = u - m + 1
    <3> HIDE DEF m, n, p, e, shift
    <3>1. QED
      BY <1>2, <1>3, <1>4
  <2> HIDE DEF t, u
  <2>2. Local(z, u) = DayLength * d + t
    BY <2>1, PeakIsBeforeMidnight DEF u
  <2>3. LocalDate(z, u) = d /\ LocalTimeId(z, u) = t
    BY <2>1, <2>2, LengthOfDay, QuotientIs DEF LocalDate, LocalTimeId
  <2>4. u \in DayInstants(z, d)
    BY <1>1, <2>1, <2>3, DayInstantsAre
  <2>5. QED
    BY <2>1, <2>3, <2>4
<1>9. \A x : x \in PeakIntervals(z, d, PeakStart, PeakEnd)
          <=> \E u \in DayInstants(z, d) : LocalTimeId(z, u) \in p..e - 1 /\ x = u - m + 1
  <2> HIDE DEF p, e, m
  <2>1. \A u \in DayInstants(z, d) : u \in Int
    BY <1>1, DayInstantsFinite
  <2>2. \A x : x \in PeakIntervals(z, d, PeakStart, PeakEnd)
            <=> \E u \in DayInstants(z, d) :
                  /\ LocalHour(z, IntervalAt(z, d, u).timestamp_utc) \in PeakStart..PeakEnd - 1
                  /\ x = IntervalAt(z, d, u).interval_of_day
    BY DEF PeakIntervals, DayIntervals
  <2>3. \A u \in DayInstants(z, d) : /\ IntervalAt(z, d, u).timestamp_utc = u
                                     /\ IntervalAt(z, d, u).interval_of_day = u - m + 1
    BY <1>1, IntervalsAre DEF m
  <2>4. QED
    BY <1>5, <2>1, <2>2, <2>3
<1> HIDE DEF Block, m, p, e, n, shift
<1>10. PeakIntervals(z, d, PeakStart, PeakEnd) = Block
  BY <1>7, <1>8, <1>9
<1>11. QED
  BY <1>10 DEF Block, p, e, shift

LEMMA AxisIs ==
    ASSUME zone \in Zones, dims \subseteq 1..LastDay
    PROVE  \A i : i \in Axis
               <=> \E d \in dims : \E u \in DayInstants(zone, d) : i = IntervalAt(zone, d, u)
BY DEF Axis, DayIntervals

(* timeaxis.py keeps what it promises, for any days the table holds.       *)
LEMMA AxisAlwaysHolds ==
    ASSUME zone \in Zones, dims \subseteq 1..LastDay
    PROVE  AxisHolds
<1>1. GoodZone(zone) /\ \A d \in dims : d \in Int /\ d \in 1..LastDay
  BY ZonesAreGood, DayAssumption
<1>2. {i.timestamp_utc : i \in Axis}
          = {u \in 0..(LastDay + 1) * DayLength - 1 : LocalDate(zone, u) \in dims}
  <2>1. ASSUME NEW d \in dims, NEW u \in DayInstants(zone, d)
        PROVE  /\ u \in 0..(LastDay + 1) * DayLength - 1 /\ LocalDate(zone, u) \in dims
               /\ IntervalAt(zone, d, u).timestamp_utc = u
    <3>1. u \in Int /\ LocalDate(zone, u) = d
      BY <1>1, DayInstantsAre, DayInstantsFinite
    <3>2. QED
      BY <1>1, <3>1, DaysWithinBounds, IntervalsAre
  <2>2. ASSUME NEW u \in 0..(LastDay + 1) * DayLength - 1, LocalDate(zone, u) \in dims
        PROVE  \E i \in Axis : i.timestamp_utc = u
    <3> DEFINE d == LocalDate(zone, u)
    <3>0. u \in Int
      BY LengthOfDay, DayAssumption
    <3>1. d \in dims /\ d \in Int
      BY <1>1, <2>2
    <3>3. u \in DayInstants(zone, d)
      BY <1>1, <3>0, <3>1, DayInstantsAre
    <3>2. IntervalAt(zone, d, u) \in Axis /\ IntervalAt(zone, d, u).timestamp_utc = u
      BY <2>1, <3>1, <3>3, AxisIs
    <3>4. QED
      BY <3>2
  <2>3. ASSUME NEW i \in Axis
        PROVE  i.timestamp_utc \in 0..(LastDay + 1) * DayLength - 1
               /\ LocalDate(zone, i.timestamp_utc) \in dims
    <3>1. PICK d \in dims : \E u \in DayInstants(zone, d) : i = IntervalAt(zone, d, u)
      BY AxisIs
    <3>2. QED
      BY <2>1, <3>1
  <2>4. QED
    BY <2>2, <2>3
<1>3. ASSUME NEW i \in Axis, NEW j \in Axis, i # j, i.date_id = j.date_id
      PROVE  /\ i.interval_of_day # j.interval_of_day
             /\ i.local_time_id # j.local_time_id \/ i.is_repeated_hour # j.is_repeated_hour
  <2>0. PICK d \in dims : \E u \in DayInstants(zone, d) : i = IntervalAt(zone, d, u)
    BY AxisIs
  <2>1. PICK u \in DayInstants(zone, d) : i = IntervalAt(zone, d, u)
    BY <2>0
  <2>a. PICK e \in dims : \E v \in DayInstants(zone, e) : j = IntervalAt(zone, e, v)
    BY AxisIs
  <2>2. PICK v \in DayInstants(zone, e) : j = IntervalAt(zone, e, v)
    BY <2>a
  <2>3. e = d
    BY <1>1, <1>3, <2>1, <2>2, IntervalsAre
  <2>4. v \in DayInstants(zone, d) /\ j = IntervalAt(zone, d, v) /\ u # v
    BY <1>3, <2>1, <2>2, <2>3
  <2>5. u \in Int /\ v \in Int /\ LocalMidnight(zone, d) \in Int
    BY <1>1, <2>4, DayInstantsFinite
  <2>6. i.interval_of_day = u - LocalMidnight(zone, d) + 1
        /\ j.interval_of_day = v - LocalMidnight(zone, d) + 1
        /\ i.local_time_id = LocalTimeId(zone, u) /\ j.local_time_id = LocalTimeId(zone, v)
    BY <1>1, <2>1, <2>4, IntervalsAre
  <2>7. i.interval_of_day # j.interval_of_day
    BY <2>4, <2>5, <2>6
  <2>8. i.local_time_id = j.local_time_id => i.is_repeated_hour # j.is_repeated_hour
    <3>1. u < v \/ v < u
      BY <2>4, <2>5
    <3>2. QED
      BY <1>1, <2>1, <2>4, <2>6, <3>1, LabelsDiffer
  <2>9. QED
    BY <2>7, <2>8
<1>4. \A d \in dims :
         LET shift == Cardinality(DayIntervals(zone, d)) - DayLength
         IN  PeakIntervals(zone, d, PeakStart, PeakEnd)
                = INTERVALS_PER_HOUR * PeakStart + 1 + shift..INTERVALS_PER_HOUR * PeakEnd + shift
  BY <1>1, PeakBlock
<1>5. QED
  BY <1>2, <1>3, <1>4 DEF AxisHolds

------------------------------------------------------------------------------
(* The invariant.                                                          *)

RunType == [from : 1..LastDay, to : 1..LastDay, step : 0..8, number : Nat]

(* A run goes through its steps, and there is none before the first.       *)
RunInTurn ==
    /\ run \in RunType
    /\ run.number = 0 => Idle
    /\ run.step > 1 => RunDays \subseteq dims

(* Each price has the label of its instant, and is of day 1.               *)
PricesLabelled ==
    \A u \in DOMAIN prices :
        /\ u \in DayInstants(zone, 1)
        /\ prices[u].date_id = 1
        /\ prices[u].time_id = LocalTimeId(zone, u)
        /\ prices[u].eur \in 0..MaxPrice

(* Each fact has the label of its hour.                                    *)
FactsLabelled ==
    \A s \in Series : \A h \in DOMAIN facts[s] :
        /\ h \in Int /\ h % INTERVALS_PER_HOUR = 0
        /\ LocalDate(zone, h) \in 1..LastDay
        /\ Key(facts[s][h]) = <<LocalDate(zone, h), ClockHour(zone, h)>>

(* What a run has built of its facts is current while it lasts.            *)
Built(s) ==
    \/ run.step > 3 /\ s \in Types
    \/ run.step > 4 /\ s = Load
    \/ run.step > 5 /\ s \in Locations
FactsBuilt ==
    \A s \in Series \ Unconfigured : Built(s) =>
        \A h \in UNION {HoursOf(d) : d \in RunDays} :
            h >= run.from * DayLength => FactIsCurrent(s, h)

(* The tables of the one run that has prices.                              *)
DayPrices == [u \in DOMAIN prices |-> prices[u].eur]
DayHourRow(h) ==
    [at |-> h, date_id |-> 1, time_id |-> LocalTimeId(zone, h),
     is_repeated_hour |-> IntervalAt(zone, 1, h).is_repeated_hour,
     is_peak |-> LocalHour(zone, h) \in PeakStart..PeakEnd - 1,
     averages |-> {u \in DOMAIN prices : HourStart(zone, u) = h}]
DaySignalRow(u) ==
    [at |-> u, date_id |-> 1, time_id |-> prices[u].time_id,
     signal |-> Signal(DayPrices, slots, u)]

HourTable == {DayHourRow(h) : h \in {HourStart(zone, u) : u \in DOMAIN prices}}
SignalTable == {DaySignalRow(u) : u \in DOMAIN prices}

(* There are no prices, or one run that is of day 1 and from whose steps   *)
(* on the Gold tables are what they should be.                             *)
NoPrices == DOMAIN opcom = {} /\ DOMAIN prices = {} /\ priceHourly = {} /\ signals = {}
PricesOnce ==
    /\ readings = NoReadings
    /\ run.number <= 1 /\ run.from = 1 /\ run.to = 1
    /\ priceHourly = IF run.number = 1 /\ run.step \notin 1..6 THEN HourTable ELSE {}
    /\ signals = IF run.number = 1 /\ Idle THEN SignalTable ELSE {}

(* The inductive invariant.                                                *)
IInv ==
    /\ TypeOK
    /\ RunInTurn
    /\ PricesLabelled
    /\ FactsLabelled
    /\ FactsBuilt
    /\ GenerationAddsUp
    /\ NoPrices \/ PricesOnce

------------------------------------------------------------------------------
(* The steps of a run.                                                     *)

LEMMA StepNames ==
    ASSUME NEW k \in 0..8
    PROVE  /\ k # 0 /\ Steps[k] = "dim_datetime" <=> k = 1
           /\ k # 0 /\ Steps[k] = "fact_price" <=> k = 2
           /\ k # 0 /\ Steps[k] = "fact_generation" <=> k = 3
           /\ k # 0 /\ Steps[k] = "fact_load" <=> k = 4
           /\ k # 0 /\ Steps[k] = "fact_weather" <=> k = 5
           /\ k # 0 /\ Steps[k] = "price_hourly" <=> k = 6
           /\ k # 0 /\ Steps[k] = "generation_hourly" <=> k = 7
           /\ k # 0 /\ Steps[k] = "bess_signals" <=> k = 8
<1>1. k = 0 \/ k = 1 \/ k = 2 \/ k = 3 \/ k = 4 \/ k = 5 \/ k = 6 \/ k = 7 \/ k = 8
  OBVIOUS
<1>2. QED
  BY <1>1 DEF Steps

LEMMA Advances ==
    ASSUME run \in RunType, run.step # 0, run' = Advance(run)
    PROVE  /\ run' \in RunType
           /\ run'.from = run.from /\ run'.to = run.to /\ run'.number = run.number
           /\ run'.step = IF run.step = 8 THEN 0 ELSE run.step + 1
<1>1. Len(Steps) = 8
  BY DEF Steps
<1>2. /\ run'.from = run.from /\ run'.to = run.to /\ run'.number = run.number
      /\ run'.step = IF run.step = 8 THEN 0 ELSE run.step + 1
      /\ run' = [from |-> run.from, to |-> run.to, step |-> run'.step, number |-> run.number]
  BY <1>1 DEF RunType, Advance
<1>3. run.step \in 0..8 /\ run.from \in 1..LastDay /\ run.to \in 1..LastDay /\ run.number \in Nat
  BY DEF RunType
<1>4. run'.step \in 0..8
  BY <1>2, <1>3
<1>5. QED
  BY <1>2, <1>3, <1>4 DEF RunType

(* The readings are instants.                                              *)
LEMMA ReadingsAreInstants ==
    ASSUME TypeOK, NEW s \in Series
    PROVE  readings[s] \subseteq Int
<1>1. readings[s] \subseteq Instants(s, LastDay)
  BY DEF TypeOK
<1>2. (LastDay + 1) * DayLength \in Int
  BY DayAssumption, LengthOfDay
<1>3. QED
  BY <1>1, <1>2 DEF Instants

(* A row of a fact table: an hour of the requested days, under the label   *)
(* of its own clock.                                                       *)
LEMMA FactRowLabel ==
    ASSUME NEW z, GoodZone(z), NEW s, NEW R \in SUBSET Int,
           NEW start \in 1..LastDay, NEW end \in 1..LastDay,
           NEW h \in DOMAIN FactsOf(z, s, R, start, end)
    PROVE  LET row == FactsOf(z, s, R, start, end)[h]
           IN  /\ h \in Int /\ h % INTERVALS_PER_HOUR = 0
               /\ LocalDate(z, h) \in start..end
               /\ Key(row) = <<LocalDate(z, h), ClockHour(z, h)>>
               /\ row.date_id = LocalDate(z, h)
               /\ row.time_id = ClockHour(z, h)
               /\ row.time_id \in 0..DayLength - 1
<1> DEFINE rows == IF s \in Unconfigured THEN {}
                   ELSE Trim(z, start, end, Queried(R, start, end))
           In(g) == {u \in rows : HourStart(z, u) = g}
           new == FactsOf(z, s, R, start, end)
<1>1. /\ DOMAIN new = {HourStart(z, u) : u \in rows}
      /\ \A g \in DOMAIN new : new[g] = [date_id |-> Max({LocalDate(z, u) : u \in In(g)}),
                                        time_id |-> Max({ClockHour(z, u) : u \in In(g)}),
                                        readings |-> In(g)]
  BY DEF FactsOf
<1>2. \A u \in rows : u \in Int /\ LocalDate(z, u) \in start..end
  BY DEF Trim, Queried
<1> HIDE DEF rows
<1>3. PICK v \in rows : h = HourStart(z, v)
  BY <1>1
<1>0. h \in DOMAIN new
  OBVIOUS
<1> HIDE DEF new
<1>4. v \in Int /\ h \in Int /\ h % INTERVALS_PER_HOUR = 0 /\ v \in h..h + INTERVALS_PER_HOUR - 1
  BY <1>2, <1>3, HourOf
<1>5. \A u \in In(h) : LocalDate(z, u) = LocalDate(z, h) /\ ClockHour(z, u) = ClockHour(z, h)
  <2> SUFFICES ASSUME NEW u \in In(h)
               PROVE  LocalDate(z, u) = LocalDate(z, h) /\ ClockHour(z, u) = ClockHour(z, h)
    OBVIOUS
  <2>1. u \in rows /\ u \in Int /\ HourStart(z, u) = h
    BY <1>2
  <2>2. u \in h..h + INTERVALS_PER_HOUR - 1
    BY <2>1, HourOf
  <2>3. QED
    BY <1>4, <2>2, HourHasOneLabel
<1>6. v \in In(h)
  BY <1>3
<1>7. /\ {LocalDate(z, u) : u \in In(h)} = {LocalDate(z, h), LocalDate(z, h)}
      /\ {ClockHour(z, u) : u \in In(h)} = {ClockHour(z, h), ClockHour(z, h)}
  BY <1>5, <1>6
<1>8. LocalDate(z, h) \in Int /\ ClockHour(z, h) \in 0..DayLength - 1 /\ ClockHour(z, h) \in Int
  <2>1. h \in h..h + INTERVALS_PER_HOUR - 1
    BY <1>4, LengthOfDay
  <2>2. ClockHour(z, h) = LocalTimeId(z, h)
    BY <1>4, <2>1, HourHasOneLabel
  <2>3. QED
    BY <1>4, <2>2, LocalIsInt, LengthOfDay
<1>9. new[h].date_id = LocalDate(z, h) /\ new[h].time_id = ClockHour(z, h)
  <2>1. /\ Max({LocalDate(z, h), LocalDate(z, h)}) = LocalDate(z, h)
        /\ Max({ClockHour(z, h), ClockHour(z, h)}) = ClockHour(z, h)
    BY <1>8, MinMaxOfTwo
  <2>2. new[h].date_id = Max({LocalDate(z, u) : u \in In(h)})
        /\ new[h].time_id = Max({ClockHour(z, u) : u \in In(h)})
    <3>1. new[h] = [date_id |-> Max({LocalDate(z, u) : u \in In(h)}),
                    time_id |-> Max({ClockHour(z, u) : u \in In(h)}),
                    readings |-> In(h)]
      BY <1>0, <1>1
    <3>2. QED
      BY ONLY <3>1
  <2>3. QED
    BY <1>7, <2>1, <2>2
<1>10. LocalDate(z, h) \in start..end
  BY <1>2, <1>3, <1>5, <1>6
<1>11. QED
  BY <1>4, <1>8, <1>9, <1>10 DEF Key, new

(* An hour of the requested days that has readings is a row.               *)
ReadingsIn(h, R) == h..h + INTERVALS_PER_HOUR - 1 \cap R
Due(z, start, end, h) ==
    /\ h % INTERVALS_PER_HOUR = 0
    /\ LocalDate(z, h) \in start..end
    /\ h >= start * DayLength

LEMMA FactRowDue ==
    ASSUME NEW z, GoodZone(z), NEW s, s \notin Unconfigured, NEW R \in SUBSET Int,
           NEW start \in 1..LastDay, NEW end \in 1..LastDay,
           NEW h \in Int, Due(z, start, end, h), ReadingsIn(h, R) # {}
    PROVE  LET new == FactsOf(z, s, R, start, end)
           IN  h \in DOMAIN new /\ new[h].readings = ReadingsIn(h, R)
<1> DEFINE rows == IF s \in Unconfigured THEN {}
                   ELSE Trim(z, start, end, Queried(R, start, end))
           In(g) == {u \in rows : HourStart(z, u) = g}
           new == FactsOf(z, s, R, start, end)
<1>1. /\ DOMAIN new = {HourStart(z, u) : u \in rows}
      /\ \A g \in DOMAIN new : new[g] = [date_id |-> Max({LocalDate(z, u) : u \in In(g)}),
                                        time_id |-> Max({ClockHour(z, u) : u \in In(g)}),
                                        readings |-> In(g)]
  BY DEF FactsOf
<1>2. \A u \in rows : u \in Int /\ LocalDate(z, u) \in start..end
  BY DEF Trim, Queried
<1>0. /\ h % INTERVALS_PER_HOUR = 0
      /\ LocalDate(z, h) \in start..end
      /\ h >= start * DayLength
  BY DEF Due
<1> HIDE DEF rows, new
<1> DEFINE current == h..h + INTERVALS_PER_HOUR - 1 \cap R
<1>3. ASSUME NEW u \in current
      PROVE  u \in rows /\ HourStart(z, u) = h
  <2>1. u \in Int /\ u \in R /\ u \in h..h + INTERVALS_PER_HOUR - 1 /\ h <= u
    BY LengthOfDay
  <2>2. HourStart(z, u) = h
    BY <1>0, <2>1, HourOf
  <2>3. LocalDate(z, u) = LocalDate(z, h)
    BY <1>0, <2>1, HourHasOneLabel
  <2> DEFINE d == LocalDate(z, h)
  <2>4. d \in Int /\ d \in 1..LastDay /\ d <= end /\ LocalDate(z, u) = d
    BY <1>0, <2>3, DayAssumption
  <2>5. u < DayLength * (d + 1)
    BY <2>1, <2>4, DaysWithinBounds
  <2> HIDE DEF d
  <2>6. DayLength * (d + 1) <= DayLength * (end + 1)
    BY <2>4, LengthOfDay, Multiples
  <2>7. DayLength * (d + 1) \in Int /\ DayLength * (end + 1) \in Int /\ start * DayLength \in Int
        /\ DayLength * (end + 1) = (end + 1) * DayLength
    BY <2>4, LengthOfDay
  <2>8. u \in start * DayLength..(end + 1) * DayLength - 1
    BY <1>0, <2>1, <2>5, <2>6, <2>7
  <2>9. QED
    BY <1>0, <2>1, <2>2, <2>3, <2>8 DEF rows, Trim, Queried
<1>4. ASSUME NEW u \in In(h)
      PROVE  u \in current
  <2>1. u \in rows /\ u \in Int /\ HourStart(z, u) = h
    BY <1>2
  <2>2. u \in h..h + INTERVALS_PER_HOUR - 1
    BY <2>1, HourOf
  <2>3. u \in R
    BY <2>1 DEF rows, Trim, Queried
  <2>4. QED
    BY <2>2, <2>3
<1>5. In(h) = current
  BY <1>3, <1>4
<1>6. h \in DOMAIN new
  BY <1>1, <1>3 DEF ReadingsIn
<1>7. new[h] = [date_id |-> Max({LocalDate(z, u) : u \in In(h)}),
                time_id |-> Max({ClockHour(z, u) : u \in In(h)}),
                readings |-> In(h)]
  BY <1>1, <1>6
<1>8. new[h].readings = In(h)
  BY ONLY <1>7
<1>9. QED
  BY <1>5, <1>6, <1>8 DEF new, ReadingsIn

------------------------------------------------------------------------------
(* What a step that does not touch them keeps.                             *)

LEMMA LabelsKept ==
    ASSUME PricesLabelled, UNCHANGED <<zone, prices>>
    PROVE  PricesLabelled'
BY DEF PricesLabelled

LEMMA FactsKept ==
    ASSUME FactsLabelled, UNCHANGED <<zone, facts>>
    PROVE  FactsLabelled'
BY DEF FactsLabelled

LEMMA BuiltKept ==
    ASSUME FactsBuilt, UNCHANGED <<zone, facts, readings>>,
           run'.from = run.from, run'.to = run.to,
           \A s \in Series \ Unconfigured : Built(s)' => Built(s)
    PROVE  FactsBuilt'
<1> SUFFICES ASSUME NEW s \in Series \ Unconfigured, Built(s)',
                    NEW h \in UNION {HoursOf(d) : d \in RunDays}',
                    h >= run'.from * DayLength
             PROVE  FactIsCurrent(s, h)'
  BY DEF FactsBuilt
<1>1. h \in UNION {HoursOf(d) : d \in RunDays}
  BY DEF RunDays, HoursOf
<1>2. FactIsCurrent(s, h)
  BY <1>1 DEF FactsBuilt
<1>3. QED
  BY <1>2 DEF FactIsCurrent

LEMMA NothingBuilt ==
    ASSUME run'.step \in 0..3
    PROVE  FactsBuilt'
BY DEF FactsBuilt, Built

LEMMA GenerationKept ==
    ASSUME GenerationAddsUp, UNCHANGED <<zone, generationHourly>>,
           run'.step \in 0..7
    PROVE  GenerationAddsUp'
<1>1. ~ Doing("bess_signals")'
  BY StepNames DEF Doing, Idle
<1>2. ASSUME NEW d, NEW t
      PROVE  Repeated(d, t)' = Repeated(d, t)
  BY DEF Repeated, HoursOf
<1>3. ASSUME NEW r \in generationHourly', ~ Repeated(r.key[1], r.key[2])'
      PROVE  r.columns \cup r.discovered = r.total
  BY <1>2, <1>3 DEF GenerationAddsUp
<1>4. QED
  BY <1>1, <1>3 DEF GenerationAddsUp

LEMMA TablesSame ==
    ASSUME UNCHANGED <<zone, slots, prices>>
    PROVE  HourTable' = HourTable /\ SignalTable' = SignalTable
BY DEF HourTable, SignalTable, DayHourRow, DaySignalRow, DayPrices

(* A step that leaves prices and their tables alone.                       *)
LEMMA PricesKept ==
    ASSUME NoPrices \/ PricesOnce, RunInTurn,
           UNCHANGED <<zone, slots, opcom, prices, readings, priceHourly, signals>>,
           run'.from = run.from, run'.to = run.to, run'.number = run.number,
           run'.step # 0 <=> run.step # 0, run'.step \in 1..6 <=> run.step \in 1..6
    PROVE  (NoPrices \/ PricesOnce)'
<1>1. CASE NoPrices
  BY <1>1 DEF NoPrices
<1>2. CASE PricesOnce
  <2>1. NoReadings' = NoReadings
    BY DEF NoReadings
  <2>2. QED
    BY <1>2, <2>1, TablesSame DEF PricesOnce, Idle
<1>3. QED
  BY <1>1, <1>2

------------------------------------------------------------------------------
(* The actions.                                                            *)

LEMMA StartRunKeeps ==
    ASSUME IInv, StartRun
    PROVE  IInv'
<1>1. PICK from \in 1..LastDay, to \in 1..LastDay :
         /\ from <= to
         /\ readings = NoReadings => to = 1 /\ run.number = 0
         /\ run' = [from |-> from, to |-> to, step |-> 1, number |-> run.number + 1]
  BY DEF StartRun
<1>2. run \in RunType /\ Idle /\ run.number \in Nat
  BY DEF IInv, RunInTurn, StartRun, RunType
<1>3. /\ run' \in RunType /\ run'.step = 1 /\ run'.from = from /\ run'.to = to
      /\ run'.number = run.number + 1
  BY <1>1, <1>2 DEF RunType
<1>4. UNCHANGED <<zone, slots, opcom, rated, readings, dims, prices, facts,
                  priceHourly, generationHourly, signals>>
  BY DEF StartRun, bronze, tables
<1>5. TypeOK'
  <2>1. RunDays' \subseteq 1..LastDay
    BY <1>3, DayAssumption DEF RunDays
  <2>2. run'.step \in 0..Len(Steps)
    BY <1>3 DEF Steps
  <2>3. DOMAIN opcom' \subseteq Intervals'
    BY <1>4 DEF IInv, TypeOK, Intervals
  <2>4. QED
    BY <1>4, <2>1, <2>2, <2>3 DEF IInv, TypeOK
<1>6. RunInTurn'
  BY <1>2, <1>3 DEF RunInTurn
<1>7. PricesLabelled' /\ FactsLabelled'
  BY <1>4, LabelsKept, FactsKept DEF IInv
<1>8. FactsBuilt'
  BY <1>3, NothingBuilt
<1>9. GenerationAddsUp'
  BY <1>3, <1>4, GenerationKept DEF IInv
<1>10. (NoPrices \/ PricesOnce)'
  <2>1. CASE NoPrices
    BY <1>4, <2>1 DEF NoPrices
  <2>2. CASE PricesOnce
    <3>1. run'.number = 1 /\ run'.from = 1 /\ run'.to = 1
      BY <1>1, <1>3, <2>2 DEF PricesOnce
    <3>2. priceHourly = {} /\ signals = {}
      BY <1>1, <2>2 DEF PricesOnce
    <3>3. NoReadings' = NoReadings
      BY DEF NoReadings
    <3>4. QED
      BY <1>3, <1>4, <2>2, <3>1, <3>2, <3>3 DEF PricesOnce, Idle
  <2>3. QED
    BY <2>1, <2>2 DEF IInv
<1>11. QED
  BY <1>5, <1>6, <1>7, <1>8, <1>9, <1>10 DEF IInv

LEMMA CompleteKeeps ==
    ASSUME IInv, Complete
    PROVE  IInv'
<1>1. run \in RunType /\ run.step = 0
  BY DEF IInv, RunInTurn, Complete, Idle
<1>2. UNCHANGED <<zone, slots, opcom, rated, run, dims, prices, facts,
                  priceHourly, generationHourly, signals>>
  BY DEF Complete, bronze, tables
<1>3. TypeOK'
  <2>1. \A s \in Series : readings'[s] \subseteq Instants(s, LastDay)
    BY DEF Complete, AllReadings
  <2>2. RunDays' \subseteq 1..LastDay /\ DOMAIN opcom' \subseteq Intervals'
    BY <1>2 DEF IInv, TypeOK, Intervals, RunDays
  <2>3. QED
    BY <1>2, <2>1, <2>2 DEF IInv, TypeOK
<1>4. RunInTurn'
  BY <1>2 DEF IInv, RunInTurn, Idle, RunDays
<1>5. PricesLabelled' /\ FactsLabelled'
  BY <1>2, LabelsKept, FactsKept DEF IInv
<1>6. FactsBuilt'
  BY <1>1, <1>2, NothingBuilt
<1>7. GenerationAddsUp'
  BY <1>1, <1>2, GenerationKept DEF IInv
<1>8. NoPrices'
  <2>1. ~ PricesOnce
    BY DEF PricesOnce, Complete
  <2>2. QED
    BY <1>2, <2>1 DEF IInv, NoPrices
<1>9. QED
  BY <1>3, <1>4, <1>5, <1>6, <1>7, <1>8 DEF IInv

(* What is the same in every step of a run.                                *)
LEMMA StepOfRun ==
    ASSUME IInv, NEW k \in 1..8, Doing(Steps[k]), run' = Advance(run)
    PROVE  /\ run.step = k
           /\ run' \in RunType
           /\ run'.from = run.from /\ run'.to = run.to /\ run'.number = run.number
           /\ run'.step = IF k = 8 THEN 0 ELSE k + 1
           /\ run'.step \in 0..Len(Steps)
           /\ RunDays' = RunDays
           /\ run.from \in 1..LastDay /\ run.to \in 1..LastDay
           /\ run.number # 0
<1>1. run \in RunType /\ run.step \in 0..8 /\ run.step # 0 /\ Steps[run.step] = Steps[k]
  BY DEF IInv, RunInTurn, RunType, Doing, Idle
<1>2. run.step = k
  <2>1. k = 1 \/ k = 2 \/ k = 3 \/ k = 4 \/ k = 5 \/ k = 6 \/ k = 7 \/ k = 8
    OBVIOUS
  <2>2. QED
    BY <1>1, <2>1 DEF Steps
<1>3. /\ run' \in RunType
      /\ run'.from = run.from /\ run'.to = run.to /\ run'.number = run.number
      /\ run'.step = IF run.step = 8 THEN 0 ELSE run.step + 1
  BY <1>1, Advances
<1>4. run'.step \in 0..Len(Steps)
  <2>1. Len(Steps) = 8
    BY DEF Steps
  <2>2. QED
    BY <1>3, <2>1 DEF RunType
<1>5. RunDays' = RunDays
  BY <1>3 DEF RunDays
<1>6. run.from \in 1..LastDay /\ run.to \in 1..LastDay
  BY <1>1 DEF RunType
<1>7. run.number # 0
  BY <1>1 DEF IInv, RunInTurn, Idle
<1>8. QED
  BY <1>2, <1>3, <1>4, <1>5, <1>6, <1>7

LEMMA DimDatetimeKeeps ==
    ASSUME IInv, DimDatetime
    PROVE  IInv'
<1>1. UNCHANGED <<zone, slots, opcom, rated, readings, prices, facts,
                  priceHourly, generationHourly, signals>>
  BY DEF DimDatetime, bronze
<1>2. /\ run.step = 1 /\ run' \in RunType /\ run'.step = 2 /\ RunDays' = RunDays
      /\ run'.from = run.from /\ run'.to = run.to /\ run'.number = run.number
      /\ run.number # 0 /\ run'.step \in 0..Len(Steps)
  <2>1. Doing(Steps[1]) /\ run' = Advance(run)
    BY DEF DimDatetime, Steps
  <2>2. QED
    BY <2>1, StepOfRun
<1>3. TypeOK'
  <2>1. DOMAIN opcom' \subseteq Intervals'
    BY <1>1 DEF IInv, TypeOK, Intervals
  <2>2. dims' \subseteq 1..LastDay /\ RunDays' \subseteq 1..LastDay
    BY <1>2 DEF IInv, TypeOK, DimDatetime
  <2>3. QED
    BY <1>1, <1>2, <2>1, <2>2 DEF IInv, TypeOK
<1>4. RunInTurn'
  BY <1>2 DEF RunInTurn, DimDatetime
<1>5. PricesLabelled' /\ FactsLabelled'
  BY <1>1, LabelsKept, FactsKept DEF IInv
<1>6. FactsBuilt'
  BY <1>2, NothingBuilt
<1>7. GenerationAddsUp'
  BY <1>1, <1>2, GenerationKept DEF IInv
<1>8. (NoPrices \/ PricesOnce)'
  BY <1>1, <1>2, PricesKept DEF IInv
<1>9. QED
  BY <1>3, <1>4, <1>5, <1>6, <1>7, <1>8 DEF IInv

(* A row of dim_datetime is the row of its instant.                        *)
LEMMA AxisRow ==
    ASSUME zone \in Zones, dims \subseteq 1..LastDay, NEW i \in Axis
    PROVE  /\ i.timestamp_utc \in Int
           /\ i.date_id = LocalDate(zone, i.timestamp_utc)
           /\ i.date_id \in dims
           /\ i.timestamp_utc \in DayInstants(zone, i.date_id)
           /\ i.local_time_id = LocalTimeId(zone, i.timestamp_utc)
           /\ i = IntervalAt(zone, i.date_id, i.timestamp_utc)
<1>1. PICK d \in dims : \E u \in DayInstants(zone, d) : i = IntervalAt(zone, d, u)
  BY AxisIs
<1>2. PICK u \in DayInstants(zone, d) : i = IntervalAt(zone, d, u)
  BY <1>1
<1>3. GoodZone(zone) /\ d \in Int
  BY ZonesAreGood, DayAssumption
<1>4. u \in Int /\ LocalDate(zone, u) = d
  BY <1>3, DayInstantsFinite, DayInstantsAre
<1>5. i.timestamp_utc = u /\ i.date_id = d /\ i.local_time_id = LocalTimeId(zone, u)
  BY <1>2, <1>3, IntervalsAre
<1>6. QED
  BY <1>2, <1>4, <1>5

(* The rows fact_price merges.                                             *)
LEMMA PriceRowsAre ==
    ASSUME TypeOK
    PROVE  /\ DOMAIN opcom = {} \/ 1 \notin RunDays => DOMAIN PriceRows = {}
           /\ \A u \in DOMAIN PriceRows :
                /\ u \in DayInstants(zone, 1)
                /\ PriceRows[u].date_id = 1
                /\ PriceRows[u].time_id = LocalTimeId(zone, u)
                /\ PriceRows[u].time_id \in 0..DayLength - 1
                /\ PriceRows[u].eur \in 0..MaxPrice
<1> DEFINE rows == {i \in Axis : /\ 1 \in RunDays /\ i.date_id = 1
                                 /\ i.interval_of_day \in DOMAIN opcom}
           At(u) == CHOOSE i \in rows : i.timestamp_utc = u
           eur(u) == IF rated THEN opcom[At(u).interval_of_day] ELSE Null
<1>1. /\ DOMAIN PriceRows = {i.timestamp_utc : i \in rows}
      /\ \A u \in DOMAIN PriceRows :
           PriceRows[u] = [date_id |-> 1, time_id |-> At(u).local_time_id,
                           interval_of_day |-> At(u).interval_of_day, eur |-> eur(u)]
  BY DEF PriceRows
<1>2. /\ zone \in Zones /\ dims \subseteq 1..LastDay
      /\ \A x \in DOMAIN opcom : opcom[x] \in 1..MaxPrice
  BY DEF TypeOK, Range
<1>3. DOMAIN opcom = {} \/ 1 \notin RunDays => DOMAIN PriceRows = {}
  BY <1>1
<1> HIDE DEF rows
<1>4. ASSUME NEW u \in DOMAIN PriceRows
      PROVE  /\ u \in DayInstants(zone, 1)
             /\ PriceRows[u].date_id = 1
             /\ PriceRows[u].time_id = LocalTimeId(zone, u)
             /\ PriceRows[u].time_id \in 0..DayLength - 1
             /\ PriceRows[u].eur \in 0..MaxPrice
  <2>1. \E i \in rows : i.timestamp_utc = u
    BY <1>1
  <2>2. At(u) \in rows /\ At(u).timestamp_utc = u
    BY <2>1
  <2> DEFINE i == At(u)
  <2> HIDE DEF At
  <2>3. i \in Axis /\ i.date_id = 1 /\ i.interval_of_day \in DOMAIN opcom /\ i.timestamp_utc = u
    BY <2>2 DEF rows
  <2>4. u \in Int /\ u \in DayInstants(zone, 1) /\ i.local_time_id = LocalTimeId(zone, u)
    <3>1. /\ i.timestamp_utc \in Int
          /\ i.timestamp_utc \in DayInstants(zone, i.date_id)
          /\ i.local_time_id = LocalTimeId(zone, i.timestamp_utc)
      BY <1>2, <2>3, AxisRow
    <3>2. QED
      BY <2>3, <3>1
  <2>5. LocalTimeId(zone, u) \in 0..DayLength - 1
    BY <1>2, <2>4, LocalIsInt, ZonesAreGood
  <2>6. eur(u) \in 0..MaxPrice
    BY <1>2, <2>3, DayAssumption DEF Null
  <2> HIDE DEF i, eur
  <2>7. PriceRows[u] = [date_id |-> 1, time_id |-> i.local_time_id,
                        interval_of_day |-> i.interval_of_day, eur |-> eur(u)]
    BY <1>1 DEF i
  <2>8. /\ PriceRows[u].date_id = 1 /\ PriceRows[u].time_id = i.local_time_id
        /\ PriceRows[u].eur = eur(u)
    BY ONLY <2>7
  <2>9. QED
    BY <2>4, <2>5, <2>6, <2>8
<1>5. QED
  BY <1>3, <1>4

LEMMA FactPriceKeeps ==
    ASSUME IInv, FactPrice
    PROVE  IInv'
<1>1. UNCHANGED <<zone, slots, opcom, rated, readings, dims, facts,
                  priceHourly, generationHourly, signals>>
  BY DEF FactPrice, bronze
<1>2. /\ run.step = 2 /\ run' \in RunType /\ run'.step = 3 /\ RunDays' = RunDays
      /\ run'.from = run.from /\ run'.to = run.to /\ run'.number = run.number
      /\ run.number # 0 /\ run'.step \in 0..Len(Steps)
  <2>1. Doing(Steps[2]) /\ run' = Advance(run)
    BY DEF FactPrice, Steps
  <2>2. QED
    BY <2>1, StepOfRun
<1>3. TypeOK /\ PricesLabelled
  BY DEF IInv
<1> DEFINE df == PriceRows
<1>4. /\ DOMAIN opcom = {} => DOMAIN df = {}
      /\ \A u \in DOMAIN df :
           /\ u \in DayInstants(zone, 1)
           /\ df[u].date_id = 1
           /\ df[u].time_id = LocalTimeId(zone, u)
           /\ df[u].time_id \in 0..DayLength - 1
           /\ df[u].eur \in 0..MaxPrice
  BY <1>3, PriceRowsAre
<1>5. prices' = MergeUpsert(prices, df)
  BY DEF FactPrice
<1> HIDE DEF df
<1>6. /\ DOMAIN prices' = DOMAIN prices \cup DOMAIN df
      /\ \A u \in DOMAIN df : prices'[u] = df[u]
      /\ \A u \in DOMAIN prices \ DOMAIN df : prices'[u] = prices[u]
  BY ONLY <1>5 DEF MergeUpsert
<1>7. \A u \in DOMAIN prices' :
        /\ u \in DayInstants(zone, 1)
        /\ prices'[u].date_id = 1
        /\ prices'[u].time_id = LocalTimeId(zone, u)
        /\ prices'[u].time_id \in 0..DayLength - 1
        /\ prices'[u].eur \in 0..MaxPrice
  <2> SUFFICES ASSUME NEW u \in DOMAIN prices'
               PROVE  /\ u \in DayInstants(zone, 1)
                      /\ prices'[u].date_id = 1
                      /\ prices'[u].time_id = LocalTimeId(zone, u)
                      /\ prices'[u].time_id \in 0..DayLength - 1
                      /\ prices'[u].eur \in 0..MaxPrice
    OBVIOUS
  <2>1. CASE u \in DOMAIN df
    BY <1>4, <1>6, <2>1
  <2>2. CASE u \in DOMAIN prices \ DOMAIN df
    <3>1. /\ u \in DayInstants(zone, 1) /\ prices[u].date_id = 1
          /\ prices[u].time_id = LocalTimeId(zone, u) /\ prices[u].eur \in 0..MaxPrice
      BY <1>3, <2>2 DEF PricesLabelled
    <3>2. prices[u].time_id \in 0..DayLength - 1
      BY <1>3, <2>2 DEF TypeOK
    <3>3. QED
      BY <1>6, <2>2, <3>1, <3>2
  <2>3. QED
    BY <1>6, <2>1, <2>2
<1>8. TypeOK'
  <2>1. DOMAIN opcom' \subseteq Intervals' /\ RunDays' \subseteq 1..LastDay
    BY <1>1, <1>2 DEF IInv, TypeOK, Intervals
  <2>2. QED
    BY <1>1, <1>2, <1>7, <2>1 DEF IInv, TypeOK
<1>9. RunInTurn'
  BY <1>1, <1>2 DEF IInv, RunInTurn, Idle
<1>10. PricesLabelled' /\ FactsLabelled'
  BY <1>1, <1>7, FactsKept DEF IInv, PricesLabelled
<1>11. FactsBuilt'
  BY <1>2, NothingBuilt
<1>12. GenerationAddsUp'
  BY <1>1, <1>2, GenerationKept DEF IInv
<1>13. (NoPrices \/ PricesOnce)'
  <2>1. CASE NoPrices
    BY <1>1, <1>4, <1>6, <2>1 DEF NoPrices
  <2>2. CASE PricesOnce
    <3>1. NoReadings' = NoReadings
      BY DEF NoReadings
    <3>2. priceHourly = {} /\ signals = {}
      BY <1>2, <2>2 DEF PricesOnce, Idle
    <3>3. QED
      BY <1>1, <1>2, <2>2, <3>1, <3>2 DEF PricesOnce, Idle
  <2>3. QED
    BY <2>1, <2>2 DEF IInv
<1>14. QED
  BY <1>8, <1>9, <1>10, <1>11, <1>12, <1>13 DEF IInv

(* What a MERGE into the facts of some series leaves.                      *)
NewFacts(s) == FactsOf(zone, s, readings[s], run.from, run.to)

LEMMA MergedFacts ==
    ASSUME NEW series, MergeFacts(series), NEW s \in Series
    PROVE  /\ DOMAIN facts[s] \subseteq DOMAIN facts'[s]
           /\ s \notin series => facts'[s] = facts[s]
           /\ s \in series =>
                /\ DOMAIN facts'[s] = DOMAIN facts[s] \cup DOMAIN NewFacts(s)
                /\ \A h \in DOMAIN NewFacts(s) : facts'[s][h] = NewFacts(s)[h]
                /\ \A h \in DOMAIN facts[s] \ DOMAIN NewFacts(s) : facts'[s][h] = facts[s][h]
<1>1. facts'[s] = IF s \in series THEN MergeUpsert(facts[s], NewFacts(s)) ELSE facts[s]
  BY DEF MergeFacts, NewFacts
<1> DEFINE new == NewFacts(s)
<1>2. facts'[s] = IF s \in series THEN MergeUpsert(facts[s], new) ELSE facts[s]
  BY <1>1
<1> HIDE DEF new
<1>3. CASE s \in series
  <2>1. facts'[s] = MergeUpsert(facts[s], new)
    BY <1>2, <1>3
  <2>2. /\ DOMAIN facts'[s] = DOMAIN facts[s] \cup DOMAIN new
        /\ \A h \in DOMAIN new : facts'[s][h] = new[h]
        /\ \A h \in DOMAIN facts[s] \ DOMAIN new : facts'[s][h] = facts[s][h]
    BY ONLY <2>1 DEF MergeUpsert
  <2>3. QED
    BY <1>3, <2>2 DEF new
<1>4. CASE s \notin series
  BY <1>2, <1>4
<1>5. QED
  BY <1>3, <1>4

LEMMA NewFactRows ==
    ASSUME IInv, NEW s \in Series
    PROVE  /\ \A h \in DOMAIN NewFacts(s) :
                /\ h \in Int /\ h % INTERVALS_PER_HOUR = 0
                /\ LocalDate(zone, h) \in RunDays
                /\ Key(NewFacts(s)[h]) = <<LocalDate(zone, h), ClockHour(zone, h)>>
                /\ NewFacts(s)[h].date_id = LocalDate(zone, h)
                /\ NewFacts(s)[h].time_id \in 0..DayLength - 1
           /\ s \notin Unconfigured =>
                \A h \in Int :
                    Due(zone, run.from, run.to, h) /\ ReadingsIn(h, readings[s]) # {} =>
                        /\ h \in DOMAIN NewFacts(s)
                        /\ NewFacts(s)[h].readings = ReadingsIn(h, readings[s])
<1>1. GoodZone(zone) /\ readings[s] \in SUBSET Int
  BY ZonesAreGood, ReadingsAreInstants DEF IInv, TypeOK
<1>2. run.from \in 1..LastDay /\ run.to \in 1..LastDay
  BY DEF IInv, RunInTurn, RunType
<1> DEFINE R == readings[s]
           z == zone
           start == run.from
           end == run.to
<1>3. GoodZone(z) /\ R \in SUBSET Int /\ start \in 1..LastDay /\ end \in 1..LastDay
  BY <1>1, <1>2
<1> HIDE DEF R, z, start, end
<1> DEFINE new == FactsOf(z, s, R, start, end)
<1>4. ASSUME NEW h \in DOMAIN new
      PROVE  /\ h \in Int /\ h % INTERVALS_PER_HOUR = 0
             /\ LocalDate(z, h) \in start..end
             /\ Key(new[h]) = <<LocalDate(z, h), ClockHour(z, h)>>
             /\ new[h].date_id = LocalDate(z, h)
             /\ new[h].time_id \in 0..DayLength - 1
  BY <1>3, FactRowLabel
<1>5. ASSUME NEW h \in Int, s \notin Unconfigured, Due(z, start, end, h), ReadingsIn(h, R) # {}
      PROVE  h \in DOMAIN new /\ new[h].readings = ReadingsIn(h, R)
  BY <1>3, <1>5, FactRowDue
<1>6. NewFacts(s) = new /\ RunDays = start..end
  BY DEF NewFacts, RunDays, z, R, start, end
<1> HIDE DEF new
<1>7. QED
  BY <1>4, <1>5, <1>6 DEF z, R, start, end

(* The hours of a day are what the facts of the day are labelled by.       *)
LEMMA HoursAre ==
    ASSUME GoodZone(zone), NEW d \in Int, NEW h \in HoursOf(d)
    PROVE  h \in Int /\ h % INTERVALS_PER_HOUR = 0 /\ LocalDate(zone, h) = d
<1>1. h \in DayInstants(zone, d) /\ h % INTERVALS_PER_HOUR = 0
  BY DEF HoursOf
<1>2. QED
  BY <1>1, DayInstantsFinite, DayInstantsAre

LEMMA MergeFactsKeeps ==
    ASSUME IInv, NEW k \in 3..5, Doing(Steps[k]), NEW series, MergeFacts(series),
           \A s \in Series \ Unconfigured : Built(s)' => Built(s) \/ s \in series
    PROVE  IInv'
<1>1. UNCHANGED <<zone, slots, opcom, rated, readings, dims, prices,
                  priceHourly, generationHourly, signals>>
  BY DEF MergeFacts, bronze
<1>2. /\ run.step = k /\ run' \in RunType /\ run'.step = k + 1 /\ RunDays' = RunDays
      /\ run'.from = run.from /\ run'.to = run.to /\ run'.number = run.number
      /\ run.number # 0 /\ run'.step \in 0..Len(Steps)
      /\ run.from \in 1..LastDay /\ run.to \in 1..LastDay
  <2>1. run' = Advance(run) /\ k \in 1..8 /\ k # 8
    BY DEF MergeFacts
  <2>2. QED
    BY <2>1, StepOfRun
<1>3. GoodZone(zone) /\ RunDays \subseteq 1..LastDay /\ FactsLabelled
  BY ZonesAreGood DEF IInv, TypeOK
<1>4. \A s \in Series : \A h \in DOMAIN facts'[s] :
        /\ h \in Int /\ h % INTERVALS_PER_HOUR = 0
        /\ LocalDate(zone, h) \in 1..LastDay
        /\ Key(facts'[s][h]) = <<LocalDate(zone, h), ClockHour(zone, h)>>
        /\ facts'[s][h].time_id \in 0..DayLength - 1
        /\ facts'[s][h].date_id \in 1..LastDay
  <2> SUFFICES ASSUME NEW s \in Series, NEW h \in DOMAIN facts'[s]
               PROVE  /\ h \in Int /\ h % INTERVALS_PER_HOUR = 0
                      /\ LocalDate(zone, h) \in 1..LastDay
                      /\ Key(facts'[s][h]) = <<LocalDate(zone, h), ClockHour(zone, h)>>
                      /\ facts'[s][h].time_id \in 0..DayLength - 1
                      /\ facts'[s][h].date_id \in 1..LastDay
    OBVIOUS
  <2>1. CASE h \in DOMAIN facts[s] /\ facts'[s][h] = facts[s][h]
    <3>1. facts[s][h].time_id \in 0..DayLength - 1 /\ facts[s][h].date_id \in 1..LastDay
      BY <2>1 DEF IInv, TypeOK
    <3>2. QED
      BY <1>3, <2>1, <3>1 DEF FactsLabelled
  <2>2. CASE h \in DOMAIN NewFacts(s) /\ facts'[s][h] = NewFacts(s)[h]
    <3>1. /\ h \in Int /\ h % INTERVALS_PER_HOUR = 0
          /\ LocalDate(zone, h) \in RunDays
          /\ Key(NewFacts(s)[h]) = <<LocalDate(zone, h), ClockHour(zone, h)>>
          /\ NewFacts(s)[h].date_id = LocalDate(zone, h)
          /\ NewFacts(s)[h].time_id \in 0..DayLength - 1
      BY <2>2, NewFactRows
    <3>2. QED
      BY <1>3, <2>2, <3>1
  <2>3. QED
    BY <2>1, <2>2, MergedFacts
<1>5. TypeOK'
  <2>1. DOMAIN opcom' \subseteq Intervals' /\ RunDays' \subseteq 1..LastDay
    BY <1>1, <1>2 DEF IInv, TypeOK, Intervals
  <2>2. QED
    BY <1>1, <1>2, <1>4, <2>1 DEF IInv, TypeOK
<1>6. RunInTurn'
  BY <1>1, <1>2 DEF IInv, RunInTurn, Idle
<1>7. PricesLabelled'
  BY <1>1, LabelsKept DEF IInv
<1>8. FactsLabelled'
  BY <1>1, <1>4 DEF FactsLabelled
<1>9. FactsBuilt'
  <2> SUFFICES ASSUME NEW s \in Series \ Unconfigured, Built(s)',
                      NEW h \in UNION {HoursOf(d) : d \in RunDays}',
                      h >= run'.from * DayLength
               PROVE  FactIsCurrent(s, h)'
    BY DEF FactsBuilt
  <2>1. h \in UNION {HoursOf(d) : d \in RunDays} /\ h >= run.from * DayLength
    BY <1>1, <1>2 DEF RunDays, HoursOf
  <2>2. CASE s \notin series
    <3>1. FactIsCurrent(s, h)
      BY <2>1, <2>2 DEF IInv, FactsBuilt
    <3>2. facts'[s] = facts[s]
      BY <2>2, MergedFacts
    <3>3. QED
      BY <1>1, <3>1, <3>2 DEF FactIsCurrent
  <2>3. CASE s \in series
    <3> DEFINE current == ReadingsIn(h, readings[s])
    <3>1. h \in Int /\ h % INTERVALS_PER_HOUR = 0 /\ LocalDate(zone, h) \in RunDays
      <4>1. PICK d \in RunDays : h \in HoursOf(d)
        BY <2>1
      <4>2. d \in Int
        BY DEF RunDays
      <4>3. QED
        BY <1>3, <4>1, <4>2, HoursAre
    <3>2. current # {} => /\ h \in DOMAIN NewFacts(s)
                         /\ NewFacts(s)[h].readings = current
                         /\ Key(NewFacts(s)[h]) = <<LocalDate(zone, h), ClockHour(zone, h)>>
      <4>1. Due(zone, run.from, run.to, h)
        BY <2>1, <3>1 DEF Due, RunDays
      <4>2. QED
        BY <3>1, <4>1, NewFactRows
    <3>3. current # {} => h \in DOMAIN facts'[s] /\ facts'[s][h] = NewFacts(s)[h]
      BY <2>3, <3>2, MergedFacts
    <3>4. QED
      BY <1>1, <3>2, <3>3 DEF FactIsCurrent, ReadingsIn
  <2>4. QED
    BY <2>2, <2>3
<1>10. GenerationAddsUp'
  <2>1. run'.step \in 0..7
    BY <1>2
  <2>2. QED
    BY <1>1, <2>1, GenerationKept DEF IInv
<1>11. (NoPrices \/ PricesOnce)'
  BY <1>1, <1>2, PricesKept DEF IInv
<1>12. QED
  BY <1>5, <1>6, <1>7, <1>8, <1>9, <1>10, <1>11 DEF IInv

LEMMA FactGenerationKeeps ==
    ASSUME IInv, FactGeneration
    PROVE  IInv'
<1>1. Doing(Steps[3]) /\ MergeFacts(Types) /\ run' = Advance(run)
  BY DEF FactGeneration, Steps, MergeFacts
<1>2. run'.step = 4
  BY <1>1, StepOfRun
<1>3. \A s \in Series \ Unconfigured : Built(s)' => Built(s) \/ s \in Types
  BY <1>2 DEF Built
<1>4. QED
  BY <1>1, <1>3, MergeFactsKeeps

LEMMA FactLoadKeeps ==
    ASSUME IInv, FactLoad
    PROVE  IInv'
<1>1. Doing(Steps[4]) /\ MergeFacts({Load}) /\ run' = Advance(run)
  BY DEF FactLoad, Steps, MergeFacts
<1>2. run.step = 4 /\ run'.step = 5
  BY <1>1, StepOfRun
<1>3. \A s \in Series \ Unconfigured : Built(s)' => Built(s) \/ s \in {Load}
  BY <1>2 DEF Built
<1>4. QED
  BY <1>1, <1>3, MergeFactsKeeps

LEMMA FactWeatherKeeps ==
    ASSUME IInv, FactWeather
    PROVE  IInv'
<1>1. Doing(Steps[5]) /\ MergeFacts(Locations \cup Unconfigured) /\ run' = Advance(run)
  BY DEF FactWeather, Steps, MergeFacts
<1>2. run.step = 5 /\ run'.step = 6
  BY <1>1, StepOfRun
<1>3. \A s \in Series \ Unconfigured : Built(s)' => Built(s) \/ s \in Locations \cup Unconfigured
  BY <1>2 DEF Built
<1>4. QED
  BY <1>1, <1>3, MergeFactsKeeps

(* On a run of day 1, the row of an hour is labelled by its own instant.   *)
LEMMA HourRowIs ==
    ASSUME TypeOK, PricesLabelled, 1 \in dims, InRange = DOMAIN prices,
           NEW u \in DOMAIN prices, NEW h, h = HourStart(zone, u)
    PROVE  h \in HoursOf(1) /\ HourRow(h) = DayHourRow(h)
<1>1. zone \in Zones /\ GoodZone(zone) /\ dims \subseteq 1..LastDay
  BY ZonesAreGood DEF TypeOK
<1>2. u \in Int /\ LocalDate(zone, u) = 1
  <2>1. u \in DayInstants(zone, 1)
    BY DEF PricesLabelled
  <2>2. QED
    BY <1>1, <2>1, DayInstantsFinite, DayInstantsAre
<1>3. h \in Int /\ h % INTERVALS_PER_HOUR = 0 /\ LocalDate(zone, h) = 1
  <2>1. h \in Int /\ h % INTERVALS_PER_HOUR = 0 /\ u \in h..h + INTERVALS_PER_HOUR - 1
    BY <1>2, HourOf
  <2>2. QED
    BY <1>1, <1>2, <2>1, HourHasOneLabel
<1>4. h \in DayInstants(zone, 1)
  BY <1>1, <1>3, DayInstantsAre
<1> DEFINE row == IntervalAt(zone, 1, h)
<1>5. /\ row \in Axis /\ row.timestamp_utc = h /\ row.date_id = 1
      /\ row.local_time_id = LocalTimeId(zone, h)
  BY <1>1, <1>4, AxisIs, IntervalsAre
<1>6. ASSUME NEW i \in Axis, i.timestamp_utc = h
      PROVE  i = row
  BY <1>1, <1>3, <1>6, AxisRow
<1> HIDE DEF row
<1>7. (CHOOSE i \in Axis : i.timestamp_utc = h) = row
  BY <1>5, <1>6
<1>8. HourRow(h) = [at |-> h, date_id |-> row.date_id, time_id |-> row.local_time_id,
                    is_repeated_hour |-> row.is_repeated_hour,
                    is_peak |-> LocalHour(zone, h) \in PeakStart..PeakEnd - 1,
                    averages |-> {v \in DOMAIN prices : HourStart(zone, v) = h}]
  BY <1>7 DEF HourRow
<1>9. QED
  BY <1>3, <1>4, <1>5, <1>8 DEF HoursOf, DayHourRow, row

(* What a run of day 1 sees of the prices.                                 *)
LEMMA AllInRange ==
    ASSUME IInv, PricesOnce, run.number # 0
    PROVE  InRange = DOMAIN prices /\ run.number = 1 /\ RunDays = {1}
<1>1. run.from = 1 /\ run.to = 1 /\ run.number = 1
  BY DEF IInv, RunInTurn, RunType, PricesOnce
<1>2. RunDays = {1}
  BY <1>1 DEF RunDays
<1>3. QED
  BY <1>1, <1>2 DEF InRange, IInv, PricesLabelled

LEMMA PriceHourlyKeeps ==
    ASSUME IInv, PriceHourly
    PROVE  IInv'
<1>1. UNCHANGED <<zone, slots, opcom, rated, readings, dims, prices, facts,
                  generationHourly, signals>>
  BY DEF PriceHourly, bronze
<1>2. /\ run.step = 6 /\ run' \in RunType /\ run'.step = 7 /\ RunDays' = RunDays
      /\ run'.from = run.from /\ run'.to = run.to /\ run'.number = run.number
      /\ run.number # 0 /\ run'.step \in 0..Len(Steps)
  <2>1. Doing(Steps[6]) /\ run' = Advance(run)
    BY DEF PriceHourly, Steps
  <2>2. QED
    BY <2>1, StepOfRun
<1>3. TypeOK'
  <2>1. DOMAIN opcom' \subseteq Intervals' /\ RunDays' \subseteq 1..LastDay
    BY <1>1, <1>2 DEF IInv, TypeOK, Intervals
  <2>2. QED
    BY <1>1, <1>2, <2>1 DEF IInv, TypeOK
<1>4. RunInTurn'
  BY <1>1, <1>2 DEF IInv, RunInTurn, Idle
<1>5. PricesLabelled' /\ FactsLabelled'
  BY <1>1, LabelsKept, FactsKept DEF IInv
<1>6. FactsBuilt'
  <2>1. \A s \in Series \ Unconfigured : Built(s)' => Built(s)
    BY <1>2 DEF Built
  <2>2. QED
    BY <1>1, <1>2, <2>1, BuiltKept DEF IInv
<1>7. GenerationAddsUp'
  BY <1>1, <1>2, GenerationKept DEF IInv
<1>8. (NoPrices \/ PricesOnce)'
  <2> DEFINE kept == {r \in priceHourly : r.date_id \notin RunDays}
             rows == {HourRow(h) : h \in {HourStart(zone, u) : u \in InRange}}
  <2>1. priceHourly' = kept \cup rows
    BY DEF PriceHourly
  <2>2. CASE NoPrices
    <3>1. InRange = {} /\ priceHourly = {}
      BY <2>2 DEF NoPrices, InRange
    <3>2. priceHourly' = {}
      BY <2>1, <3>1
    <3>3. QED
      BY <1>1, <2>2, <3>2 DEF NoPrices
  <2>3. CASE PricesOnce
    <3>1. InRange = DOMAIN prices /\ run.number = 1 /\ RunDays = {1}
      BY <1>2, <2>3, AllInRange
    <3>2. priceHourly = {} /\ signals = {}
      BY <1>2, <2>3 DEF PricesOnce, Idle
    <3>3. 1 \in dims /\ TypeOK /\ PricesLabelled
      BY <1>2, <3>1 DEF IInv, RunInTurn
    <3>4. \A u \in DOMAIN prices : HourRow(HourStart(zone, u)) = DayHourRow(HourStart(zone, u))
      BY <3>1, <3>3, HourRowIs
    <3>5. rows = HourTable
      BY <3>1, <3>4 DEF HourTable
    <3>6. kept = {}
      BY <3>2
    <3> HIDE DEF kept, rows
    <3>7. priceHourly' = HourTable'
      <4>1. HourTable' = HourTable
        BY <1>1, TablesSame
      <4>2. QED
        BY <2>1, <3>5, <3>6, <4>1
    <3>8. NoReadings' = NoReadings
      BY DEF NoReadings
    <3>9. QED
      BY <1>1, <1>2, <2>3, <3>1, <3>2, <3>7, <3>8 DEF PricesOnce, Idle
  <2>4. QED
    BY <2>2, <2>3 DEF IInv
<1>9. QED
  BY <1>3, <1>4, <1>5, <1>6, <1>7, <1>8 DEF IInv

(* A label that is not repeated is the label of one hour at most.          *)
LEMMA OneHour ==
    ASSUME GoodZone(zone), FactsLabelled, NEW t \in Series, NEW key, ~ Repeated(key[1], key[2]),
           NEW g \in Hours(facts, t, key), NEW h \in Hours(facts, t, key)
    PROVE  g = h
<1>1. ASSUME NEW x \in Hours(facts, t, key)
      PROVE  x \in Int /\ x \in HoursOf(key[1]) /\ ClockHour(zone, x) = key[2]
  <2>1. x \in DOMAIN facts[t] /\ Key(facts[t][x]) = key
    BY DEF Hours
  <2>2. /\ x \in Int /\ x % INTERVALS_PER_HOUR = 0
        /\ LocalDate(zone, x) \in 1..LastDay
        /\ key = <<LocalDate(zone, x), ClockHour(zone, x)>>
    BY <2>1 DEF FactsLabelled
  <2>3. key[1] = LocalDate(zone, x) /\ key[2] = ClockHour(zone, x)
    BY <2>2
  <2>4. key[1] \in Int
    BY <2>2, <2>3, DayAssumption
  <2>5. x \in DayInstants(zone, key[1])
    BY <2>2, <2>3, <2>4, DayInstantsAre
  <2>6. QED
    BY <2>2, <2>3, <2>5 DEF HoursOf
<1>2. /\ g \in Int /\ g \in HoursOf(key[1]) /\ ClockHour(zone, g) = key[2]
      /\ h \in Int /\ h \in HoursOf(key[1]) /\ ClockHour(zone, h) = key[2]
  BY <1>1
<1>3. ~ g < h /\ ~ h < g
  BY <1>2 DEF Repeated
<1>4. QED
  BY <1>2, <1>3

(* The rows the pivot may write.                                           *)
LEMMA RowsOfGeneration ==
    ASSUME GoodZone(zone), FactsLabelled, NEW start, NEW end,
           NEW rows \in GenerationRows(facts, start, end)
    PROVE  /\ KeysOf(facts, Canonical, start, end) = {r.key : r \in rows}
           /\ \A r \in rows : ~ Repeated(r.key[1], r.key[2]) =>
                                r.columns \cup r.discovered = r.total
<1> DEFINE keys == KeysOf(facts, Canonical, start, end)
           Row(key, columns) ==
               [key |-> key,
                total |-> Totals(facts, key),
                columns |-> {<<t, columns[t]>> : t \in DOMAIN columns},
                discovered |-> Contributions(facts, Discovered, key)]
<1>1. PICK pick \in [keys -> UNION {Columns(facts, key) : key \in keys}] :
          /\ \A key \in keys : pick[key] \in Columns(facts, key)
          /\ rows = {Row(key, pick[key]) : key \in keys}
  BY DEF GenerationRows
<1> HIDE DEF keys
<1>2. keys = {r.key : r \in rows}
  <2>1. \A key \in keys : Row(key, pick[key]).key = key
    OBVIOUS
  <2> HIDE DEF Row
  <2>2. QED
    BY <1>1, <2>1
<1>3. ASSUME NEW r \in rows, ~ Repeated(r.key[1], r.key[2])
      PROVE  r.columns \cup r.discovered = r.total
  <2>1. PICK key \in keys : r = Row(key, pick[key])
    BY <1>1
  <2> DEFINE columns == pick[key]
             filled == {t \in Canonical : Hours(facts, t, key) # {}}
  <2>2. columns \in Columns(facts, key)
    BY <1>1
  <2>3. DOMAIN columns = filled /\ \A t \in filled : columns[t] \in Hours(facts, t, key)
    BY <2>2 DEF Columns
  <2>4. /\ r.key = key /\ r.total = Totals(facts, key)
        /\ r.columns = {<<t, columns[t]>> : t \in filled}
        /\ r.discovered = Contributions(facts, Discovered, key)
    BY <2>1, <2>3
  <2> HIDE DEF Row, columns
  <2>5. ASSUME NEW t \in Types, NEW g \in Hours(facts, t, key), NEW h \in Hours(facts, t, key)
        PROVE  g = h
    <3>1. t \in Series /\ ~ Repeated(key[1], key[2])
      BY <1>3, <2>4 DEF Series
    <3>2. QED
      BY <3>1, OneHour
  <2>6. /\ \A x : x \in r.total <=> \E t \in Types : \E h \in Hours(facts, t, key) : x = <<t, h>>
        /\ \A x : x \in r.discovered
               <=> \E t \in Discovered : \E h \in Hours(facts, t, key) : x = <<t, h>>
    BY <2>4 DEF Totals, Contributions
  <2>7. ASSUME NEW x \in r.total
        PROVE  x \in r.columns \cup r.discovered
    <3>1. PICK t \in Types : \E h \in Hours(facts, t, key) : x = <<t, h>>
      BY <2>6
    <3>2. PICK h \in Hours(facts, t, key) : x = <<t, h>>
      BY <3>1
    <3>3. CASE t \in Canonical
      <4>1. t \in filled
        BY <3>3
      <4>2. columns[t] = h
        BY <2>3, <2>5, <4>1
      <4>3. QED
        BY <2>4, <3>2, <4>1, <4>2
    <3>4. CASE t \in Discovered
      BY <2>6, <3>2, <3>4
    <3>5. QED
      BY <3>3, <3>4 DEF Types
  <2>8. ASSUME NEW x \in r.columns \cup r.discovered
        PROVE  x \in r.total
    <3>1. CASE x \in r.columns
      <4>1. PICK t \in filled : x = <<t, columns[t]>>
        BY <2>4, <3>1
      <4>2. t \in Types /\ columns[t] \in Hours(facts, t, key)
        BY <2>3 DEF Types
      <4>3. QED
        BY <2>6, <4>1, <4>2
    <3>2. CASE x \in r.discovered
      BY <2>6, <3>2 DEF Types
    <3>3. QED
      BY <3>1, <3>2
  <2>9. QED
    BY <2>7, <2>8
<1>4. QED
  BY <1>2, <1>3 DEF keys

LEMMA GenerationHourlyKeeps ==
    ASSUME IInv, GenerationHourly
    PROVE  IInv'
<1>1. UNCHANGED <<zone, slots, opcom, rated, readings, dims, prices, facts,
                  priceHourly, signals>>
  BY DEF GenerationHourly, bronze
<1>2. /\ run.step = 7 /\ run' \in RunType /\ run'.step = 8 /\ RunDays' = RunDays
      /\ run'.from = run.from /\ run'.to = run.to /\ run'.number = run.number
      /\ run.number # 0 /\ run'.step \in 0..Len(Steps)
  <2>1. Doing(Steps[7]) /\ run' = Advance(run)
    BY DEF GenerationHourly, Steps
  <2>2. QED
    BY <2>1, StepOfRun
<1>3. TypeOK'
  <2>1. DOMAIN opcom' \subseteq Intervals' /\ RunDays' \subseteq 1..LastDay
    BY <1>1, <1>2 DEF IInv, TypeOK, Intervals
  <2>2. QED
    BY <1>1, <1>2, <2>1 DEF IInv, TypeOK
<1>4. RunInTurn'
  BY <1>1, <1>2 DEF IInv, RunInTurn, Idle
<1>5. PricesLabelled' /\ FactsLabelled'
  BY <1>1, LabelsKept, FactsKept DEF IInv
<1>6. FactsBuilt'
  <2>1. \A s \in Series \ Unconfigured : Built(s)' => Built(s)
    BY <1>2 DEF Built
  <2>2. QED
    BY <1>1, <1>2, <2>1, BuiltKept DEF IInv
<1>7. GenerationAddsUp'
  <2>1. PICK rows \in GenerationRows(facts, run.from, run.to) :
            generationHourly' = {r \in generationHourly : r.key[1] \notin RunDays} \cup rows
    BY DEF GenerationHourly
  <2>2. GoodZone(zone) /\ FactsLabelled
    BY ZonesAreGood DEF IInv, TypeOK
  <2>3. /\ KeysOf(facts, Canonical, run.from, run.to) = {r.key : r \in rows}
        /\ \A r \in rows : ~ Repeated(r.key[1], r.key[2]) => r.columns \cup r.discovered = r.total
    BY <2>2, RowsOfGeneration
  <2>4. \A d, t : Repeated(d, t)' = Repeated(d, t)
    BY <1>1 DEF Repeated, HoursOf
  <2>5. \A r \in generationHourly' :
            ~ Repeated(r.key[1], r.key[2])' => r.columns \cup r.discovered = r.total
    BY <2>1, <2>3, <2>4 DEF IInv, GenerationAddsUp
  <2>6. KeysOf(facts, Canonical, run.from, run.to)' = KeysOf(facts, Canonical, run.from, run.to)
    BY <1>1, <1>2 DEF KeysOf
  <2>7. KeysOf(facts, Canonical, run.from, run.to)' \subseteq HasRows'
    <3>1. {r.key : r \in rows} \subseteq HasRows'
      BY <2>1 DEF HasRows
    <3>2. QED
      BY <2>3, <2>6, <3>1
  <2>8. QED
    BY <2>5, <2>7 DEF GenerationAddsUp
<1>8. (NoPrices \/ PricesOnce)'
  BY <1>1, <1>2, PricesKept DEF IInv
<1>9. QED
  BY <1>3, <1>4, <1>5, <1>6, <1>7, <1>8 DEF IInv

LEMMA BuildSignalsKeeps ==
    ASSUME IInv, BuildSignals
    PROVE  IInv'
<1>1. UNCHANGED <<zone, slots, opcom, rated, readings, dims, prices, facts,
                  priceHourly, generationHourly>>
  BY DEF BuildSignals, bronze
<1>2. /\ run.step = 8 /\ run' \in RunType /\ run'.step = 0 /\ RunDays' = RunDays
      /\ run'.from = run.from /\ run'.to = run.to /\ run'.number = run.number
      /\ run.number # 0 /\ run'.step \in 0..Len(Steps)
  <2>1. Doing(Steps[8]) /\ run' = Advance(run)
    BY DEF BuildSignals, Steps
  <2>2. QED
    BY <2>1, StepOfRun
<1> DEFINE kept == {r \in signals : r.date_id \notin RunDays}
           rows == {SignalRow(u) : u \in InRange}
<1>3. signals' = kept \cup rows
  BY DEF BuildSignals
<1>4. TypeOK'
  <2>1. DOMAIN opcom' \subseteq Intervals' /\ RunDays' \subseteq 1..LastDay
    BY <1>1, <1>2 DEF IInv, TypeOK, Intervals
  <2>2. ASSUME NEW u \in InRange
        PROVE  SignalRow(u).signal \in {-1, 0, 1} /\ SignalRow(u).time_id \in 0..DayLength - 1
    <3>1. prices[u].time_id \in 0..DayLength - 1
      BY DEF IInv, TypeOK, InRange
    <3>2. SignalRow(u).time_id = prices[u].time_id
      BY DEF SignalRow
    <3>3. \A day : Signal(day, slots, u) \in {-1, 0, 1}
      BY DEF Signal
    <3>4. SignalRow(u).signal \in {-1, 0, 1}
      BY <3>3 DEF SignalRow
    <3>5. QED
      BY <3>1, <3>2, <3>4
  <2>3. \A r \in signals' : r.signal \in {-1, 0, 1} /\ r.time_id \in 0..DayLength - 1
    <3>1. \A r \in kept : r.signal \in {-1, 0, 1} /\ r.time_id \in 0..DayLength - 1
      BY DEF IInv, TypeOK
    <3>2. \A r \in rows : r.signal \in {-1, 0, 1} /\ r.time_id \in 0..DayLength - 1
      BY <2>2
    <3> HIDE DEF kept, rows
    <3>3. QED
      BY <1>3, <3>1, <3>2
  <2>4. QED
    BY <1>1, <1>2, <2>1, <2>3 DEF IInv, TypeOK
<1>5. RunInTurn'
  BY <1>1, <1>2 DEF IInv, RunInTurn, Idle
<1>6. PricesLabelled' /\ FactsLabelled'
  BY <1>1, LabelsKept, FactsKept DEF IInv
<1>7. FactsBuilt'
  BY <1>2, NothingBuilt
<1>8. GenerationAddsUp'
  BY <1>1, <1>2, GenerationKept DEF IInv
<1>9. (NoPrices \/ PricesOnce)'
  <2>1. CASE NoPrices
    <3>1. InRange = {} /\ signals = {}
      BY <2>1 DEF NoPrices, InRange
    <3>2. signals' = {}
      BY <1>3, <3>1
    <3>3. QED
      BY <1>1, <2>1, <3>2 DEF NoPrices
  <2>2. CASE PricesOnce
    <3>1. InRange = DOMAIN prices /\ run.number = 1 /\ RunDays = {1}
      BY <1>2, <2>2, AllInRange
    <3>2. signals = {} /\ priceHourly = HourTable
      BY <1>2, <2>2, <3>1 DEF PricesOnce, Idle
    <3>3. ASSUME NEW u \in DOMAIN prices
          PROVE  SignalRow(u) = DaySignalRow(u)
      <4>1. \A w \in DOMAIN prices : prices[w].date_id = 1
        BY DEF IInv, PricesLabelled
      <4>2. {w \in InRange : prices[w].date_id = prices[u].date_id} = DOMAIN prices
        BY <3>1, <4>1
      <4>3. [v \in {w \in InRange : prices[w].date_id = prices[u].date_id} |-> prices[v].eur]
               = DayPrices
        BY <4>2 DEF DayPrices
      <4>4. QED
        BY <4>1, <4>3 DEF SignalRow, DaySignalRow
    <3>4. rows = SignalTable
      BY <3>1, <3>3 DEF SignalTable
    <3>5. kept = {}
      BY <3>2
    <3> HIDE DEF kept, rows
    <3>6. signals' = SignalTable' /\ priceHourly' = HourTable'
      <4>1. HourTable' = HourTable /\ SignalTable' = SignalTable
        BY <1>1, TablesSame
      <4>2. QED
        BY <1>1, <1>3, <3>2, <3>4, <3>5, <4>1
    <3>7. NoReadings' = NoReadings
      BY DEF NoReadings
    <3>8. QED
      BY <1>1, <1>2, <2>2, <3>1, <3>6, <3>7 DEF PricesOnce, Idle
  <2>3. QED
    BY <2>1, <2>2 DEF IInv
<1>10. QED
  BY <1>4, <1>5, <1>6, <1>7, <1>8, <1>9 DEF IInv

(* The API reads, and a step may change nothing.                           *)
LEMMA ReadingKeeps ==
    ASSUME IInv, UNCHANGED <<bronze, readings, run, tables>>
    PROVE  IInv'
<1>1. UNCHANGED <<zone, slots, opcom, rated, readings, run, dims, prices, facts,
                  priceHourly, generationHourly, signals>>
  BY DEF bronze, tables
<1>2. TypeOK'
  <2>1. DOMAIN opcom' \subseteq Intervals' /\ RunDays' \subseteq 1..LastDay
    BY <1>1 DEF IInv, TypeOK, Intervals, RunDays
  <2>2. QED
    BY <1>1, <2>1 DEF IInv, TypeOK
<1>3. RunInTurn'
  BY <1>1 DEF IInv, RunInTurn, Idle, RunDays
<1>4. PricesLabelled' /\ FactsLabelled'
  BY <1>1, LabelsKept, FactsKept DEF IInv
<1>5. FactsBuilt'
  <2>1. \A s \in Series \ Unconfigured : Built(s)' => Built(s)
    BY <1>1 DEF Built
  <2>2. QED
    BY <1>1, <2>1, BuiltKept DEF IInv
<1>6. GenerationAddsUp'
  <2>1. /\ \A d, t : Repeated(d, t)' = Repeated(d, t)
        /\ Doing("bess_signals")' = Doing("bess_signals")
        /\ KeysOf(facts, Canonical, run.from, run.to)' = KeysOf(facts, Canonical, run.from, run.to)
        /\ HasRows' = HasRows
    BY <1>1 DEF Repeated, HoursOf, Doing, Idle, KeysOf, HasRows
  <2>2. QED
    BY <1>1, <2>1 DEF IInv, GenerationAddsUp
<1>7. (NoPrices \/ PricesOnce)'
  BY <1>1, PricesKept DEF IInv
<1>8. QED
  BY <1>2, <1>3, <1>4, <1>5, <1>6, <1>7 DEF IInv

LEMMA InitEstablishes == Init => IInv
<1> SUFFICES ASSUME Init PROVE IInv
  OBVIOUS
<1>1. /\ zone \in Zones /\ slots \in Slots /\ rated \in BOOLEAN
      /\ run = [from |-> 1, to |-> 1, step |-> 0, number |-> 0]
      /\ dims = {} /\ prices = <<>> /\ facts = [s \in Series |-> <<>>]
      /\ priceHourly = {} /\ generationHourly = {} /\ signals = {}
  BY DEF Init
<1>2. run.from = 1 /\ run.to = 1 /\ run.step = 0 /\ run.number = 0 /\ 1 \in 1..LastDay
  BY <1>1, DayAssumption
<1>3. DOMAIN prices = {} /\ \A s \in Series : DOMAIN facts[s] = {}
  BY <1>1
<1>4. /\ DOMAIN opcom \subseteq Intervals /\ Range(opcom) \subseteq 1..MaxPrice
      /\ \A s \in Series : readings[s] \subseteq Instants(s, LastDay)
      /\ NoPrices \/ PricesOnce
  <2>1. CASE /\ \E missing \in UNION {kSubset(n, Intervals) : n \in 0..MaxMissing} :
                    opcom \in [Intervals \ missing -> 1..MaxPrice]
             /\ readings = NoReadings
    <3>1. PICK missing : opcom \in [Intervals \ missing -> 1..MaxPrice]
      BY <2>1
    <3>2. DOMAIN opcom \subseteq Intervals /\ Range(opcom) \subseteq 1..MaxPrice
      BY <3>1 DEF Range
    <3>3. \A s \in Series : readings[s] \subseteq Instants(s, LastDay)
      BY <2>1 DEF NoReadings
    <3>4. PricesOnce
      BY <1>1, <1>2, <2>1 DEF PricesOnce
    <3>5. QED
      BY <3>2, <3>3, <3>4
  <2>2. CASE /\ opcom = <<>>
             /\ \E late \in Gaps :
                  readings = [s \in Series |-> {u \in Instants(s, LastDay) : <<s, u>> \notin late}]
    <3>1. DOMAIN opcom = {}
      BY <2>2
    <3>2. Range(opcom) = {}
      BY <3>1 DEF Range
    <3>3. \A s \in Series : readings[s] \subseteq Instants(s, LastDay)
      BY <2>2
    <3>4. QED
      BY <1>1, <1>3, <3>1, <3>2, <3>3 DEF NoPrices
  <2>3. QED
    BY <2>1, <2>2 DEF Init
<1>5. TypeOK
  <2>1. RunDays \subseteq 1..LastDay
    BY <1>2, DayAssumption DEF RunDays
  <2>2. run.step \in 0..Len(Steps)
    BY <1>2 DEF Steps
  <2>3. QED
    BY <1>1, <1>3, <1>4, <2>1, <2>2 DEF TypeOK
<1>6. RunInTurn
  BY <1>1, <1>2 DEF RunInTurn, RunType, Idle
<1>7. PricesLabelled /\ FactsLabelled
  BY <1>3 DEF PricesLabelled, FactsLabelled
<1>8. FactsBuilt
  BY <1>2 DEF FactsBuilt, Built
<1>9. GenerationAddsUp
  BY <1>1, <1>2 DEF GenerationAddsUp, Doing, Idle
<1>10. QED
  BY <1>4, <1>5, <1>6, <1>7, <1>8, <1>9 DEF IInv

LEMMA NextKeeps == IInv /\ [Next]_vars => IInv'
<1> SUFFICES ASSUME IInv, [Next]_vars PROVE IInv'
  OBVIOUS
<1>1. CASE StartRun
  BY <1>1, StartRunKeeps
<1>2. CASE Complete
  BY <1>2, CompleteKeeps
<1>3. CASE DimDatetime
  BY <1>3, DimDatetimeKeeps
<1>4. CASE FactPrice
  BY <1>4, FactPriceKeeps
<1>5. CASE FactGeneration
  BY <1>5, FactGenerationKeeps
<1>6. CASE FactLoad
  BY <1>6, FactLoadKeeps
<1>7. CASE FactWeather
  BY <1>7, FactWeatherKeeps
<1>8. CASE PriceHourly
  BY <1>8, PriceHourlyKeeps
<1>9. CASE GenerationHourly
  BY <1>9, GenerationHourlyKeeps
<1>10. CASE BuildSignals
  BY <1>10, BuildSignalsKeeps
<1>11. CASE Serve
  BY <1>11, ReadingKeeps DEF Serve
<1>12. CASE UNCHANGED vars
  BY <1>12, ReadingKeeps DEF vars
<1>13. QED
  BY <1>1, <1>2, <1>3, <1>4, <1>5, <1>6, <1>7, <1>8, <1>9, <1>10, <1>11, <1>12 DEF Next

LEMMA Inductive == Spec => []IInv
<1>1. QED
  BY InitEstablishes, NextKeeps, PTL DEF Spec

------------------------------------------------------------------------------
(* What holds of every run.                                                *)

(* timeaxis.py: dim_datetime has one row for each instant of its days,     *)
(* numbered like OPCOM does, and its labels tell repeated hours apart.     *)
THEOREM AxisSound == Spec => []AxisIsSound
<1>1. IInv => AxisIsSound
  BY AxisAlwaysHolds DEF IInv, TypeOK, AxisIsSound
<1>2. QED
  BY <1>1, Inductive, PTL

(* fact_generation.py, fact_load.py, fact_weather.py: once a run has built *)
(* its facts, the fact of an hour averages all readings Bronze has of it,  *)
(* what came late included, under the label of its own clock.              *)
THEOREM FactsCurrent == Spec => []FactsMatchBronze
<1>1. IInv => FactsMatchBronze
  <2> SUFFICES ASSUME IInv, Doing("bess_signals"), NEW s \in Series \ Unconfigured,
                      NEW h \in UNION {HoursOf(d) : d \in RunDays}, h >= run.from * DayLength
               PROVE  FactIsCurrent(s, h)
    BY DEF FactsMatchBronze
  <2>1. run.step = 8
    <3>1. run.step \in 0..8
      BY DEF IInv, RunInTurn, RunType
    <3>2. QED
      BY <3>1, StepNames DEF Doing, Idle
  <2>2. Built(s)
    BY <2>1 DEF Built, Series
  <2>3. QED
    BY <2>2 DEF IInv, FactsBuilt
<1>2. QED
  BY <1>1, Inductive, PTL

(* gold_generation_hourly.py: the columns of a row add up to its total,    *)
(* save where a local hour repeats, and no measured hour is missing.       *)
THEOREM GenerationSums == Spec => []GenerationAddsUp
<1>1. IInv => GenerationAddsUp
  BY DEF IInv
<1>2. QED
  BY <1>1, Inductive, PTL

LEMMA MergeOfItsDates ==
    ASSUME IInv, NEW series, MergeFacts(series), NEW s \in Series,
           NEW h \in DOMAIN facts[s] \cup DOMAIN facts'[s]
    PROVE  IF h \notin DOMAIN facts[s] THEN facts'[s][h].date_id \in RunDays
           ELSE facts'[s][h] # facts[s][h] => facts[s][h].date_id \in RunDays
<1>1. CASE h \in DOMAIN NewFacts(s) /\ facts'[s][h] = NewFacts(s)[h]
  <2>1. LocalDate(zone, h) \in RunDays /\ NewFacts(s)[h].date_id = LocalDate(zone, h)
    BY <1>1, NewFactRows
  <2>2. ASSUME h \in DOMAIN facts[s]
        PROVE  facts[s][h].date_id = LocalDate(zone, h)
    <3>1. Key(facts[s][h]) = <<LocalDate(zone, h), ClockHour(zone, h)>>
      BY <2>2 DEF IInv, FactsLabelled
    <3>2. QED
      BY <3>1 DEF Key
  <2>3. QED
    BY <1>1, <2>1, <2>2
<1>2. CASE h \in DOMAIN facts[s] /\ facts'[s][h] = facts[s][h]
  BY <1>2
<1>3. QED
  BY <1>1, <1>2, MergedFacts

(* fact_generation.py: a run changes no row of another date.               *)
THEOREM DatesKept == Spec => OnlyItsDates
<1> DEFINE Merged == \A s \in Series : \A h \in DOMAIN facts[s] \cup DOMAIN facts'[s] :
                         LET new == h \notin DOMAIN facts[s]
                         IN  IF new THEN facts'[s][h].date_id \in RunDays
                             ELSE facts'[s][h] # facts[s][h] => facts[s][h].date_id \in RunDays
           Replaced == \A r \in (generationHourly \ generationHourly')
                                \cup (generationHourly' \ generationHourly) :
                           r.key[1] \in RunDays
<1>1. IInv /\ [Next]_vars => [Merged /\ Replaced]_tables
  <2> SUFFICES ASSUME IInv, [Next]_vars
               PROVE  (Merged /\ Replaced) \/ UNCHANGED tables
    OBVIOUS
  <2>1. facts' = facts => Merged
    OBVIOUS
  <2>2. generationHourly' = generationHourly => Replaced
    OBVIOUS
  <2>3. ASSUME NEW series, MergeFacts(series)
        PROVE  Merged /\ Replaced
    <3>1. Merged
      BY <2>3, MergeOfItsDates
    <3>2. generationHourly' = generationHourly
      BY <2>3 DEF MergeFacts
    <3>3. QED
      BY <2>2, <3>1, <3>2
  <2>4. CASE FactGeneration \/ FactLoad \/ FactWeather
    <3>1. MergeFacts(Types) \/ MergeFacts({Load}) \/ MergeFacts(Locations \cup Unconfigured)
      BY <2>4 DEF FactGeneration, FactLoad, FactWeather
    <3> HIDE DEF Merged, Replaced
    <3>2. QED
      BY <2>3, <3>1
  <2>5. CASE GenerationHourly
    <3>1. PICK rows \in GenerationRows(facts, run.from, run.to) :
              generationHourly' = {r \in generationHourly : r.key[1] \notin RunDays} \cup rows
      BY <2>5 DEF GenerationHourly
    <3>2. KeysOf(facts, Canonical, run.from, run.to) = {r.key : r \in rows}
      BY RowsOfGeneration, ZonesAreGood DEF IInv, TypeOK
    <3>3. \A r \in rows : r.key[1] \in RunDays
      BY <3>2 DEF KeysOf, RunDays
    <3>4. Replaced
      BY <3>1, <3>3
    <3>5. facts' = facts
      BY <2>5 DEF GenerationHourly
    <3>6. QED
      BY <2>1, <3>4, <3>5
  <2>6. CASE DimDatetime \/ FactPrice \/ PriceHourly \/ BuildSignals
    <3>1. facts' = facts /\ generationHourly' = generationHourly
      BY <2>6 DEF DimDatetime, FactPrice, PriceHourly, BuildSignals
    <3>2. QED
      BY <2>1, <2>2, <3>1
  <2>7. CASE StartRun \/ Complete \/ Serve \/ UNCHANGED vars
    BY <2>7 DEF StartRun, Complete, Serve, vars
  <2>8. QED
    BY <2>4, <2>5, <2>6, <2>7 DEF Next
<1>2. QED
  BY <1>1, Inductive, PTL DEF Spec, OnlyItsDates

(* What shows the clock of a full hour is a full hour.                     *)
LEMMA FullHours ==
    ASSUME NEW z, GoodZone(z), NEW h \in Int, h % INTERVALS_PER_HOUR = 0,
           NEW u \in Int, LocalTimeId(z, u) = LocalTimeId(z, h)
    PROVE  u % INTERVALS_PER_HOUR = 0
<1> DEFINE g == HourStart(z, u)
           n == INTERVALS_PER_HOUR
           a == LocalHour(z, g)
           b == LocalHour(z, h)
<1>1. n \in Nat \ {0} /\ g \in Int /\ g % n = 0 /\ u \in g..g + n - 1
  BY LengthOfDay, HourOf
<1>2. /\ ClockHour(z, g) = LocalTimeId(z, g) /\ a \in 0..DayHours - 1
      /\ LocalTimeId(z, u) = LocalTimeId(z, g) + (u - g)
  BY <1>1, HourHasOneLabel
<1>3. ClockHour(z, h) = LocalTimeId(z, h) /\ b \in 0..DayHours - 1
  <2>1. h \in h..h + n - 1
    BY <1>1
  <2>2. QED
    BY <2>1, HourHasOneLabel
<1>4. a \in Int /\ b \in Int /\ ClockHour(z, g) = n * a /\ ClockHour(z, h) = n * b
  <2>1. a \in Int /\ b \in Int
    BY <1>2, <1>3, LengthOfDay
  <2>2. ClockHour(z, g) = a * n /\ ClockHour(z, h) = b * n
    BY DEF ClockHour
  <2> HIDE DEF a, b, n, g
  <2>3. a * n = n * a /\ b * n = n * b
    BY <1>1, <2>1
  <2>4. QED
    BY <2>1, <2>2, <2>3
<1> HIDE DEF a, b, g, n
<1>5. n * b = n * a + (u - g) /\ u - g \in 0..n - 1
  BY <1>1, <1>2, <1>3, <1>4
<1>6. u = g
  <2>1. a <= b
    <3>1. n * (b + 1) <= n * a \/ a <= b
      BY <1>1, <1>4, Multiples
    <3>2. n * (b + 1) = n * b + n /\ n * b \in Int /\ n * a \in Int
      BY <1>1, <1>4, Multiples
    <3> DEFINE x == n * a
               y == n * b
    <3> HIDE DEF x, y
    <3>3. x \in Int /\ y \in Int /\ y = x + (u - g) /\ (y + n <= x \/ a <= b)
      BY <1>5, <3>1, <3>2 DEF x, y
    <3>4. QED
      BY <1>1, <1>5, <3>3
  <2>2. b <= a
    <3>1. n * (a + 1) <= n * b \/ b <= a
      BY <1>1, <1>4, Multiples
    <3>2. n * (a + 1) = n * a + n /\ n * b \in Int /\ n * a \in Int
      BY <1>1, <1>4, Multiples
    <3> DEFINE x == n * a
               y == n * b
    <3> HIDE DEF x, y
    <3>3. x \in Int /\ y \in Int /\ y = x + (u - g) /\ (x + n <= y \/ b <= a)
      BY <1>5, <3>1, <3>2 DEF x, y
    <3>4. QED
      BY <1>1, <1>5, <3>3
  <2>3. a = b
    BY <1>4, <2>1, <2>2
  <2>4. n * a \in Int
    BY <1>1, <1>4
  <2>5. QED
    BY <1>1, <1>5, <2>3, <2>4
<1>7. QED
  BY <1>1, <1>6 DEF n

(* is_repeated_hour of an hour: the clock showed it before.                *)
LEMMA RepeatedHour ==
    ASSUME NEW h \in HoursOf(1), GoodZone(zone)
    PROVE  /\ ClockHour(zone, h) = LocalTimeId(zone, h)
           /\ IntervalAt(zone, 1, h).is_repeated_hour
                = \E g \in HoursOf(1) : g < h /\ ClockHour(zone, g) = ClockHour(zone, h)
<1> DEFINE first == LocalMidnight(zone, 1)
<1>1. first \in Int /\ \A u \in DayInstants(zone, 1) : u \in Int /\ first <= u
  <2>1. first \in Int /\ LocalMidnight(zone, 2) \in Int
    BY MidnightIsFirst
  <2>2. QED
    BY <2>1 DEF DayInstants
<1>2. \A g \in HoursOf(1) : /\ g \in Int /\ g % INTERVALS_PER_HOUR = 0
                            /\ g \in DayInstants(zone, 1)
                            /\ ClockHour(zone, g) = LocalTimeId(zone, g)
  <2> SUFFICES ASSUME NEW g \in HoursOf(1)
               PROVE  /\ g \in Int /\ g % INTERVALS_PER_HOUR = 0
                      /\ g \in DayInstants(zone, 1)
                      /\ ClockHour(zone, g) = LocalTimeId(zone, g)
    OBVIOUS
  <2>1. g \in DayInstants(zone, 1) /\ g % INTERVALS_PER_HOUR = 0 /\ g \in Int
    BY <1>1 DEF HoursOf
  <2>2. g \in g..g + INTERVALS_PER_HOUR - 1
    BY <2>1, LengthOfDay
  <2>3. QED
    BY <2>1, <2>2, HourHasOneLabel
<1>3. IntervalAt(zone, 1, h).is_repeated_hour
         = \E seen \in first..h - 1 : LocalTimeId(zone, seen) = LocalTimeId(zone, h)
  BY DEF IntervalAt
<1>4. ASSUME NEW seen \in first..h - 1, LocalTimeId(zone, seen) = LocalTimeId(zone, h)
      PROVE  seen \in HoursOf(1) /\ seen < h
  <2>1. h \in Int /\ h % INTERVALS_PER_HOUR = 0 /\ h \in DayInstants(zone, 1)
    BY <1>2
  <2>2. seen \in Int /\ seen < h /\ first <= seen
    BY <1>1, <2>1
  <2>3. seen \in DayInstants(zone, 1)
    <3>1. LocalMidnight(zone, 2) \in Int
      BY MidnightIsFirst
    <3>2. QED
      BY <2>1, <2>2, <3>1 DEF DayInstants
  <2>4. seen % INTERVALS_PER_HOUR = 0
    BY <1>4, <2>1, <2>2, FullHours
  <2>5. QED
    BY <2>2, <2>3, <2>4 DEF HoursOf
<1>5. ASSUME NEW g \in HoursOf(1), g < h
      PROVE  g \in first..h - 1
  BY <1>1, <1>2, <1>5
<1>6. (\E seen \in first..h - 1 : LocalTimeId(zone, seen) = LocalTimeId(zone, h))
        <=> \E g \in HoursOf(1) : g < h /\ ClockHour(zone, g) = ClockHour(zone, h)
  <2>1. ASSUME NEW seen \in first..h - 1, LocalTimeId(zone, seen) = LocalTimeId(zone, h)
        PROVE  \E g \in HoursOf(1) : g < h /\ ClockHour(zone, g) = ClockHour(zone, h)
    BY <1>2, <1>4, <2>1
  <2>2. ASSUME NEW g \in HoursOf(1), g < h, ClockHour(zone, g) = ClockHour(zone, h)
        PROVE  \E seen \in first..h - 1 : LocalTimeId(zone, seen) = LocalTimeId(zone, h)
    BY <1>2, <1>5, <2>2
  <2>3. QED
    BY <2>1, <2>2
<1>7. QED
  BY <1>2, <1>3, <1>6

(* gold_price_hourly.py: each UTC hour with a price has one row, the mean  *)
(* of its own prices, with the label of its clock, marked if the label     *)
(* came before; on a day of 23 or 25 hours too.                            *)
THEOREM HoursApart == Spec => []HoursKeptApart
<1> DEFINE Of(h) == h..h + INTERVALS_PER_HOUR - 1 \cap DOMAIN prices
           priced == {h \in HoursOf(1) : Of(h) # {}}
<1>1. ASSUME IInv, Idle, run.number > 0
      PROVE  /\ Cardinality(priceHourly) = Cardinality(priced)
             /\ \A h \in priced : \E r \in priceHourly :
                  /\ r.at = h /\ r.averages = Of(h)
                  /\ r.date_id = 1 /\ r.time_id = ClockHour(zone, h)
                  /\ r.is_repeated_hour
                         = \E g \in HoursOf(1) : g < h /\ ClockHour(zone, g) = ClockHour(zone, h)
  <2>1. CASE NoPrices
    <3>1. priced = {} /\ priceHourly = {}
      BY <2>1 DEF NoPrices
    <3>2. QED
      BY <3>1
  <2>2. CASE PricesOnce
    <3>0. GoodZone(zone) /\ PricesLabelled
      BY <1>1, ZonesAreGood DEF IInv, TypeOK
    <3>1. priceHourly = HourTable
      <4>1. run.number = 1 /\ run.step \notin 1..6
        BY <1>1, <2>2 DEF IInv, RunInTurn, RunType, PricesOnce, Idle
      <4>2. QED
        BY <2>2, <4>1 DEF PricesOnce
    <3>2. ASSUME NEW u \in DOMAIN prices
          PROVE  /\ u \in Int /\ HourStart(zone, u) \in HoursOf(1)
                 /\ u \in Of(HourStart(zone, u))
                 /\ \A h \in HoursOf(1) : u \in Of(h) => HourStart(zone, u) = h
      <4>1. u \in DayInstants(zone, 1)
        BY <3>0 DEF PricesLabelled
      <4>2. u \in Int /\ LocalDate(zone, u) = 1
        BY <3>0, <4>1, DayInstantsFinite, DayInstantsAre
      <4> DEFINE g == HourStart(zone, u)
      <4>3. g \in Int /\ g % INTERVALS_PER_HOUR = 0 /\ u \in g..g + INTERVALS_PER_HOUR - 1
        BY <4>2, HourOf
      <4>4. LocalDate(zone, g) = 1
        BY <3>0, <4>2, <4>3, HourHasOneLabel
      <4>5. g \in HoursOf(1)
        BY <3>0, <4>3, <4>4, DayInstantsAre DEF HoursOf
      <4>6. ASSUME NEW h \in HoursOf(1), u \in Of(h)
            PROVE  g = h
        <5>1. h \in Int /\ h % INTERVALS_PER_HOUR = 0
          BY <3>0, HoursAre
        <5>2. QED
          BY <4>2, <4>6, <5>1, HourOf
      <4>7. QED
        BY <4>2, <4>3, <4>5, <4>6
    <3>3. priced = {HourStart(zone, u) : u \in DOMAIN prices}
      BY <3>2
    <3>4. HourTable = {DayHourRow(h) : h \in priced}
      BY <3>3 DEF HourTable
    <3>5. ASSUME NEW h \in priced
          PROVE  {u \in DOMAIN prices : HourStart(zone, u) = h} = Of(h)
      BY <3>2
    <3>6. IsFiniteSet(priced)
      <4>1. priced \subseteq DayInstants(zone, 1)
        BY DEF HoursOf
      <4>2. QED
        BY <3>0, <4>1, DayInstantsFinite, FS_Subset
    <3>7. \A h : DayHourRow(h).at = h
      BY DEF DayHourRow
    <3> HIDE DEF priced
    <3>8. Cardinality(priceHourly) = Cardinality(priced)
      <4> DEFINE f == [h \in priced |-> DayHourRow(h)]
      <4>1. f \in [priced -> HourTable]
        BY <3>4
      <4>2. \A g, h \in priced : f[g] = f[h] => g = h
        BY <3>7
      <4>3. \A r \in HourTable : \E h \in priced : f[h] = r
        BY <3>4
      <4> HIDE DEF f
      <4>4. QED
        BY <3>1, <3>6, <4>1, <4>2, <4>3, SameSize
    <3>9. ASSUME NEW h \in priced
          PROVE  \E r \in priceHourly :
                   /\ r.at = h /\ r.averages = Of(h)
                   /\ r.date_id = 1 /\ r.time_id = ClockHour(zone, h)
                   /\ r.is_repeated_hour
                          = \E g \in HoursOf(1) : g < h /\ ClockHour(zone, g) = ClockHour(zone, h)
      <4> DEFINE r == DayHourRow(h)
      <4>1. r \in priceHourly
        BY <3>1, <3>4
      <4>2. /\ r.at = h /\ r.averages = {u \in DOMAIN prices : HourStart(zone, u) = h}
            /\ r.date_id = 1 /\ r.time_id = LocalTimeId(zone, h)
            /\ r.is_repeated_hour = IntervalAt(zone, 1, h).is_repeated_hour
        BY DEF DayHourRow
      <4>3. h \in HoursOf(1)
        BY DEF priced
      <4>4. /\ ClockHour(zone, h) = LocalTimeId(zone, h)
            /\ IntervalAt(zone, 1, h).is_repeated_hour
                 = \E g \in HoursOf(1) : g < h /\ ClockHour(zone, g) = ClockHour(zone, h)
        BY <3>0, <4>3, RepeatedHour
      <4> HIDE DEF r
      <4>5. QED
        BY <3>5, <4>1, <4>2, <4>4
    <3>10. QED
      BY <3>8, <3>9
  <2>3. QED
    BY <1>1, <2>1, <2>2 DEF IInv
<1>2. IInv => HoursKeptApart
  BY <1>1 DEF HoursKeptApart
<1>3. QED
  BY <1>2, Inductive, PTL

------------------------------------------------------------------------------
(* Ranks.                                                                  *)

(* R is a strict total order of S, and an element's rank is the number of  *)
(* elements before it.                                                     *)
TotalOrder(S, R) ==
    /\ \A x \in S : <<x, x>> \notin R
    /\ \A x, y \in S : x = y \/ <<x, y>> \in R \/ <<y, x>> \in R
    /\ \A x, y, z \in S : <<x, y>> \in R /\ <<y, z>> \in R => <<x, z>> \in R
Below(S, R, x) == {y \in S : <<y, x>> \in R}
RankOf(S, R, x) == Cardinality(Below(S, R, x))

(* The ranks of a finite set are 0..n-1, each of one element, in order.    *)
LEMMA RanksAre ==
    ASSUME NEW S, IsFiniteSet(S), NEW R, TotalOrder(S, R)
    PROVE  /\ Cardinality(S) \in Nat
           /\ \A x \in S : RankOf(S, R, x) \in 0..Cardinality(S) - 1
           /\ \A x, y \in S : <<x, y>> \in R <=> RankOf(S, R, x) < RankOf(S, R, y)
           /\ \A x, y \in S : RankOf(S, R, x) = RankOf(S, R, y) => x = y
           /\ \A k \in 0..Cardinality(S) - 1 : \E x \in S : RankOf(S, R, x) = k
<1> DEFINE n == Cardinality(S)
           rank(x) == RankOf(S, R, x)
<1>1. n \in Nat
  BY FS_CardinalityType
<1>2. ASSUME NEW x \in S
      PROVE  /\ IsFiniteSet(Below(S, R, x)) /\ rank(x) \in Nat
             /\ rank(x) < n
  <2>1. Below(S, R, x) \in SUBSET S /\ x \notin Below(S, R, x)
    BY DEF Below, TotalOrder
  <2>2. IsFiniteSet(Below(S, R, x)) /\ rank(x) <= n /\ (n = rank(x) => S = Below(S, R, x))
    BY <2>1, FS_Subset DEF RankOf
  <2>3. rank(x) \in Nat
    BY <2>2, FS_CardinalityType DEF RankOf
  <2>4. QED
    BY <1>1, <2>1, <2>2, <2>3
<1>3. ASSUME NEW x \in S, NEW y \in S, <<x, y>> \in R
      PROVE  rank(x) < rank(y)
  <2>1. Below(S, R, x) \in SUBSET Below(S, R, y)
    BY <1>3 DEF Below, TotalOrder
  <2>2. x \in Below(S, R, y) /\ x \notin Below(S, R, x)
    BY <1>3 DEF Below, TotalOrder
  <2>3. IsFiniteSet(Below(S, R, y))
    BY <1>2
  <2>4. rank(x) <= rank(y) /\ (rank(y) = rank(x) => Below(S, R, y) = Below(S, R, x))
    BY <2>1, <2>3, FS_Subset DEF RankOf
  <2>5. rank(x) \in Nat /\ rank(y) \in Nat
    BY <1>2
  <2>6. QED
    BY <2>2, <2>4, <2>5
<1>4. ASSUME NEW x \in S, NEW y \in S, rank(x) = rank(y)
      PROVE  x = y
  <2>1. rank(x) \in Nat
    BY <1>2
  <2>2. <<x, y>> \notin R /\ <<y, x>> \notin R
    BY <1>3, <1>4, <2>1
  <2>3. QED
    BY <2>2 DEF TotalOrder
<1>5. ASSUME NEW x \in S, NEW y \in S, rank(x) < rank(y)
      PROVE  <<x, y>> \in R
  <2>1. rank(x) \in Nat /\ rank(y) \in Nat
    BY <1>2
  <2>2. x # y /\ <<y, x>> \notin R
    BY <1>3, <1>5, <2>1
  <2>3. QED
    BY <2>2 DEF TotalOrder
<1>6. ASSUME NEW k \in 0..n - 1
      PROVE  \E x \in S : rank(x) = k
  <2> DEFINE f == [x \in S |-> rank(x)]
  <2>1. \A x \in S : rank(x) \in 0..n - 1
    BY <1>1, <1>2
  <2>2. f \in [S -> 0..n - 1] /\ \A x \in S : f[x] = rank(x)
    BY <2>1
  <2>3. \A x, y \in S : f[x] = f[y] => x = y
    BY <1>4
  <2> HIDE DEF f
  <2>4. f \in Injection(S, 0..n - 1)
    BY <2>2, <2>3 DEF Injection, IsInjective
  <2>5. n - 1 \in Int /\ 0 \in Int
    BY <1>1
  <2> HIDE DEF n
  <2>6. IsFiniteSet(0..n - 1) /\ Cardinality(0..n - 1) = n
    <3>1. /\ IsFiniteSet(0..n - 1)
          /\ Cardinality(0..n - 1) = IF 0 > n - 1 THEN 0 ELSE n - 1 - 0 + 1
      BY ONLY <2>5, FS_Interval
    <3>2. QED
      BY <1>1, <3>1
  <2>7. f \in Surjection(S, 0..n - 1)
    BY <2>4, <2>6, FS_Injection DEF n
  <2>8. QED
    BY <2>2, <2>7 DEF Surjection
<1>7. QED
  BY <1>1, <1>2, <1>3, <1>4, <1>5, <1>6

(* So there are as many elements as ranks between two bounds.              *)
LEMMA RanksBetween ==
    ASSUME NEW S, IsFiniteSet(S), NEW R, TotalOrder(S, R),
           NEW a \in 0..Cardinality(S), NEW b \in a..Cardinality(S)
    PROVE  Cardinality({x \in S : RankOf(S, R, x) \in a..b - 1}) = b - a
<1> DEFINE n == Cardinality(S)
           T == {x \in S : RankOf(S, R, x) \in a..b - 1}
           f == [x \in T |-> RankOf(S, R, x)]
<1>1. /\ n \in Nat
      /\ \A x, y \in S : RankOf(S, R, x) = RankOf(S, R, y) => x = y
      /\ \A k \in 0..n - 1 : \E x \in S : RankOf(S, R, x) = k
  BY RanksAre
<1>2. a \in Int /\ b \in Int /\ 0 <= a /\ a <= b /\ b <= n
  BY <1>1
<1>3. IsFiniteSet(T)
  <2>1. T \in SUBSET S
    OBVIOUS
  <2>2. QED
    BY <2>1, FS_Subset
<1>4. /\ f \in [T -> a..b - 1]
      /\ \A x, y \in T : f[x] = f[y] => x = y
  BY <1>1
<1>5. \A t \in a..b - 1 : \E x \in T : f[x] = t
  BY <1>1, <1>2
<1>6. Cardinality(a..b - 1) = b - a
  <2>1. b - 1 \in Int
    BY <1>2
  <2>2. Cardinality(a..b - 1) = IF a > b - 1 THEN 0 ELSE b - 1 - a + 1
    BY ONLY <1>2, <2>1, FS_Interval
  <2>3. QED
    BY <1>2, <2>2
<1> HIDE DEF T, f
<1>7. Cardinality(a..b - 1) = Cardinality(T)
  BY <1>3, <1>4, <1>5, SameSize
<1>8. QED
  BY <1>6, <1>7 DEF T

(* A list by rank has every element once, in order.                        *)
LEMMA ListByRank ==
    ASSUME NEW S, IsFiniteSet(S), NEW R, TotalOrder(S, R), NEW f,
           \A i \in 1..Cardinality(S) : f[i] \in S /\ RankOf(S, R, f[i]) = i - 1
    PROVE  /\ Cardinality(S) \in Nat
           /\ \A i, j \in 1..Cardinality(S) : f[i] = f[j] => i = j
           /\ \A i, j \in 1..Cardinality(S) : i < j <=> <<f[i], f[j]>> \in R
           /\ \A x \in S : /\ RankOf(S, R, x) + 1 \in 1..Cardinality(S)
                           /\ f[RankOf(S, R, x) + 1] = x
<1> DEFINE n == Cardinality(S)
<1>1. /\ n \in Nat
      /\ \A x \in S : RankOf(S, R, x) \in 0..n - 1
      /\ \A x, y \in S : <<x, y>> \in R <=> RankOf(S, R, x) < RankOf(S, R, y)
      /\ \A x, y \in S : RankOf(S, R, x) = RankOf(S, R, y) => x = y
  BY RanksAre
<1>2. \A i \in 1..n : f[i] \in S /\ RankOf(S, R, f[i]) = i - 1
  OBVIOUS
<1> HIDE DEF n
<1>3. \A i, j \in 1..n : f[i] = f[j] => i = j
  <2> SUFFICES ASSUME NEW i \in 1..n, NEW j \in 1..n, f[i] = f[j] PROVE i = j
    OBVIOUS
  <2>1. i - 1 = j - 1
    BY <1>2
  <2>2. QED
    BY <1>1, <2>1
<1>4. \A i, j \in 1..n : i < j <=> <<f[i], f[j]>> \in R
  <2> SUFFICES ASSUME NEW i \in 1..n, NEW j \in 1..n PROVE i < j <=> <<f[i], f[j]>> \in R
    OBVIOUS
  <2>1. <<f[i], f[j]>> \in R <=> i - 1 < j - 1
    BY <1>1, <1>2
  <2>2. QED
    BY <1>1, <2>1
<1>5. ASSUME NEW x \in S
      PROVE  RankOf(S, R, x) + 1 \in 1..n /\ f[RankOf(S, R, x) + 1] = x
  <2> DEFINE k == RankOf(S, R, x) + 1
  <2>1. k \in 1..n /\ k - 1 = RankOf(S, R, x)
    BY <1>1
  <2> HIDE DEF k
  <2>2. f[k] \in S /\ RankOf(S, R, f[k]) = RankOf(S, R, x)
    BY <1>2, <2>1
  <2>3. f[k] = x
    BY <1>1, <2>2
  <2>4. QED
    BY <2>1, <2>3 DEF k
<1>6. QED
  BY <1>1, <1>3, <1>4, <1>5 DEF n

(* The order by price, and by time where prices are equal.                 *)
IsDay(day) == /\ IsFiniteSet(DOMAIN day) /\ DOMAIN day \subseteq Int
              /\ \A u \in DOMAIN day : day[u] \in Nat
Cheaper(day, u, v) == day[u] < day[v] \/ (day[u] = day[v] /\ u < v)
ByPrice(day) == {p \in Priced(day) \X Priced(day) : Cheaper(day, p[1], p[2])}

LEMMA ByPriceOrders ==
    ASSUME NEW day, IsDay(day)
    PROVE  /\ IsFiniteSet(Priced(day)) /\ Priced(day) \subseteq Int
           /\ \A u \in Priced(day) : day[u] \in Nat
           /\ \A u, v \in Priced(day) : <<u, v>> \in ByPrice(day) <=> Cheaper(day, u, v)
           /\ TotalOrder(Priced(day), ByPrice(day))
<1>1. Priced(day) \in SUBSET DOMAIN day
  BY DEF Priced
<1>2. IsFiniteSet(Priced(day))
  BY <1>1, FS_Subset DEF IsDay
<1>3. Priced(day) \subseteq Int /\ \A u \in Priced(day) : day[u] \in Nat
  BY <1>1 DEF IsDay
<1>4. \A u, v \in Priced(day) : <<u, v>> \in ByPrice(day) <=> Cheaper(day, u, v)
  BY DEF ByPrice
<1>5. TotalOrder(Priced(day), ByPrice(day))
  <2> DEFINE S == Priced(day)
  <2>1. \A x \in S : ~ Cheaper(day, x, x)
    BY <1>3 DEF Cheaper
  <2>2. \A x, y \in S : x = y \/ Cheaper(day, x, y) \/ Cheaper(day, y, x)
    BY <1>3 DEF Cheaper
  <2>3. \A x, y, z \in S : Cheaper(day, x, y) /\ Cheaper(day, y, z) => Cheaper(day, x, z)
    BY <1>3 DEF Cheaper
  <2> HIDE DEF S
  <2>4. \A u, v \in S : <<u, v>> \in ByPrice(day) <=> Cheaper(day, u, v)
    BY <1>4 DEF S
  <2>5. TotalOrder(S, ByPrice(day))
    BY <2>1, <2>2, <2>3, <2>4 DEF TotalOrder
  <2>6. QED
    BY <2>5 DEF S
<1>6. QED
  BY <1>2, <1>3, <1>4, <1>5

(* The ranks of Spark count from one, one from each end.                   *)
LEMMA RanksOfSpark ==
    ASSUME NEW day, IsDay(day), NEW u \in Priced(day)
    PROVE  LET rank == RankOf(Priced(day), ByPrice(day), u)
           IN  /\ rank \in 0..Cardinality(Priced(day)) - 1
               /\ RankAsc(day, u) = rank + 1
               /\ RankDesc(day, u) = Cardinality(Priced(day)) - rank
<1> DEFINE S == Priced(day)
           B == Below(S, ByPrice(day), u)
<1>1. /\ IsFiniteSet(S) /\ S \subseteq Int
      /\ \A v \in S : day[v] \in Nat
      /\ \A v, w \in S : <<v, w>> \in ByPrice(day) <=> Cheaper(day, v, w)
      /\ TotalOrder(S, ByPrice(day))
  BY ByPriceOrders
<1>2. RankOf(S, ByPrice(day), u) \in 0..Cardinality(S) - 1 /\ Cardinality(S) \in Nat
  BY <1>1, RanksAre
<1>3. B = {v \in S : Cheaper(day, v, u)}
  BY <1>1 DEF Below
<1>4. B \in SUBSET S /\ u \notin B
  BY <1>1, <1>3 DEF Cheaper
<1>5. IsFiniteSet(B) /\ Cardinality(B) = RankOf(S, ByPrice(day), u)
  BY <1>1, <1>4, FS_Subset DEF RankOf
<1>6. RankAsc(day, u) = Cardinality(B) + 1
  <2>1. {v \in S : day[v] < day[u] \/ (day[v] = day[u] /\ v <= u)} = B \cup {u}
    <3>1. \A v \in S : (day[v] < day[u] \/ (day[v] = day[u] /\ v <= u))
                           <=> (Cheaper(day, v, u) \/ v = u)
      BY <1>1 DEF Cheaper
    <3> HIDE DEF B, S
    <3>2. QED
      BY <1>3, <3>1 DEF S
  <2> HIDE DEF B
  <2>2. Cardinality(B \cup {u}) = Cardinality(B) + 1
    BY <1>4, <1>5, FS_AddElement
  <2>3. QED
    BY <2>1, <2>2 DEF RankAsc
<1>7. RankDesc(day, u) = Cardinality(S) - Cardinality(B)
  <2> DEFINE A == {v \in S : day[v] > day[u] \/ (day[v] = day[u] /\ v >= u)}
  <2>1. A \cup B = S /\ A \cap B = {}
    <3>1. \A v \in S : (day[v] > day[u] \/ (day[v] = day[u] /\ v >= u)) <=> ~ Cheaper(day, v, u)
      BY <1>1 DEF Cheaper
    <3> HIDE DEF B, S
    <3>2. QED
      BY <1>3, <3>1
  <2>2. A \in SUBSET S
    OBVIOUS
  <2> HIDE DEF A, B
  <2>3. IsFiniteSet(A)
    BY <1>1, <2>2, FS_Subset
  <2>4. /\ Cardinality(A \cup B) = Cardinality(A) + Cardinality(B) - Cardinality(A \cap B)
        /\ Cardinality(A) \in Nat /\ Cardinality(B) \in Nat
    BY <1>5, <2>3, FS_Union, FS_CardinalityType
  <2>5. Cardinality({}) = 0
    BY FS_EmptySet
  <2>6. Cardinality(A) = Cardinality(S) - Cardinality(B)
    BY <1>2, <2>1, <2>4, <2>5
  <2>7. QED
    BY <2>6 DEF RankDesc, A
<1>8. QED
  BY <1>2, <1>5, <1>6, <1>7

(* assign_signals ranks like the windows of Spark do.                      *)
LEMMA SameSignals ==
    ASSUME NEW day, IsDay(day), NEW allowed \in [charge : Nat, discharge : Nat],
           NEW u \in DOMAIN day
    PROVE  AssignSignals(day, allowed)[u] = Signal(day, allowed, u)
<1> DEFINE S == Priced(day)
           n == Cardinality(S)
           inTime == InOrder(S, <)
           Before(i, j) == day[inTime[i]] < day[inTime[j]]
                           \/ (day[inTime[i]] = day[inTime[j]] /\ i < j)
           sorted == InOrder(DOMAIN inTime, Before)
           rank == [v \in S |-> (CHOOSE r \in DOMAIN sorted : inTime[sorted[r]] = v) - 1]
           T == {p \in S \X S : p[1] < p[2]}
           R == ByPrice(day)
<1>1. AssignSignals(day, allowed)[u] =
          IF u \notin S THEN 0
          ELSE IF rank[u] < allowed.charge THEN -1
          ELSE IF rank[u] >= Len(sorted) - allowed.discharge THEN 1 ELSE 0
  BY DEF AssignSignals
<1>2. CASE u \notin S
  BY <1>1, <1>2 DEF Priced, Signal
<1>3. CASE u \in S
  <2>1. /\ IsFiniteSet(S) /\ S \subseteq Int
        /\ \A v, w \in S : <<v, w>> \in R <=> Cheaper(day, v, w)
        /\ TotalOrder(S, R)
    BY ByPriceOrders
  <2>2. n \in Nat
    BY <2>1, FS_CardinalityType
  <2>3. TotalOrder(S, T) /\ \A v, w \in S : <<v, w>> \in T <=> v < w
    <3>1. \A v, w \in S : <<v, w>> \in T <=> v < w
      OBVIOUS
    <3> HIDE DEF T, S
    <3>2. TotalOrder(S, T)
      BY <2>1, <3>1 DEF TotalOrder
    <3>3. QED
      BY <3>1, <3>2
  <2>4. /\ DOMAIN inTime = 1..n
        /\ \A i \in 1..n : inTime[i] \in S /\ RankOf(S, T, inTime[i]) = i - 1
    <3>1. /\ DOMAIN inTime = 1..n
          /\ \A i \in 1..n : inTime[i] = CHOOSE x \in S : Cardinality({y \in S : y < x}) = i - 1
      BY DEF InOrder
    <3> HIDE DEF inTime, S, T, n
    <3>2. ASSUME NEW x \in S
          PROVE  RankOf(S, T, x) = Cardinality({y \in S : y < x})
      <4>1. Below(S, T, x) = {y \in S : y < x}
        BY <2>3 DEF Below
      <4>2. QED
        BY <4>1 DEF RankOf
    <3>3. ASSUME NEW i \in 1..n
          PROVE  inTime[i] \in S /\ RankOf(S, T, inTime[i]) = i - 1
      <4>1. i - 1 \in 0..n - 1
        BY <2>2
      <4>2. \E x \in S : RankOf(S, T, x) = i - 1
        BY <2>1, <2>3, <4>1, RanksAre DEF n
      <4>3. \E x \in S : Cardinality({y \in S : y < x}) = i - 1
        BY <3>2, <4>2
      <4>4. inTime[i] \in S /\ Cardinality({y \in S : y < inTime[i]}) = i - 1
        BY <3>1, <4>3
      <4>5. QED
        BY <3>2, <4>4
    <3>4. QED
      BY <3>1, <3>3
  <2> HIDE DEF inTime, T
  <2>5. /\ \A i, j \in 1..n : inTime[i] = inTime[j] => i = j
        /\ \A i, j \in 1..n : i < j <=> inTime[i] < inTime[j]
        /\ \A x \in S : \E i \in 1..n : inTime[i] = x
    <3>1. /\ \A i, j \in 1..n : inTime[i] = inTime[j] => i = j
          /\ \A i, j \in 1..n : i < j <=> <<inTime[i], inTime[j]>> \in T
          /\ \A x \in S : /\ RankOf(S, T, x) + 1 \in 1..n
                          /\ inTime[RankOf(S, T, x) + 1] = x
      BY <2>1, <2>3, <2>4, ListByRank
    <3> HIDE DEF S, n
    <3>2. QED
      BY <2>3, <2>4, <3>1
  <2> DEFINE Q == {p \in (1..n) \X (1..n) : Before(p[1], p[2])}
  <2>6. \A i, j \in 1..n : Before(i, j) <=> <<inTime[i], inTime[j]>> \in R
    <3> HIDE DEF S, n, R
    <3>1. QED
      BY <2>1, <2>4, <2>5 DEF Cheaper
  <2>7. IsFiniteSet(1..n) /\ Cardinality(1..n) = n
    <3> HIDE DEF n
    <3>1. 1 \in Int /\ n \in Int
      BY <2>2
    <3>2. /\ IsFiniteSet(1..n)
          /\ Cardinality(1..n) = IF 1 > n THEN 0 ELSE n - 1 + 1
      BY ONLY <3>1, FS_Interval
    <3>3. QED
      BY <2>2, <3>2
  <2>8. TotalOrder(1..n, Q) /\ \A i, j \in 1..n : <<i, j>> \in Q <=> <<inTime[i], inTime[j]>> \in R
    <3>1. \A i, j \in 1..n : <<i, j>> \in Q <=> Before(i, j)
      OBVIOUS
    <3> HIDE DEF Q, Before, R, S, n
    <3>2. \A i, j \in 1..n : <<i, j>> \in Q <=> <<inTime[i], inTime[j]>> \in R
      BY <2>6, <3>1
    <3>3. \A i \in 1..n : inTime[i] \in S
      BY <2>4
    <3>4. TotalOrder(1..n, Q)
      <4>1. \A x \in 1..n : <<x, x>> \notin Q
        BY <2>1, <3>2, <3>3 DEF TotalOrder
      <4>2. \A x, y \in 1..n : x = y \/ <<x, y>> \in Q \/ <<y, x>> \in Q
        BY <2>1, <2>5, <3>2, <3>3 DEF TotalOrder
      <4>3. \A x, y, z \in 1..n : <<x, y>> \in Q /\ <<y, z>> \in Q => <<x, z>> \in Q
        BY <2>1, <3>2, <3>3 DEF TotalOrder
      <4>4. QED
        BY <4>1, <4>2, <4>3 DEF TotalOrder
    <3>5. QED
      BY <3>2, <3>4
  <2>9. /\ DOMAIN sorted = 1..n /\ Len(sorted) = n
        /\ \A k \in 1..n : sorted[k] \in 1..n /\ RankOf(1..n, Q, sorted[k]) = k - 1
    <3> DEFINE Kth(k) == CHOOSE i \in 1..n : Cardinality({j \in 1..n : Before(j, i)}) = k - 1
    <3>1. /\ sorted = [k \in 1..n |-> sorted[k]] /\ DOMAIN sorted = 1..n
          /\ \A k \in 1..n : sorted[k] = Kth(k)
      <4>1. sorted = [k \in 1..n |-> Kth(k)]
        BY <2>4, <2>7 DEF InOrder
      <4> HIDE DEF sorted, n, Kth
      <4>2. QED
        BY ONLY <4>1
    <3>2. ASSUME NEW i \in 1..n
          PROVE  RankOf(1..n, Q, i) = Cardinality({j \in 1..n : Before(j, i)})
      <4>1. Below(1..n, Q, i) = {j \in 1..n : Before(j, i)}
        BY DEF Below
      <4>2. QED
        BY <4>1 DEF RankOf
    <3> HIDE DEF sorted, Before, Q, S, n
    <3>3. ASSUME NEW k \in 1..n
          PROVE  sorted[k] \in 1..n /\ RankOf(1..n, Q, sorted[k]) = k - 1
      <4>1. k - 1 \in 0..Cardinality(1..n) - 1
        BY <2>2, <2>7
      <4>2. \E i \in 1..n : RankOf(1..n, Q, i) = k - 1
        BY <2>7, <2>8, <4>1, RanksAre
      <4>3. \E i \in 1..n : Cardinality({j \in 1..n : Before(j, i)}) = k - 1
        BY <3>2, <4>2
      <4>4. sorted[k] \in 1..n /\ Cardinality({j \in 1..n : Before(j, sorted[k])}) = k - 1
        BY <3>1, <4>3
      <4>5. QED
        BY <3>2, <4>4
    <3>4. sorted \in Seq(1..n)
      <4>1. sorted \in [1..n -> 1..n]
        BY <3>1, <3>3
      <4>2. QED
        BY <2>2, <4>1, SeqDef
    <3>5. Len(sorted) = n
      BY <2>2, <3>1, <3>4
    <3>6. QED
      BY <3>1, <3>3, <3>5
  <2> HIDE DEF sorted, Before, Q
  <2>10. PICK i \in 1..n : inTime[i] = u
    BY <1>3, <2>5
  <2>11. RankOf(1..n, Q, i) = RankOf(S, R, u)
    <3> DEFINE A == Below(1..n, Q, i)
               B == Below(S, R, u)
               f == [j \in A |-> inTime[j]]
    <3>1. A \in SUBSET (1..n) /\ \A j \in 1..n : j \in A <=> <<inTime[j], u>> \in R
      BY <2>8, <2>10 DEF Below
    <3>2. \A v : v \in B <=> v \in S /\ <<v, u>> \in R
      BY DEF Below
    <3> HIDE DEF A, B, S, n, R
    <3>3. f \in [A -> B]
      BY <2>4, <3>1, <3>2
    <3>4. \A j, k \in A : f[j] = f[k] => j = k
      BY <2>5, <3>1
    <3>5. \A v \in B : \E j \in A : f[j] = v
      BY <2>5, <3>1, <3>2
    <3>6. IsFiniteSet(A)
      BY <2>7, <3>1, FS_Subset
    <3> HIDE DEF f
    <3>7. Cardinality(B) = Cardinality(A)
      BY <3>3, <3>4, <3>5, <3>6, SameSize
    <3>8. QED
      BY <3>7 DEF RankOf, A, B
  <2>12. rank[u] = RankOf(S, R, u)
    <3> DEFINE k == RankOf(S, R, u) + 1
    <3>1. /\ \A a, b \in 1..n : sorted[a] = sorted[b] => a = b
          /\ RankOf(1..n, Q, i) + 1 \in 1..n /\ sorted[RankOf(1..n, Q, i) + 1] = i
      <4> DEFINE D == 1..n
      <4>1. IsFiniteSet(D) /\ TotalOrder(D, Q) /\ Cardinality(D) = n
            /\ \A a \in 1..Cardinality(D) : sorted[a] \in D /\ RankOf(D, Q, sorted[a]) = a - 1
        BY <2>7, <2>8, <2>9
      <4>2. i \in D
        BY <2>10
      <4> HIDE DEF D
      <4>3. /\ \A a, b \in 1..Cardinality(D) : sorted[a] = sorted[b] => a = b
            /\ RankOf(D, Q, i) + 1 \in 1..Cardinality(D) /\ sorted[RankOf(D, Q, i) + 1] = i
        BY <4>1, <4>2, ListByRank
      <4>4. QED
        BY <4>1, <4>3 DEF D
    <3>2. k \in 1..n /\ sorted[k] = i
      BY <2>11, <3>1
    <3> HIDE DEF k, n, S, R
    <3>3. inTime[sorted[k]] = u
      BY <2>10, <3>2
    <3>4. ASSUME NEW r \in 1..n, inTime[sorted[r]] = u
          PROVE  r = k
      <4>1. sorted[r] \in 1..n
        BY <2>9
      <4>2. sorted[r] = i
        BY <2>5, <2>10, <3>4, <4>1
      <4>3. QED
        BY <3>1, <3>2, <4>2
    <3>5. (CHOOSE r \in DOMAIN sorted : inTime[sorted[r]] = u) = k
      BY <2>9, <3>2, <3>3, <3>4
    <3>6. rank[u] = k - 1
      BY <1>3, <3>5
    <3>7. RankOf(S, R, u) \in Int
      <4>1. RankOf(S, R, u) \in 0..Cardinality(S) - 1
        BY <1>3, <2>1, RanksAre
      <4>2. QED
        BY <4>1, <2>2 DEF n
    <3> HIDE DEF rank
    <3>8. QED
      BY <3>6, <3>7 DEF k
  <2>13. /\ RankOf(S, R, u) \in 0..n - 1
         /\ RankAsc(day, u) = RankOf(S, R, u) + 1
         /\ RankDesc(day, u) = n - RankOf(S, R, u)
    BY <1>3, RanksOfSpark
  <2>14. day[u] # Null
    BY <1>3 DEF Priced
  <2> HIDE DEF rank, R, n, S
  <2>15. allowed.charge \in Nat /\ allowed.discharge \in Nat
    OBVIOUS
  <2> DEFINE q == RankOf(S, R, u)
             c == allowed.charge
             d == allowed.discharge
  <2> HIDE DEF q, c, d
  <2>16. AssignSignals(day, allowed)[u] = IF q < c THEN -1 ELSE IF q >= n - d THEN 1 ELSE 0
    BY <1>1, <1>3, <2>9, <2>12 DEF q, c, d
  <2>17. Signal(day, allowed, u) = IF q + 1 <= c THEN -1 ELSE IF n - q <= d THEN 1 ELSE 0
    BY <2>13, <2>14 DEF Signal, q, c, d
  <2>18. q \in Int /\ n \in Int /\ c \in Int /\ d \in Int
    BY <2>2, <2>13, <2>15 DEF q, c, d
  <2>19. QED
    BY <2>16, <2>17, <2>18
<1>4. QED
  BY <1>2, <1>3

(* The slots marked are the cheapest and then the dearest of the day, as   *)
(* many as allowed, or as there are.                                       *)
LEMMA MarkedSlots ==
    ASSUME NEW day, IsDay(day), NEW allowed \in [charge : Nat, discharge : Nat]
    PROVE  LET priced == Priced(day)
               charge == {u \in DOMAIN day : Signal(day, allowed, u) = -1}
               discharge == {u \in DOMAIN day : Signal(day, allowed, u) = 1}
           IN  /\ Cardinality(charge) = Min({allowed.charge, Cardinality(priced)})
               /\ Cardinality(discharge)
                     = Min({allowed.discharge, Cardinality(priced) - Cardinality(charge)})
               /\ \A u \in charge, v \in priced \ charge : day[u] <= day[v]
               /\ \A u \in discharge, v \in priced \ (charge \cup discharge) : day[u] >= day[v]
<1> DEFINE S == Priced(day)
           R == ByPrice(day)
           n == Cardinality(S)
           rank(u) == RankOf(S, R, u)
           c == allowed.charge
           d == allowed.discharge
           m == IF c <= n THEN c ELSE n
           a == IF m <= n - d THEN n - d ELSE m
           charge == {u \in DOMAIN day : Signal(day, allowed, u) = -1}
           discharge == {u \in DOMAIN day : Signal(day, allowed, u) = 1}
<1>1. /\ IsFiniteSet(S) /\ S \subseteq Int
      /\ \A u \in S : day[u] \in Nat
      /\ \A u, v \in S : <<u, v>> \in R <=> Cheaper(day, u, v)
      /\ TotalOrder(S, R)
  BY ByPriceOrders
<1>2. n \in Nat /\ c \in Nat /\ d \in Nat
  BY <1>1, FS_CardinalityType
<1>3. \A u \in S : /\ rank(u) \in 0..n - 1
                   /\ RankAsc(day, u) = rank(u) + 1 /\ RankDesc(day, u) = n - rank(u)
  BY RanksOfSpark
<1>4. \A u, v \in S : rank(u) < rank(v) => day[u] <= day[v]
  <2> SUFFICES ASSUME NEW u \in S, NEW v \in S, rank(u) < rank(v) PROVE day[u] <= day[v]
    OBVIOUS
  <2>1. <<u, v>> \in R
    BY <1>1, RanksAre
  <2>2. Cheaper(day, u, v)
    BY <1>1, <2>1
  <2>3. QED
    BY <1>1, <2>2 DEF Cheaper
<1>5. S \subseteq DOMAIN day /\ \A u \in DOMAIN day : u \in S <=> day[u] # Null
  BY DEF Priced
<1> HIDE DEF S, R, n, c, d, rank
<1>6. \A u \in S : /\ u \in charge <=> rank(u) \in 0..m - 1
                   /\ u \in discharge <=> rank(u) \in a..n - 1
  <2> SUFFICES ASSUME NEW u \in S
               PROVE  /\ u \in charge <=> rank(u) \in 0..m - 1
                      /\ u \in discharge <=> rank(u) \in a..n - 1
    OBVIOUS
  <2>1. Signal(day, allowed, u) = IF rank(u) + 1 <= c THEN -1 ELSE IF n - rank(u) <= d THEN 1 ELSE 0
    BY <1>3, <1>5 DEF Signal, c, d
  <2>2. /\ u \in charge <=> rank(u) + 1 <= c
        /\ u \in discharge <=> ~ (rank(u) + 1 <= c) /\ n - rank(u) <= d
    BY <1>5, <2>1
  <2>3. rank(u) \in 0..n - 1
    BY <1>3
  <2> HIDE DEF charge, discharge
  <2>4. QED
    BY <1>2, <2>2, <2>3
<1>7. charge \subseteq S /\ discharge \subseteq S
  <2>1. \A u \in DOMAIN day : u \notin S => Signal(day, allowed, u) = 0
    BY <1>5 DEF Signal
  <2>2. QED
    BY <2>1
<1> HIDE DEF charge, discharge
<1>8. charge = {u \in S : rank(u) \in 0..m - 1} /\ discharge = {u \in S : rank(u) \in a..n - 1}
  BY <1>6, <1>7
<1>9. m \in 0..n /\ a \in 0..n /\ a <= n /\ m <= n
  BY <1>2
<1>10. Cardinality(charge) = m /\ Cardinality(discharge) = n - a
  <2> HIDE DEF m, a
  <2>1. Cardinality({u \in S : rank(u) \in 0..m - 1}) = m - 0
    <3>1. 0 \in 0..Cardinality(S) /\ m \in 0..Cardinality(S)
      BY <1>2, <1>9 DEF n
    <3>2. QED
      BY <1>1, <3>1, RanksBetween DEF rank
  <2>2. Cardinality({u \in S : rank(u) \in a..n - 1}) = n - a
    <3>1. a \in 0..Cardinality(S) /\ n \in a..Cardinality(S)
      BY <1>2, <1>9 DEF n
    <3>2. QED
      BY <1>1, <3>1, RanksBetween DEF rank
  <2>3. QED
    BY <1>8, <1>9, <2>1, <2>2
<1>11. m = Min({c, n}) /\ n - a = Min({d, n - m})
  <2>1. c \in Int /\ n \in Int /\ d \in Int /\ n - m \in Int
    BY <1>2
  <2>2. Min({c, n}) = IF c <= n THEN c ELSE n
    BY <2>1, MinMaxOfTwo
  <2> DEFINE k == n - m
  <2>3. k \in Int
    BY <2>1
  <2> HIDE DEF k
  <2>4. Min({d, k}) = IF d <= k THEN d ELSE k
    BY <2>1, <2>3, MinMaxOfTwo
  <2>5. QED
    BY <1>2, <2>1, <2>2, <2>4 DEF k
<1>12. \A u \in charge, v \in S \ charge : day[u] <= day[v]
  <2> SUFFICES ASSUME NEW u \in charge, NEW v \in S \ charge PROVE day[u] <= day[v]
    OBVIOUS
  <2>1. u \in S /\ rank(u) \in 0..m - 1 /\ ~ rank(v) \in 0..m - 1 /\ rank(v) \in 0..n - 1
    BY <1>3, <1>6, <1>7
  <2> HIDE DEF m
  <2>2. rank(u) < rank(v)
    BY <1>9, <1>2, <2>1
  <2>3. QED
    BY <1>4, <2>1, <2>2
<1>13. \A u \in discharge, v \in S \ (charge \cup discharge) : day[u] >= day[v]
  <2> SUFFICES ASSUME NEW u \in discharge, NEW v \in S \ (charge \cup discharge)
               PROVE  day[u] >= day[v]
    OBVIOUS
  <2>1. u \in S /\ rank(u) \in a..n - 1 /\ ~ rank(v) \in a..n - 1 /\ rank(v) \in 0..n - 1
    BY <1>3, <1>6, <1>7
  <2> HIDE DEF a
  <2>2. rank(v) < rank(u)
    BY <1>9, <1>2, <2>1
  <2>3. day[v] <= day[u] /\ day[v] \in Nat /\ day[u] \in Nat
    BY <1>1, <1>4, <2>1, <2>2
  <2>4. QED
    BY <2>3
<1> HIDE DEF m, a
<1>14. QED
  BY <1>10, <1>11, <1>12, <1>13 DEF S, n, c, d, charge, discharge

(* gold_bess_signals.py: the windows of Spark and their "pure-Python       *)
(* equivalent" name the same slots of the day, with ties and with fewer    *)
(* prices than slots; they are the cheapest and then the dearest.          *)
THEOREM SignalsRight == Spec => []SignalsAgree
<1>1. ASSUME IInv, Idle, signals # {}
      PROVE  /\ signals = SignalTable
             /\ IsDay(DayPrices) /\ DOMAIN DayPrices = DOMAIN prices
             /\ slots \in [charge : Nat, discharge : Nat]
  <2>1. PricesOnce
    BY <1>1 DEF IInv, NoPrices
  <2>2. signals = SignalTable
    BY <1>1, <2>1 DEF PricesOnce
  <2>3. GoodZone(zone) /\ PricesLabelled
    BY <1>1, ZonesAreGood DEF IInv, TypeOK
  <2>4. DOMAIN prices \in SUBSET DayInstants(zone, 1)
    BY <2>3 DEF PricesLabelled
  <2>5. IsFiniteSet(DOMAIN prices) /\ DOMAIN prices \subseteq Int
    BY <2>3, <2>4, DayInstantsFinite, FS_Subset
  <2>6. \A u \in DOMAIN prices : prices[u].eur \in Nat
    BY <2>3, DayAssumption DEF PricesLabelled
  <2>7. slots \in [charge : Nat, discharge : Nat]
    BY <1>1, DayAssumption DEF IInv, TypeOK
  <2>8. QED
    BY <2>2, <2>5, <2>6, <2>7 DEF IsDay, DayPrices
<1>2. ASSUME IInv, Idle, signals # {}
      PROVE  LET day == [u \in DOMAIN prices |-> prices[u].eur]
                 priced == Priced(day)
                 Marked(s) == {r.at : r \in {q \in signals : q.signal = s}}
                 charge == Marked(-1)
                 discharge == Marked(1)
             IN  /\ \A r \in signals : r.signal = AssignSignals(day, slots)[r.at]
                 /\ Cardinality(charge) = Min({slots.charge, Cardinality(priced)})
                 /\ Cardinality(discharge)
                       = Min({slots.discharge, Cardinality(priced) - Cardinality(charge)})
                 /\ \A u \in charge, v \in priced \ charge : day[u] <= day[v]
                 /\ \A u \in discharge, v \in priced \ (charge \cup discharge) : day[u] >= day[v]
  <2> DEFINE day == DayPrices
             Marked(s) == {r.at : r \in {q \in signals : q.signal = s}}
             Slot(s) == {u \in DOMAIN day : Signal(day, slots, u) = s}
  <2>1. /\ signals = {DaySignalRow(u) : u \in DOMAIN day}
        /\ IsDay(day) /\ slots \in [charge : Nat, discharge : Nat]
    BY <1>1, <1>2 DEF SignalTable
  <2>2. \A u : DaySignalRow(u).at = u /\ DaySignalRow(u).signal = Signal(day, slots, u)
    BY DEF DaySignalRow
  <2> HIDE DEF day
  <2>3. \A s : Marked(s) = Slot(s)
    BY <2>1, <2>2
  <2>4. \A r \in signals : r.signal = AssignSignals(day, slots)[r.at]
    BY <2>1, <2>2, SameSignals
  <2> DEFINE priced == Priced(day)
             charge == Slot(-1)
             discharge == Slot(1)
  <2>5. /\ Cardinality(charge) = Min({slots.charge, Cardinality(priced)})
        /\ Cardinality(discharge)
              = Min({slots.discharge, Cardinality(priced) - Cardinality(charge)})
        /\ \A u \in charge, v \in priced \ charge : day[u] <= day[v]
        /\ \A u \in discharge, v \in priced \ (charge \cup discharge) : day[u] >= day[v]
    BY <2>1, MarkedSlots
  <2>6. charge = Marked(-1) /\ discharge = Marked(1)
    BY <2>3
  <2> HIDE DEF charge, discharge, Marked, Slot
  <2>7. /\ Cardinality(Marked(-1)) = Min({slots.charge, Cardinality(priced)})
        /\ Cardinality(Marked(1))
              = Min({slots.discharge, Cardinality(priced) - Cardinality(Marked(-1))})
        /\ \A u \in Marked(-1), v \in priced \ Marked(-1) : day[u] <= day[v]
        /\ \A u \in Marked(1), v \in priced \ (Marked(-1) \cup Marked(1)) : day[u] >= day[v]
    BY <2>5, <2>6
  <2>8. QED
    BY <2>4, <2>7 DEF day, DayPrices, Marked
<1>3. IInv => SignalsAgree
  BY <1>2 DEF SignalsAgree
<1>4. QED
  BY <1>3, Inductive, PTL

------------------------------------------------------------------------------
(* The answers of the API.                                                 *)

(* Where no hour is repeated, the clock goes forward.                      *)
LEMMA ClockGoesForward ==
    ASSUME GoodZone(zone), NoHourRepeats,
           NEW u \in DayInstants(zone, 1), NEW v \in DayInstants(zone, 1), u < v
    PROVE  LocalTimeId(zone, u) < LocalTimeId(zone, v)
<1> DEFINE a == INTERVALS_PER_HOUR * zone.after
           b == INTERVALS_PER_HOUR * zone.before
           c == zone.change
           day == DayLength * 1
           next == DayLength * (1 + 1)
<1>1. /\ a \in Int /\ b \in Int /\ c \in Int /\ day \in Int /\ next \in Int
      /\ zone.before \in Int /\ zone.after \in Int
  BY LengthOfDay DEF GoodZone
<1>2. \A x \in Int : Local(zone, x) = IF x < c THEN x + b ELSE x + a
  BY DEF Local, Offset
<1>3. /\ u \in Int /\ v \in Int
      /\ LocalDate(zone, u) = 1 /\ LocalDate(zone, v) = 1
  BY DayInstantsFinite, DayInstantsAre
<1>4. \A x \in Int : x \in DayInstants(zone, 1)
                       <=> day <= Local(zone, x) /\ ~ (next <= Local(zone, x))
  <2> SUFFICES ASSUME NEW x \in Int
               PROVE  x \in DayInstants(zone, 1)
                          <=> day <= Local(zone, x) /\ ~ (next <= Local(zone, x))
    OBVIOUS
  <2> DEFINE one == 1
             two == 1 + 1
  <2>1. one \in Int /\ two \in Int /\ two = one + 1
    OBVIOUS
  <2>2. /\ LocalMidnight(zone, one) \in Int /\ LocalMidnight(zone, two) \in Int
        /\ LocalMidnight(zone, one) <= x <=> DayLength * one <= Local(zone, x)
        /\ LocalMidnight(zone, two) <= x <=> DayLength * two <= Local(zone, x)
    BY <2>1, MidnightIsFirst
  <2>3. x \in DayInstants(zone, 1)
            <=> LocalMidnight(zone, one) <= x /\ ~ (LocalMidnight(zone, two) <= x)
    BY <2>2 DEF DayInstants
  <2>4. QED
    BY <2>2, <2>3
<1>5. SUFFICES ASSUME ~ (Local(zone, u) < Local(zone, v)) PROVE FALSE
  BY <1>3, LocalIsInt, LengthOfDay
<1> HIDE DEF a, b, c, day, next
<1>6. u < c /\ c <= v /\ a < b
  BY <1>1, <1>2, <1>3, <1>5
<1>7. ~ (c + a < day /\ day < c + b)
  <2>1. Min({zone.before, zone.after}) = zone.after /\ Max({zone.before, zone.after}) = zone.before
    <3>1. zone.after <= zone.before
      <4>1. zone.before <= zone.after <=> b <= a
        BY <1>1, LengthOfDay, Multiples DEF a, b
      <4>2. QED
        BY <1>1, <1>6, <4>1
    <3>2. QED
      BY <1>1, <3>1, MinMaxOfTwo
  <2>2. 1 \in Int
    OBVIOUS
  <2>3. QED
    BY <2>1, <2>2 DEF GoodZone, a, b, c, day
<1> DEFINE g == c + a - b
<1>8. Local(zone, c) = c + a /\ Local(zone, g) = c + a /\ g \in Int /\ g < c
  BY <1>1, <1>2, <1>6
<1>9. g % INTERVALS_PER_HOUR = 0 /\ c % INTERVALS_PER_HOUR = 0
  <2>1. c % INTERVALS_PER_HOUR = 0
    BY DEF GoodZone, c
  <2>2. PICK q \in Int : c = INTERVALS_PER_HOUR * q
    BY <1>1, <2>1, LengthOfDay, NoRemainder
  <2> DEFINE k == q + zone.after - zone.before
  <2>3. k \in Int
    BY <1>1, <2>2
  <2>4. g = INTERVALS_PER_HOUR * k + 0
    BY <1>1, <2>2, LengthOfDay DEF a, b
  <2> HIDE DEF k, g
  <2>5. g % INTERVALS_PER_HOUR = 0
    <3>1. 0 \in 0..INTERVALS_PER_HOUR - 1
      BY LengthOfDay
    <3>2. QED
      BY <2>3, <2>4, <3>1, LengthOfDay, QuotientIs
  <2>6. QED
    BY <2>1, <2>5
<1>10. day <= c + a /\ ~ (next <= c + a)
  <2>1. day <= u + b /\ ~ (next <= v + a)
    BY <1>1, <1>2, <1>3, <1>4, <1>6
  <2>2. QED
    BY <1>1, <1>3, <1>6, <1>7, <2>1
<1>11. c \in HoursOf(1) /\ g \in HoursOf(1)
  <2>1. c \in DayInstants(zone, 1) /\ g \in DayInstants(zone, 1)
    BY <1>1, <1>4, <1>8, <1>10
  <2>2. QED
    BY <1>9, <2>1 DEF HoursOf
<1>12. ClockHour(zone, g) = ClockHour(zone, c)
  <2> HIDE DEF g
  <2>1. c \in c..c + INTERVALS_PER_HOUR - 1 /\ g \in g..g + INTERVALS_PER_HOUR - 1
    BY <1>1, <1>8, LengthOfDay
  <2>2. ClockHour(zone, g) = LocalTimeId(zone, g) /\ ClockHour(zone, c) = LocalTimeId(zone, c)
    BY <1>1, <1>8, <1>9, <2>1, HourHasOneLabel
  <2>3. QED
    BY <1>8, <2>2 DEF LocalTimeId
<1>13. QED
  BY <1>8, <1>11, <1>12 DEF NoHourRepeats, Repeated

(* Rows of different times are sorted by them.                             *)
LEMMA SortedInTime ==
    ASSUME NEW rows, IsFiniteSet(rows), NEW later,
           \A r \in rows : r.at \in Int /\ r.time_id \in Int,
           \A r, q \in rows : r.at = q.at => r = q,
           \A r, q \in rows : r.at < q.at => r.time_id < q.time_id
    PROVE  LET list == Sorted(rows, later)
           IN  \A i, j \in DOMAIN list : i < j => list[i].at < list[j].at
<1> DEFINE n == Cardinality(rows)
           list == Sorted(rows, later)
           Before(r, q) == \/ r.time_id < q.time_id
                           \/ /\ r.time_id = q.time_id
                              /\ IF r.time_id \in later THEN r.at > q.at ELSE r.at < q.at
           R == {p \in rows \X rows : p[1].at < p[2].at}
<1>1. \A r, q \in rows : Before(r, q) <=> r.at < q.at
  <2> SUFFICES ASSUME NEW r \in rows, NEW q \in rows PROVE Before(r, q) <=> r.at < q.at
    OBVIOUS
  <2>1. r.at \in Int /\ q.at \in Int /\ r.time_id \in Int /\ q.time_id \in Int
    OBVIOUS
  <2>2. (r.at < q.at => r.time_id < q.time_id) /\ (q.at < r.at => q.time_id < r.time_id)
        /\ (r.at = q.at => r.time_id = q.time_id)
    OBVIOUS
  <2>3. QED
    BY <2>1, <2>2
<1>2. TotalOrder(rows, R) /\ \A r, q \in rows : <<r, q>> \in R <=> r.at < q.at
  <2>1. \A r, q \in rows : <<r, q>> \in R <=> r.at < q.at
    OBVIOUS
  <2> HIDE DEF R
  <2>2. TotalOrder(rows, R)
    BY <2>1 DEF TotalOrder
  <2>3. QED
    BY <2>1, <2>2
<1>3. /\ DOMAIN list = 1..n
      /\ \A i \in 1..n :
           list[i] = CHOOSE x \in rows : Cardinality({y \in rows : Before(y, x)}) = i - 1
  <2> DEFINE Ith(i) == CHOOSE x \in rows : Cardinality({y \in rows : Before(y, x)}) = i - 1
  <2>1. list = [i \in 1..n |-> Ith(i)]
    BY DEF Sorted, InOrder
  <2> HIDE DEF list, Ith, n
  <2>2. DOMAIN list = 1..n /\ \A i \in 1..n : list[i] = Ith(i)
    BY ONLY <2>1
  <2>3. QED
    BY <2>2 DEF Ith
<1> HIDE DEF list, Before, R
<1>4. ASSUME NEW x \in rows
      PROVE  RankOf(rows, R, x) = Cardinality({y \in rows : Before(y, x)})
  <2>1. Below(rows, R, x) = {y \in rows : Before(y, x)}
    BY <1>1, <1>2 DEF Below
  <2>2. QED
    BY <2>1 DEF RankOf
<1>5. n \in Nat
  BY FS_CardinalityType
<1>6. ASSUME NEW i \in 1..n
      PROVE  list[i] \in rows /\ RankOf(rows, R, list[i]) = i - 1
  <2>1. i - 1 \in 0..n - 1
    BY <1>5
  <2>2. \E x \in rows : RankOf(rows, R, x) = i - 1
    BY <1>2, <2>1, RanksAre
  <2> HIDE DEF n
  <2>3. \E x \in rows : Cardinality({y \in rows : Before(y, x)}) = i - 1
    BY <1>4, <2>2
  <2>4. list[i] \in rows /\ Cardinality({y \in rows : Before(y, list[i])}) = i - 1
    BY <1>3, <2>3
  <2>5. QED
    BY <1>4, <2>4
<1>7. \A i, j \in 1..n : i < j <=> <<list[i], list[j]>> \in R
  BY <1>2, <1>6, ListByRank
<1>8. \A i, j \in DOMAIN list : i < j => list[i].at < list[j].at
  <2> HIDE DEF n
  <2>1. QED
    BY <1>2, <1>3, <1>6, <1>7
<1>9. QED
  BY <1>8 DEF list

(* A table with a row for each of some instants of day 1, labelled by its  *)
(* own clock, is served in order.                                          *)
LEMMA TableInOrder ==
    ASSUME GoodZone(zone), NoHourRepeats, NEW at \in SUBSET DayInstants(zone, 1),
           NEW f, DOMAIN f = at,
           \A u \in at : f[u].at = u /\ f[u].time_id = LocalTimeId(zone, u),
           NEW later
    PROVE  LET list == Sorted({f[u] : u \in at}, later)
           IN  \A i, j \in DOMAIN list : i < j => list[i].at < list[j].at
<1> DEFINE rows == {f[u] : u \in at}
<1>1. IsFiniteSet(at) /\ at \subseteq Int
  BY DayInstantsFinite, FS_Subset
<1>2. IsFiniteSet(rows)
  <2> DEFINE e == [u \in at |-> f[u]]
  <2>1. e \in [at -> rows] /\ (\A t \in rows : \E x \in at : e[x] = t)
    OBVIOUS
  <2>2. \A x, y \in at : e[x] = e[y] => x = y
    OBVIOUS
  <2> HIDE DEF e, rows
  <2>3. QED
    BY ONLY <1>1, <2>1, <2>2, SameSize
<1>3. \A u \in at : LocalTimeId(zone, u) \in Int
  <2> SUFFICES ASSUME NEW u \in at PROVE LocalTimeId(zone, u) \in Int
    OBVIOUS
  <2>1. LocalTimeId(zone, u) \in 0..DayLength - 1
    BY <1>1, LocalIsInt
  <2>2. QED
    BY <2>1, LengthOfDay
<1>4. \A u, v \in at : u < v => LocalTimeId(zone, u) < LocalTimeId(zone, v)
  BY ClockGoesForward
<1>5. /\ \A r \in rows : r.at \in Int /\ r.time_id \in Int
      /\ \A r, q \in rows : r.at = q.at => r = q
      /\ \A r, q \in rows : r.at < q.at => r.time_id < q.time_id
  BY <1>1, <1>3, <1>4
<1> HIDE DEF rows
<1>6. LET list == Sorted(rows, later)
      IN  \A i, j \in DOMAIN list : i < j => list[i].at < list[j].at
  BY <1>2, <1>5, SortedInTime
<1>7. QED
  BY <1>6 DEF rows

(* bess.py, prices.py: sorted by their local time_id, the slots and hours  *)
(* of the answers are in the order of time, unless an hour is repeated.    *)
LEMMA InOrderOfTime == Spec => []ServedInOrder
<1>1. Init => ServedInOrder
  BY DEF Init, ServedInOrder
<1>2. ASSUME IInv, Serve, NoHourRepeats
      PROVE  \A list \in {answer'.hours, answer'.slots} : \A i, j \in DOMAIN list :
                 i < j => list[i].at < list[j].at
  <2>1. PICK later : answer' = [slots |-> Sorted(signals, later),
                                windows |-> ArbitrageWindows(later),
                                hours |-> Sorted(priceHourly, later)]
    BY <1>2 DEF Serve, SignalIntervals, PriceIntervals
  <2>2. answer'.slots = Sorted(signals, later) /\ answer'.hours = Sorted(priceHourly, later)
    BY <2>1
  <2>3. PricesOnce /\ Idle /\ signals # {} /\ GoodZone(zone) /\ PricesLabelled
    BY <1>2, ZonesAreGood DEF IInv, NoPrices, Serve, TypeOK
  <2>4. run.number = 1 /\ signals = SignalTable /\ priceHourly = HourTable
    BY <2>3 DEF PricesOnce, Idle
  <2>5. \A i, j \in DOMAIN answer'.slots : i < j => answer'.slots[i].at < answer'.slots[j].at
    <3> DEFINE at == DOMAIN prices
               f == [u \in at |-> DaySignalRow(u)]
    <3>1. at \in SUBSET DayInstants(zone, 1)
      BY <2>3 DEF PricesLabelled
    <3>2. \A u \in at : f[u].at = u /\ f[u].time_id = LocalTimeId(zone, u)
      BY <2>3 DEF DaySignalRow, PricesLabelled
    <3>3. DOMAIN f = at /\ signals = {f[u] : u \in at}
      BY <2>4 DEF SignalTable
    <3> HIDE DEF at, f
    <3>4. QED
      BY <1>2, <2>2, <2>3, <3>1, <3>2, <3>3, TableInOrder
  <2>6. \A i, j \in DOMAIN answer'.hours : i < j => answer'.hours[i].at < answer'.hours[j].at
    <3> DEFINE at == {HourStart(zone, u) : u \in DOMAIN prices}
               f == [h \in at |-> DayHourRow(h)]
    <3>1. at \in SUBSET DayInstants(zone, 1)
      <4> SUFFICES ASSUME NEW u \in DOMAIN prices
                   PROVE  HourStart(zone, u) \in DayInstants(zone, 1)
        OBVIOUS
      <4> DEFINE g == HourStart(zone, u)
      <4>1. u \in DayInstants(zone, 1)
        BY <2>3 DEF PricesLabelled
      <4>2. u \in Int /\ LocalDate(zone, u) = 1
        BY <2>3, <4>1, DayInstantsFinite, DayInstantsAre
      <4>3. g \in Int /\ g % INTERVALS_PER_HOUR = 0 /\ u \in g..g + INTERVALS_PER_HOUR - 1
        BY <4>2, HourOf
      <4>4. LocalDate(zone, g) = 1
        BY <2>3, <4>2, <4>3, HourHasOneLabel
      <4>5. QED
        BY <2>3, <4>3, <4>4, DayInstantsAre
    <3>2. \A h \in at : f[h].at = h /\ f[h].time_id = LocalTimeId(zone, h)
      BY DEF DayHourRow
    <3>3. DOMAIN f = at /\ priceHourly = {f[h] : h \in at}
      BY <2>4 DEF HourTable
    <3> HIDE DEF at, f
    <3>4. QED
      BY <1>2, <2>2, <2>3, <3>1, <3>2, <3>3, TableInOrder
  <2>7. QED
    BY <2>5, <2>6
<1>3. IInv /\ ServedInOrder /\ [Next]_vars => ServedInOrder'
  <2> SUFFICES ASSUME IInv, ServedInOrder, [Next]_vars, answer' # NoAnswer, NoHourRepeats'
               PROVE  \A list \in {answer'.hours, answer'.slots} : \A i, j \in DOMAIN list :
                          i < j => list[i].at < list[j].at
    BY DEF ServedInOrder, NoHourRepeats, NoAnswer
  <2>1. zone' = zone
    BY DEF Next, StartRun, Complete, DimDatetime, FactPrice, FactGeneration, FactLoad, FactWeather,
           MergeFacts, PriceHourly, GenerationHourly, BuildSignals, Serve, vars, bronze
  <2>2. NoHourRepeats
    BY <2>1 DEF NoHourRepeats, Repeated, HoursOf
  <2>3. CASE Serve
    BY <1>2, <2>2, <2>3
  <2>4. CASE answer' = answer
    BY <2>2, <2>4 DEF ServedInOrder, NoHourRepeats
  <2>5. QED
    BY <2>3, <2>4 DEF Next, StartRun, Complete, DimDatetime, FactPrice, FactGeneration, FactLoad,
           FactWeather, MergeFacts, PriceHourly, GenerationHourly, BuildSignals, vars
<1>4. QED
  BY <1>1, <1>3, Inductive, PTL DEF Spec

------------------------------------------------------------------------------
(* The windows of the API.                                                 *)

(* Whatever the order of rows with equal time_ids, each row is once in the *)
(* sorted list.                                                            *)
LEMMA SortedHasAll ==
    ASSUME NEW rows, IsFiniteSet(rows), NEW later,
           \A r \in rows : r.at \in Int /\ r.time_id \in Int,
           \A r, q \in rows : r.at = q.at => r = q
    PROVE  LET list == Sorted(rows, later)
           IN  /\ list \in Seq(rows)
               /\ \A r \in rows : \E i \in DOMAIN list : list[i] = r
               /\ \A i, j \in DOMAIN list : list[i] = list[j] => i = j
<1> DEFINE n == Cardinality(rows)
           list == Sorted(rows, later)
           Before(r, q) == \/ r.time_id < q.time_id
                           \/ /\ r.time_id = q.time_id
                              /\ IF r.time_id \in later THEN r.at > q.at ELSE r.at < q.at
           R == {p \in rows \X rows : Before(p[1], p[2])}
<1>1. \A r, q \in rows : <<r, q>> \in R <=> Before(r, q)
  OBVIOUS
<1>2. TotalOrder(rows, R)
  <2> HIDE DEF R
  <2>1. \A r \in rows : ~ Before(r, r)
    OBVIOUS
  <2>2. \A r, q \in rows : r = q \/ Before(r, q) \/ Before(q, r)
    <3> SUFFICES ASSUME NEW r \in rows, NEW q \in rows
                 PROVE  r = q \/ Before(r, q) \/ Before(q, r)
      OBVIOUS
    <3>1. r.at \in Int /\ q.at \in Int /\ r.time_id \in Int /\ q.time_id \in Int
      OBVIOUS
    <3>2. CASE r.time_id # q.time_id
      BY <3>1, <3>2
    <3>3. CASE r.time_id = q.time_id /\ r.at # q.at
      BY <3>1, <3>3
    <3>4. QED
      BY <3>2, <3>3
  <2>3. ASSUME NEW r \in rows, NEW q \in rows, NEW s \in rows, Before(r, q), Before(q, s)
        PROVE  Before(r, s)
    <3>1. /\ r.at \in Int /\ q.at \in Int /\ s.at \in Int
          /\ r.time_id \in Int /\ q.time_id \in Int /\ s.time_id \in Int
      OBVIOUS
    <3>2. CASE r.time_id < q.time_id \/ q.time_id < s.time_id
      BY <2>3, <3>1, <3>2
    <3>3. CASE r.time_id = q.time_id /\ q.time_id = s.time_id
      BY <2>3, <3>1, <3>3
    <3>4. QED
      BY <2>3, <3>1, <3>2, <3>3
  <2> HIDE DEF Before
  <2>4. QED
    BY <1>1, <2>1, <2>2, <2>3 DEF TotalOrder
<1>3. /\ DOMAIN list = 1..n
      /\ \A i \in 1..n :
           list[i] = CHOOSE x \in rows : Cardinality({y \in rows : Before(y, x)}) = i - 1
  <2> DEFINE Ith(i) == CHOOSE x \in rows : Cardinality({y \in rows : Before(y, x)}) = i - 1
  <2>1. list = [i \in 1..n |-> Ith(i)]
    BY DEF Sorted, InOrder
  <2> HIDE DEF list, Ith, n
  <2>2. DOMAIN list = 1..n /\ \A i \in 1..n : list[i] = Ith(i)
    BY ONLY <2>1
  <2>3. QED
    BY <2>2 DEF Ith
<1>4. list = [i \in 1..n |-> list[i]]
  <2> DEFINE Ith(i) == CHOOSE x \in rows : Cardinality({y \in rows : Before(y, x)}) = i - 1
  <2>1. list = [i \in 1..n |-> Ith(i)]
    BY DEF Sorted, InOrder
  <2> HIDE DEF list, Ith, n
  <2>2. QED
    BY <2>1
<1> HIDE DEF list, Before, R
<1>5. ASSUME NEW x \in rows
      PROVE  RankOf(rows, R, x) = Cardinality({y \in rows : Before(y, x)})
  <2>1. Below(rows, R, x) = {y \in rows : Before(y, x)}
    BY <1>1 DEF Below
  <2>2. QED
    BY <2>1 DEF RankOf
<1>6. n \in Nat
  BY FS_CardinalityType
<1>7. ASSUME NEW i \in 1..n
      PROVE  list[i] \in rows /\ RankOf(rows, R, list[i]) = i - 1
  <2>1. i - 1 \in 0..n - 1
    BY <1>6
  <2>2. \E x \in rows : RankOf(rows, R, x) = i - 1
    BY <1>2, <2>1, RanksAre
  <2> HIDE DEF n
  <2>3. \E x \in rows : Cardinality({y \in rows : Before(y, x)}) = i - 1
    BY <1>5, <2>2
  <2>4. list[i] \in rows /\ Cardinality({y \in rows : Before(y, list[i])}) = i - 1
    BY <1>3, <2>3
  <2>5. QED
    BY <1>5, <2>4
<1>8. /\ \A i, j \in 1..n : list[i] = list[j] => i = j
      /\ \A x \in rows : /\ RankOf(rows, R, x) + 1 \in 1..n
                         /\ list[RankOf(rows, R, x) + 1] = x
  BY <1>2, <1>7, ListByRank
<1>9. list \in Seq(rows)
  <2> HIDE DEF n
  <2>1. list \in [1..n -> rows]
    BY <1>4, <1>7
  <2>2. QED
    BY <1>6, <2>1
<1> HIDE DEF n
<1>10. QED
  BY <1>3, <1>8, <1>9 DEF list

(* Numbers in order: each is once in the list.                             *)
LEMMA NumbersInOrder ==
    ASSUME NEW S \in SUBSET Int, IsFiniteSet(S)
    PROVE  LET f == InOrder(S, <)
           IN  /\ \A k \in DOMAIN f : f[k] \in S
               /\ \A x \in S : \E k \in DOMAIN f : f[k] = x
               /\ \A j, k \in DOMAIN f : f[j] = f[k] => j = k
<1> DEFINE n == Cardinality(S)
           f == InOrder(S, <)
           T == {p \in S \X S : p[1] < p[2]}
<1>1. TotalOrder(S, T) /\ \A v, w \in S : <<v, w>> \in T <=> v < w
  <2>1. \A v, w \in S : <<v, w>> \in T <=> v < w
    OBVIOUS
  <2> HIDE DEF T
  <2>2. TotalOrder(S, T)
    BY <2>1 DEF TotalOrder
  <2>3. QED
    BY <2>1, <2>2
<1>2. /\ DOMAIN f = 1..n
      /\ \A i \in 1..n : f[i] = CHOOSE x \in S : Cardinality({y \in S : y < x}) = i - 1
  BY DEF InOrder
<1> HIDE DEF f, T
<1>3. ASSUME NEW x \in S
      PROVE  RankOf(S, T, x) = Cardinality({y \in S : y < x})
  <2>1. Below(S, T, x) = {y \in S : y < x}
    BY <1>1 DEF Below
  <2>2. QED
    BY <2>1 DEF RankOf
<1>4. n \in Nat
  BY FS_CardinalityType
<1>5. ASSUME NEW i \in 1..n
      PROVE  f[i] \in S /\ RankOf(S, T, f[i]) = i - 1
  <2>1. i - 1 \in 0..n - 1
    BY <1>4
  <2>2. \A k \in 0..n - 1 : \E x \in S : RankOf(S, T, x) = k
    BY <1>1, RanksAre
  <2> HIDE DEF n
  <2>3. \E x \in S : Cardinality({y \in S : y < x}) = i - 1
    BY <1>3, <2>1, <2>2
  <2>4. f[i] \in S /\ Cardinality({y \in S : y < f[i]}) = i - 1
    BY <1>2, <2>3
  <2>5. QED
    BY <1>3, <2>4
<1>6. /\ \A i, j \in 1..n : f[i] = f[j] => i = j
      /\ \A x \in S : RankOf(S, T, x) + 1 \in 1..n /\ f[RankOf(S, T, x) + 1] = x
  BY <1>1, <1>5, ListByRank
<1> HIDE DEF n
<1>7. QED
  BY <1>2, <1>5, <1>6 DEF f


(* A non-empty set of natural numbers has a least element.                 *)
LEMMA LeastOf ==
    ASSUME NEW S \in SUBSET Nat, S # {}
    PROVE  \E m \in S : \A n \in S : m <= n
<1> DEFINE Less == {ss \in Nat \X Nat : ss[1] < ss[2]}
<1>1. IsWellFoundedOn(Less, Nat)
  BY NatLessThanWellFounded DEF OpToRel
<1>2. PICK m \in S : \A n \in S : ~ (<<n, m>> \in Less)
  <2> HIDE DEF Less
  <2>1. QED
    BY <1>1, WFMin
<1>3. \A n \in S : m <= n
  <2> SUFFICES ASSUME NEW n \in S, n < m PROVE FALSE
    OBVIOUS
  <2>1. <<n, m>> \in Nat \X Nat /\ <<n, m>>[1] < <<n, m>>[2]
    OBVIOUS
  <2>2. QED
    BY <1>2, <2>1
<1>4. QED
  BY <1>3

(* A group has one signal, and the row behind it has another.              *)
LEMMA GroupGoesOn ==
    ASSUME NEW rows, NEW list \in Seq(rows), NEW i \in DOMAIN list
    PROVE  /\ GroupEnd(list, i) \in i..Len(list)
           /\ \A k \in i..GroupEnd(list, i) : list[k].signal = list[i].signal
           /\ GroupEnd(list, i) < Len(list) =>
                  list[GroupEnd(list, i) + 1].signal # list[i].signal
<1> DEFINE n == Len(list)
           same(k) == list[k].signal = list[i].signal
           Ends == {j \in i..n : j < n => ~ same(j + 1)}
           IsEnd(j) == (\A k \in i..j : same(k)) /\ (j < n => ~ same(j + 1))
<1>1. n \in Nat /\ i \in 1..n /\ i \in Nat
  OBVIOUS
<1>2. same(i)
  OBVIOUS
<1>3. GroupEnd(list, i) = CHOOSE j \in i..n : IsEnd(j)
  BY DEF GroupEnd
<1> HIDE DEF n, same
<1>4. Ends \in SUBSET Nat /\ n \in Ends
  BY <1>1
<1>5. PICK j \in Ends : \A k \in Ends : j <= k
  <2> HIDE DEF Ends
  <2>1. QED
    BY <1>4, LeastOf
<1>6. j \in i..n /\ j \in Nat /\ (j < n => ~ same(j + 1))
  BY <1>1, <1>5
<1>7. \A k \in i..j : same(k)
  <2> DEFINE Bad == {k \in i..j : ~ same(k)}
  <2> SUFFICES ASSUME Bad # {} PROVE FALSE
    OBVIOUS
  <2>1. Bad \in SUBSET Nat
    BY <1>1
  <2>2. PICK k \in Bad : \A l \in Bad : k <= l
    <3> HIDE DEF Bad
    <3>1. QED
      BY <2>1, LeastOf
  <2>3. k \in i..j /\ ~ same(k) /\ k # i
    BY <1>2, <2>2
  <2>4. k - 1 \in i..n /\ k - 1 < n /\ k - 1 + 1 = k /\ k - 1 < j
    BY <1>1, <1>6, <2>3
  <2>5. k - 1 \in Ends
    BY <2>3, <2>4
  <2>6. j <= k - 1
    BY <1>5, <2>5
  <2>7. QED
    BY <1>6, <2>3, <2>4, <2>6
<1>8. IsEnd(j)
  BY <1>6, <1>7
<1>9. IsEnd(GroupEnd(list, i)) /\ GroupEnd(list, i) \in i..n
  <2> HIDE DEF IsEnd
  <2>1. QED
    BY <1>3, <1>6, <1>8
<1>10. QED
  BY <1>9 DEF n, same

(* Each row is in one group.                                               *)
LEMMA GroupOfRow ==
    ASSUME NEW rows, NEW list \in Seq(rows), NEW p \in DOMAIN list
    PROVE  \E i \in GroupStarts(list) : p \in i..GroupEnd(list, i)
<1> DEFINE n == Len(list)
           Fits == {i \in 1..p : \A k \in i..p : list[k].signal = list[p].signal}
<1>1. n \in Nat /\ DOMAIN list = 1..n /\ p \in 1..n
  OBVIOUS
<1>2. Fits \in SUBSET Nat /\ p \in Fits
  BY <1>1
<1>3. PICK i \in Fits : \A k \in Fits : i <= k
  <2> HIDE DEF Fits
  <2>1. QED
    BY <1>2, LeastOf
<1>4. i \in 1..p /\ i \in DOMAIN list /\ \A k \in i..p : list[k].signal = list[p].signal
  BY <1>1, <1>3
<1>5. i \in GroupStarts(list)
  <2> SUFFICES ASSUME i > 1, list[i].signal = list[i - 1].signal
               PROVE  FALSE
    BY <1>4 DEF GroupStarts
  <2>1. i - 1 \in 1..p /\ i - 1 < i /\ list[i - 1].signal = list[p].signal
    BY <1>1, <1>4
  <2>2. ASSUME NEW k \in i - 1..p
        PROVE  list[k].signal = list[p].signal
    <3>1. k = i - 1 \/ k \in i..p
      BY <1>1, <1>4
    <3>2. QED
      BY <1>4, <2>1, <3>1
  <2>3. i - 1 \in Fits
    BY <2>1, <2>2
  <2>4. QED
    BY <1>3, <1>4, <2>1, <2>3
<1>6. p <= GroupEnd(list, i)
  <2> DEFINE e == GroupEnd(list, i)
  <2>1. e \in i..n /\ (e < n => list[e + 1].signal # list[i].signal)
    BY <1>4, GroupGoesOn
  <2> HIDE DEF e
  <2> SUFFICES ASSUME e < p PROVE FALSE
    BY <1>1, <1>4, <2>1 DEF e
  <2>2. e + 1 \in i..p /\ e < n /\ i \in i..p
    BY <1>1, <1>4, <2>1
  <2>3. QED
    BY <1>4, <2>1, <2>2
<1>7. GroupEnd(list, i) \in i..n
  BY <1>4, GroupGoesOn
<1>8. QED
  BY <1>1, <1>4, <1>5, <1>6, <1>7

LEMMA GroupsApart ==
    ASSUME NEW rows, NEW list \in Seq(rows),
           NEW i \in GroupStarts(list), NEW j \in GroupStarts(list), i < j
    PROVE  /\ GroupEnd(list, i) < j
           /\ list[j - 1].signal # list[j].signal
<1> DEFINE n == Len(list)
           e == GroupEnd(list, i)
<1>1. n \in Nat /\ i \in 1..n /\ j \in 1..n /\ i \in DOMAIN list
  BY DEF GroupStarts
<1>2. list[j - 1].signal # list[j].signal
  BY <1>1 DEF GroupStarts
<1>3. e \in i..n /\ \A k \in i..e : list[k].signal = list[i].signal
  BY <1>1, GroupGoesOn
<1> HIDE DEF e
<1>4. e < j
  <2> SUFFICES ASSUME j <= e PROVE FALSE
    BY <1>1, <1>3
  <2>1. j \in i..e /\ j - 1 \in i..e
    BY <1>1, <1>3
  <2>2. QED
    BY <1>2, <1>3, <2>1
<1>5. QED
  BY <1>2, <1>4 DEF e

(* A window is a group that is not idle, each such group is one window.    *)
StartOf(list, f) ==
    /\ DOMAIN Windows(list) = DOMAIN f
    /\ \A w \in DOMAIN f :
         /\ f[w] \in GroupStarts(list) /\ list[f[w]].signal # 0
         /\ DOMAIN Windows(list)[w] = 1..GroupEnd(list, f[w]) - f[w] + 1
         /\ \A k \in DOMAIN Windows(list)[w] : Windows(list)[w][k] = list[f[w] + k - 1]
    /\ \A i \in GroupStarts(list) : list[i].signal # 0 => \E w \in DOMAIN f : f[w] = i
    /\ \A v, w \in DOMAIN f : f[v] = f[w] => v = w

LEMMA WindowsAre ==
    ASSUME NEW rows, NEW list \in Seq(rows)
    PROVE  \E f : StartOf(list, f)
<1> DEFINE S == {i \in GroupStarts(list) : list[i].signal # 0}
           f == InOrder(S, <)
<1>1. S \subseteq 1..Len(list) /\ Len(list) \in Nat
  BY DEF GroupStarts
<1>2. S \in SUBSET Int /\ IsFiniteSet(S)
  <2> DEFINE n == Len(list)
  <2>1. n \in Int /\ S \in SUBSET (1..n)
    BY <1>1
  <2> HIDE DEF S, n
  <2>2. IsFiniteSet(1..n)
    BY <2>1, FS_Interval
  <2>3. IsFiniteSet(S)
    BY <2>1, <2>2, FS_Subset
  <2>4. QED
    BY <2>1, <2>3
<1>3. Windows(list) = [w \in DOMAIN f |-> Group(list, f[w])]
  BY DEF Windows
<1>4. /\ \A w \in DOMAIN f : f[w] \in S
      /\ \A i \in S : \E w \in DOMAIN f : f[w] = i
      /\ \A v, w \in DOMAIN f : f[v] = f[w] => v = w
  <2> HIDE DEF S
  <2>1. QED
    BY <1>2, NumbersInOrder
<1> HIDE DEF f
<1>5. ASSUME NEW w \in DOMAIN f
      PROVE  /\ f[w] \in GroupStarts(list) /\ list[f[w]].signal # 0
             /\ DOMAIN Windows(list)[w] = 1..GroupEnd(list, f[w]) - f[w] + 1
             /\ \A k \in DOMAIN Windows(list)[w] : Windows(list)[w][k] = list[f[w] + k - 1]
  <2> DEFINE i == f[w]
             e == GroupEnd(list, i)
  <2>1. i \in GroupStarts(list) /\ list[i].signal # 0 /\ i \in DOMAIN list
    BY <1>4 DEF GroupStarts
  <2>2. e \in i..Len(list)
    BY <2>1, GroupGoesOn
  <2>3. Windows(list)[w] = SubSeq(list, i, e)
    BY <1>3 DEF Group
  <2> HIDE DEF i, e
  <2>4. i \in 1..Len(list)
    BY <2>1
  <2>5. /\ Len(SubSeq(list, i, e)) = e - i + 1
        /\ \A k \in 1..e - i + 1 : SubSeq(list, i, e)[k] = list[i + k - 1]
        /\ DOMAIN SubSeq(list, i, e) = 1..e - i + 1
    <3>1. i \in Int /\ e \in Int /\ i <= e /\ \A k \in i..e : list[k] \in rows
      BY <1>1, <2>2, <2>4
    <3>2. /\ SubSeq(list, i, e) \in Seq(rows)
          /\ Len(SubSeq(list, i, e)) = e - i + 1
          /\ \A k \in 1..e - i + 1 : SubSeq(list, i, e)[k] = list[i + k - 1]
      BY <3>1, SubSeqProperties
    <3>3. DOMAIN SubSeq(list, i, e) = 1..Len(SubSeq(list, i, e))
      BY ONLY <3>2, LenProperties
    <3>4. QED
      BY <3>2, <3>3
  <2>6. QED
    BY <2>1, <2>3, <2>5 DEF i, e
<1>6. \A i \in GroupStarts(list) : list[i].signal # 0 => \E w \in DOMAIN f : f[w] = i
  BY <1>4
<1>7. StartOf(list, f)
  BY <1>3, <1>4, <1>5, <1>6 DEF StartOf
<1>8. QED
  BY <1>7

(* In a list of the signals, every slot that is not idle is in one window, *)
(* and if the list is in the order of time the windows are longest runs.   *)
LEMMA WindowsOfList ==
    ASSUME NEW list \in Seq(signals),
           \A r \in signals : \E p \in DOMAIN list : list[p] = r,
           \A p, q \in DOMAIN list : list[p] = list[q] => p = q,
           \A r \in signals : r.at \in Int
    PROVE  /\ EachSlotOnce(Windows(list))
           /\ (\A p, q \in DOMAIN list : p < q => list[p].at < list[q].at) =>
                  LongestRuns({Range(Windows(list)[i]) : i \in DOMAIN Windows(list)})
<1> DEFINE n == Len(list)
           windows == Windows(list)
           end(i) == GroupEnd(list, i)
<1>0. PICK f : StartOf(list, f)
  BY WindowsAre
<1>1. /\ DOMAIN windows = DOMAIN f
      /\ \A w \in DOMAIN f :
           /\ f[w] \in GroupStarts(list) /\ list[f[w]].signal # 0
           /\ DOMAIN windows[w] = 1..end(f[w]) - f[w] + 1
           /\ \A k \in DOMAIN windows[w] : windows[w][k] = list[f[w] + k - 1]
      /\ \A i \in GroupStarts(list) : list[i].signal # 0 => \E w \in DOMAIN f : f[w] = i
      /\ \A v, w \in DOMAIN f : f[v] = f[w] => v = w
  BY <1>0 DEF StartOf
<1>2. n \in Nat /\ DOMAIN list = 1..n /\ \A p \in 1..n : list[p] \in signals
  OBVIOUS
<1>3. ASSUME NEW i \in GroupStarts(list)
      PROVE  /\ i \in 1..n /\ end(i) \in i..n
             /\ \A k \in i..end(i) : list[k].signal = list[i].signal
  <2>1. i \in DOMAIN list
    BY DEF GroupStarts
  <2>2. QED
    BY <1>2, <2>1, GroupGoesOn
<1>4. ASSUME NEW i \in GroupStarts(list), NEW j \in GroupStarts(list),
             NEW p \in i..end(i), p \in j..end(j)
      PROVE  i = j
  <2>1. i \in 1..n /\ j \in 1..n /\ end(i) \in i..n /\ end(j) \in j..n
    BY <1>3
  <2>2. ~ (i < j)
    BY <1>2, <1>4, <2>1, GroupsApart
  <2>3. ~ (j < i)
    BY <1>2, <1>4, <2>1, GroupsApart
  <2>4. QED
    BY <1>2, <2>1, <2>2, <2>3
<1>5. ASSUME NEW p \in 1..n
      PROVE  \E i \in GroupStarts(list) : p \in i..end(i)
  BY <1>2, GroupOfRow
<1>6. ASSUME NEW i \in GroupStarts(list), NEW j \in GroupStarts(list), i < j
      PROVE  end(i) < j /\ list[j - 1].signal # list[j].signal
  BY <1>6, GroupsApart
<1> HIDE DEF windows, end, n
<1>7. ASSUME NEW w \in DOMAIN f
      PROVE  /\ f[w] \in GroupStarts(list)
             /\ f[w] \in 1..n /\ end(f[w]) \in f[w]..n
             /\ list[f[w]].signal # 0
             /\ \A k \in f[w]..end(f[w]) : list[k].signal = list[f[w]].signal
  BY <1>1, <1>3
<1>8. ASSUME NEW w \in DOMAIN f, NEW k \in DOMAIN windows[w]
      PROVE  /\ f[w] + k - 1 \in f[w]..end(f[w]) /\ f[w] + k - 1 \in 1..n
             /\ windows[w][k] = list[f[w] + k - 1] /\ k \in Int
  <2>1. k \in 1..end(f[w]) - f[w] + 1 /\ windows[w][k] = list[f[w] + k - 1]
    BY <1>1
  <2>2. f[w] \in 1..n /\ end(f[w]) \in f[w]..n
    BY <1>7
  <2>3. QED
    BY <1>2, <2>1, <2>2
<1>9. ASSUME NEW w \in DOMAIN f, NEW p \in f[w]..end(f[w])
      PROVE  \E k \in DOMAIN windows[w] : windows[w][k] = list[p]
  <2>1. f[w] \in 1..n /\ end(f[w]) \in f[w]..n
    BY <1>7
  <2> DEFINE k == p - f[w] + 1
  <2>2. k \in 1..end(f[w]) - f[w] + 1 /\ f[w] + k - 1 = p
    BY <1>2, <2>1
  <2> HIDE DEF k
  <2>3. k \in DOMAIN windows[w]
    BY <1>1, <2>2
  <2>4. windows[w][k] = list[f[w] + k - 1]
    BY <1>1, <2>3
  <2>5. QED
    BY <2>2, <2>3, <2>4
<1>10. \A w \in DOMAIN f : \A r :
         r \in Range(windows[w]) <=> \E p \in f[w]..end(f[w]) : list[p] = r
  <2> SUFFICES ASSUME NEW w \in DOMAIN f, NEW r
               PROVE  r \in Range(windows[w]) <=> \E p \in f[w]..end(f[w]) : list[p] = r
    OBVIOUS
  <2>1. r \in Range(windows[w]) <=> \E k \in DOMAIN windows[w] : windows[w][k] = r
    BY DEF Range
  <2>2. ASSUME NEW k \in DOMAIN windows[w], windows[w][k] = r
        PROVE  \E p \in f[w]..end(f[w]) : list[p] = r
    BY <1>8, <2>2
  <2>3. ASSUME NEW p \in f[w]..end(f[w]), list[p] = r
        PROVE  \E k \in DOMAIN windows[w] : windows[w][k] = r
    BY <1>9, <2>3
  <2>4. QED
    BY <2>1, <2>2, <2>3
<1>11. \A r : (\E w \in DOMAIN f : r \in Range(windows[w])) <=> r \in signals /\ r.signal # 0
  <2> SUFFICES ASSUME NEW r
               PROVE  (\E w \in DOMAIN f : r \in Range(windows[w])) <=> r \in signals /\ r.signal # 0
    OBVIOUS
  <2>1. ASSUME NEW w \in DOMAIN f, r \in Range(windows[w])
        PROVE  r \in signals /\ r.signal # 0
    <3>1. PICK p \in f[w]..end(f[w]) : list[p] = r
      BY <1>10, <2>1
    <3>2. p \in 1..n /\ list[p].signal = list[f[w]].signal /\ list[f[w]].signal # 0
      BY <1>2, <1>7
    <3>3. QED
      BY <1>2, <3>1, <3>2
  <2>2. ASSUME r \in signals, r.signal # 0
        PROVE  \E w \in DOMAIN f : r \in Range(windows[w])
    <3>1. PICK p \in 1..n : list[p] = r
      BY <1>2, <2>2
    <3>2. PICK i \in GroupStarts(list) : p \in i..end(i)
      BY <1>5
    <3>3. list[i].signal # 0
      BY <1>3, <2>2, <3>1, <3>2
    <3>4. PICK w \in DOMAIN f : f[w] = i
      BY <1>1, <3>3
    <3>5. QED
      BY <1>10, <3>1, <3>2, <3>4
  <2>3. QED
    BY <2>1, <2>2
<1>12. EachSlotOnce(windows)
  <2>1. UNION {Range(windows[w]) : w \in DOMAIN windows} = {r \in signals : r.signal # 0}
    <3>1. \A r : r \in UNION {Range(windows[w]) : w \in DOMAIN windows}
                 <=> \E w \in DOMAIN f : r \in Range(windows[w])
      BY <1>1
    <3>2. QED
      BY <1>11, <3>1
  <2>2. ASSUME NEW v \in DOMAIN windows, NEW w \in DOMAIN windows,
               NEW k \in DOMAIN windows[v], NEW l \in DOMAIN windows[w]
        PROVE  /\ windows[v][k] = windows[w][l] => v = w /\ k = l
               /\ v = w => windows[v][k].signal = windows[w][l].signal
    <3>1. v \in DOMAIN f /\ w \in DOMAIN f
      BY <1>1
    <3>2. /\ f[v] + k - 1 \in f[v]..end(f[v]) /\ f[v] + k - 1 \in 1..n
          /\ f[w] + l - 1 \in f[w]..end(f[w]) /\ f[w] + l - 1 \in 1..n
          /\ windows[v][k] = list[f[v] + k - 1] /\ k \in Int
          /\ windows[w][l] = list[f[w] + l - 1] /\ l \in Int
      BY <1>8, <3>1
    <3>3. ASSUME windows[v][k] = windows[w][l]
          PROVE  v = w /\ k = l
      <4> DEFINE p == f[v] + k - 1
                 q == f[w] + l - 1
      <4> HIDE DEF p, q
      <4>1. p = q
        <5>1. p \in DOMAIN list /\ q \in DOMAIN list
          BY <1>2, <3>2 DEF p, q
        <5>2. list[p] = list[q]
          BY <3>2, <3>3 DEF p, q
        <5>3. QED
          BY <5>1, <5>2
      <4>2. f[v] = f[w]
        BY <1>4, <1>7, <3>1, <3>2, <4>1 DEF p, q
      <4>3. f[v] \in Int
        BY <1>7, <3>1
      <4>4. QED
        BY <1>1, <3>1, <3>2, <4>1, <4>2, <4>3 DEF p, q
    <3>4. ASSUME v = w
          PROVE  windows[v][k].signal = windows[w][l].signal
      BY <1>7, <3>1, <3>2, <3>4
    <3>5. QED
      BY <3>3, <3>4
  <2>3. QED
    BY <2>1, <2>2 DEF EachSlotOnce
<1>13. ASSUME \A p, q \in DOMAIN list : p < q => list[p].at < list[q].at
       PROVE  LongestRuns({Range(windows[i]) : i \in DOMAIN windows})
  <2> DEFINE Between(r, q) == {s \in signals : r.at < s.at /\ s.at < q.at}
  <2>1. ASSUME NEW p \in 1..n, NEW q \in 1..n
        PROVE  p < q <=> list[p].at < list[q].at
    <3>1. list[p].at \in Int /\ list[q].at \in Int /\ p \in Int /\ q \in Int
      BY <1>2
    <3>2. p < q \/ p = q \/ q < p
      BY <3>1
    <3>3. (p < q => list[p].at < list[q].at) /\ (q < p => list[q].at < list[p].at)
      BY <1>2, <1>13
    <3>4. QED
      BY <3>1, <3>2, <3>3
  <2>2. ASSUME NEW w \in DOMAIN f, NEW r \in Range(windows[w]), NEW q \in Range(windows[w]),
               NEW s \in Between(r, q)
        PROVE  s \in Range(windows[w])
    <3>1. PICK a \in f[w]..end(f[w]) : list[a] = r
      BY <1>10
    <3>2. PICK b \in f[w]..end(f[w]) : list[b] = q
      BY <1>10
    <3>3. PICK c \in 1..n : list[c] = s
      BY <1>2
    <3>4. a \in 1..n /\ b \in 1..n /\ f[w] \in Int /\ end(f[w]) \in Int
      BY <1>2, <1>7
    <3>5. a < c /\ c < b
      BY <2>1, <3>1, <3>2, <3>3, <3>4
    <3>6. c \in f[w]..end(f[w])
      BY <3>4, <3>5
    <3>7. QED
      BY <1>10, <3>3, <3>6
  <2>3. ASSUME NEW v \in DOMAIN f, NEW w \in DOMAIN f,
               NEW r \in Range(windows[v]), NEW q \in Range(windows[w]),
               Range(windows[v]) # Range(windows[w]), r.signal = q.signal, r.at < q.at
        PROVE  \E s \in Between(r, q) : s.signal # r.signal
    <3>1. PICK a \in f[v]..end(f[v]) : list[a] = r
      BY <1>10
    <3>2. PICK b \in f[w]..end(f[w]) : list[b] = q
      BY <1>10
    <3> DEFINE i == f[v]
               j == f[w]
    <3>3. /\ i \in GroupStarts(list) /\ i \in 1..n /\ end(i) \in i..n /\ a \in i..end(i)
          /\ j \in GroupStarts(list) /\ j \in 1..n /\ end(j) \in j..n /\ b \in j..end(j)
          /\ list[b].signal = list[j].signal
      BY <1>7
    <3>4. i # j
      BY <1>1, <2>3
    <3> HIDE DEF i, j
    <3>5. a \in 1..n /\ b \in 1..n
      BY <1>2, <3>3
    <3>6. a < b
      BY <2>1, <2>3, <3>1, <3>2, <3>5
    <3>7. i < j
      <4> SUFFICES ASSUME j < i PROVE FALSE
        BY <1>2, <3>3, <3>4
      <4>1. end(j) < i
        BY <1>6, <3>3
      <4>2. QED
        BY <1>2, <3>3, <3>6, <4>1
    <3>8. end(i) < j /\ list[j - 1].signal # list[j].signal
      BY <1>6, <3>3, <3>7
    <3>9. j - 1 \in 1..n /\ a <= j - 1 /\ j - 1 < b
      BY <1>2, <3>3, <3>8
    <3>10. list[j - 1].signal # r.signal /\ j - 1 # a
      BY <2>3, <3>1, <3>2, <3>3, <3>8
    <3>11. a < j - 1
      BY <3>5, <3>9, <3>10
    <3>12. list[j - 1] \in signals /\ list[a].at < list[j - 1].at /\ list[j - 1].at < list[b].at
      BY <1>2, <2>1, <3>5, <3>9, <3>11
    <3>13. QED
      BY <3>1, <3>2, <3>10, <3>12
  <2> DEFINE runs == {Range(windows[i]) : i \in DOMAIN windows}
  <2>4. \A x \in runs : \E w \in DOMAIN f : x = Range(windows[w])
    BY <1>1
  <2> HIDE DEF runs, Between
  <2>5. \A x \in runs : \A r, q \in x : Between(r, q) \subseteq x
    BY <2>2, <2>4
  <2>6. \A x, y \in runs : \A r \in x, q \in y :
          x # y /\ r.signal = q.signal /\ r.at < q.at =>
              \E s \in Between(r, q) : s.signal # r.signal
    BY <2>3, <2>4
  <2>7. LongestRuns(runs)
    BY <2>5, <2>6 DEF LongestRuns, Between
  <2>8. QED
    BY <2>7 DEF runs
<1>14. QED
  BY <1>12, <1>13 DEF windows

(* What was served once stays.                                             *)
Served == answer # NoAnswer => PricesOnce /\ run.number = 1 /\ Idle

LEMMA ServedIsLast ==
    ASSUME IInv, Served, [Next]_vars
    PROVE  /\ Served'
           /\ answer' # NoAnswer =>
                \/ Serve
                \/ answer' = answer /\ signals' = signals /\ zone' = zone
<1>1. CASE answer # NoAnswer
  <2>1. PricesOnce /\ run.number = 1 /\ Idle /\ readings = NoReadings
    BY <1>1 DEF Served, PricesOnce
  <2>2. UNCHANGED vars
    <3>1. ~ StartRun /\ ~ Complete /\ ~ Serve
      BY <1>1, <2>1 DEF StartRun, Complete, Serve
    <3>2. QED
      BY <2>1, <3>1 DEF Next, DimDatetime, FactPrice, FactGeneration, FactLoad, FactWeather,
             MergeFacts, PriceHourly, GenerationHourly, BuildSignals, Doing
  <2>3. UNCHANGED <<answer, signals, zone, run, readings, priceHourly, prices, slots>>
    BY <2>2 DEF vars, bronze, tables
  <2>4. Served'
    BY <2>1, <2>3 DEF Served, PricesOnce, NoReadings, HourTable, SignalTable, DayHourRow,
           DaySignalRow, DayPrices, Idle
  <2>5. QED
    BY <2>3, <2>4
<1>2. CASE answer = NoAnswer /\ Serve
  <2>1. PricesOnce /\ Idle /\ run.number = 1
    BY <1>2 DEF IInv, NoPrices, PricesOnce, Serve
  <2>2. UNCHANGED <<signals, zone, run, readings, priceHourly, prices, slots>>
    BY <1>2 DEF Serve, bronze, tables
  <2>3. Served'
    BY <2>1, <2>2 DEF Served, PricesOnce, NoReadings, HourTable, SignalTable, DayHourRow,
           DaySignalRow, DayPrices, Idle
  <2>4. QED
    BY <1>2, <2>3
<1>3. CASE answer = NoAnswer /\ ~ Serve
  <2>1. answer' = answer
    BY <1>3 DEF Next, StartRun, Complete, DimDatetime, FactPrice, FactGeneration, FactLoad,
           FactWeather, MergeFacts, PriceHourly, GenerationHourly, BuildSignals, vars
  <2>2. QED
    BY <1>3, <2>1 DEF Served, NoAnswer
<1>4. QED
  BY <1>1, <1>2, <1>3

(* bess.py, "grouped by contiguous signal runs": every charge or discharge *)
(* slot is in one window, a window has one signal, and unless an hour is   *)
(* repeated the answers are in order and windows are longest runs.         *)
THEOREM WindowsRight == Spec => []WindowsAreRuns
<1> DEFINE Hold == answer # NoAnswer =>
                     /\ EachSlotOnce(answer.windows)
                     /\ NoHourRepeats => LongestRuns({Range(answer.windows[i]) :
                                                          i \in DOMAIN answer.windows})
<1>1. Init => Served /\ Hold
  BY DEF Init, Served
<1>2. ASSUME IInv, Serve, ServedInOrder', answer' # NoAnswer
      PROVE  Hold'
  <2>1. PICK later : answer'.slots = Sorted(signals, later)
                     /\ answer'.windows = Windows(Sorted(signals, later))
    BY <1>2 DEF Serve, SignalIntervals, ArbitrageWindows
  <2>2. signals' = signals /\ zone' = zone
    BY <1>2 DEF Serve, bronze, tables
  <2>3. PricesOnce /\ Idle /\ signals # {} /\ GoodZone(zone) /\ PricesLabelled
    BY <1>2, ZonesAreGood DEF IInv, NoPrices, Serve, TypeOK
  <2>4. signals = SignalTable
    BY <2>3 DEF PricesOnce
  <2> DEFINE at == DOMAIN prices
             row == [u \in at |-> DaySignalRow(u)]
             list == Sorted(signals, later)
  <2>5. IsFiniteSet(at) /\ at \subseteq Int
    BY <2>3, DayInstantsFinite, FS_Subset DEF PricesLabelled
  <2>6. \A u \in at : row[u].at = u /\ row[u].time_id \in Int
    <3>1. \A u \in at : prices[u].time_id \in 0..DayLength - 1
      BY <1>2 DEF IInv, TypeOK
    <3>2. QED
      BY <3>1, LengthOfDay DEF DaySignalRow
  <2>7. signals = {row[u] : u \in at}
    BY <2>4 DEF SignalTable
  <2> HIDE DEF at, row
  <2>8. IsFiniteSet(signals)
    <3>1. row \in [at -> signals] /\ (\A r \in signals : \E u \in at : row[u] = r)
      BY <2>7 DEF row
    <3>2. \A u, v \in at : row[u] = row[v] => u = v
      BY <2>6
    <3>3. QED
      BY ONLY <2>5, <3>1, <3>2, SameSize
  <2>9. /\ \A r \in signals : r.at \in Int /\ r.time_id \in Int
        /\ \A r, q \in signals : r.at = q.at => r = q
    BY <2>5, <2>6, <2>7
  <2>10. /\ list \in Seq(signals)
         /\ \A r \in signals : \E p \in DOMAIN list : list[p] = r
         /\ \A p, q \in DOMAIN list : list[p] = list[q] => p = q
    BY <2>8, <2>9, SortedHasAll
  <2> HIDE DEF list
  <2>11. /\ EachSlotOnce(Windows(list))
         /\ (\A p, q \in DOMAIN list : p < q => list[p].at < list[q].at) =>
                LongestRuns({Range(Windows(list)[i]) : i \in DOMAIN Windows(list)})
    BY <2>9, <2>10, WindowsOfList
  <2>12. answer'.windows = Windows(list) /\ answer'.slots = list
    BY <2>1 DEF list
  <2>13. NoHourRepeats' => \A p, q \in DOMAIN list : p < q => list[p].at < list[q].at
    BY <1>2, <2>12 DEF ServedInOrder
  <2>14. EachSlotOnce(answer.windows)'
    BY <2>2, <2>11, <2>12 DEF EachSlotOnce
  <2>15. ASSUME NoHourRepeats'
         PROVE  LongestRuns({Range(answer.windows[i]) : i \in DOMAIN answer.windows})'
    BY <2>2, <2>11, <2>12, <2>13, <2>15 DEF LongestRuns
  <2>16. QED
    BY <2>14, <2>15
<1>3. IInv /\ Served /\ Hold /\ ServedInOrder' /\ [Next]_vars => Served' /\ Hold'
  <2> SUFFICES ASSUME IInv, Served, Hold, ServedInOrder', [Next]_vars
               PROVE  Served' /\ Hold'
    OBVIOUS
  <2>1. Served'
    BY ServedIsLast
  <2>2. CASE answer' = NoAnswer
    BY <2>1, <2>2 DEF NoAnswer
  <2>3. CASE answer' # NoAnswer /\ Serve
    BY <1>2, <2>1, <2>3
  <2>4. CASE answer' # NoAnswer /\ ~ Serve
    <3>1. answer' = answer /\ signals' = signals /\ zone' = zone
      BY <2>4, ServedIsLast
    <3>2. answer # NoAnswer
      BY <2>4, <3>1 DEF NoAnswer
    <3>3. NoHourRepeats' <=> NoHourRepeats
      BY <3>1 DEF NoHourRepeats, Repeated, HoursOf
    <3>4. EachSlotOnce(answer.windows)'
      <4>1. EachSlotOnce(answer.windows)
        BY <3>2
      <4>2. QED
        BY <3>1, <4>1 DEF EachSlotOnce
    <3>5. ASSUME NoHourRepeats'
          PROVE  LongestRuns({Range(answer.windows[i]) : i \in DOMAIN answer.windows})'
      <4>1. LongestRuns({Range(answer.windows[i]) : i \in DOMAIN answer.windows})
        BY <3>2, <3>3, <3>5
      <4>2. QED
        BY <3>1, <4>1 DEF LongestRuns
    <3>6. QED
      BY <2>1, <3>4, <3>5
  <2>5. QED
    BY <2>2, <2>3, <2>4
<1>4. ServedInOrder /\ Hold => WindowsAreRuns
  BY DEF WindowsAreRuns
<1> HIDE DEF Hold
<1>5. QED
  BY <1>1, <1>3, <1>4, Inductive, InOrderOfTime, PTL DEF Spec
==============================================================================

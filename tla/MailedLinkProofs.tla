--------------------------- MODULE MailedLinkProofs ---------------------------
(* What becomes of a mailed link.  First the calendar it lives on, for any    *)
(* first date: the advance of the cadences, the clamp of add_months and the   *)
(* wait for the next mail, from a count of days that is shown to be one.      *)
(* Then the book of failed verifications, which agrees with the whole history *)
(* of failures for any pairs, limit and window: what it forgets, by a lapse   *)
(* or a reset, was over.                                                      *)
EXTENDS VerifyFailureBook, DigestCalendar, TLAPS

\* A month by its number, counted from year 0, with its length and the ordinal
\* of its first day.
YearOf(k)   == k \div 12
MonthOf(k)  == (k % 12) + 1
Length(k) == MonthLength(YearOf(k), MonthOf(k))
First(k)  == Ordinal(Date(YearOf(k), MonthOf(k), 1))

-----------------------------------------------------------------------------
\* Years and months: the closed form of Ordinal counts the days.

LeapDay(y) == IF IsLeap(y) THEN 1 ELSE 0

\* Days before the year.
YearStart(y) == 365 * y + (y + 3) \div 4 - (y + 99) \div 100 + (y + 399) \div 400

\* A year has 365 days, or 366 if it is a leap year.
LEMMA YearLength ==
  ASSUME NEW y \in Int, NEW z \in Int, z = y + 1
  PROVE  /\ YearStart(y) \in Int /\ LeapDay(y) \in {0, 1}
         /\ YearStart(z) = YearStart(y) + 365 + LeapDay(y)
BY DEF IsLeap, LeapDay, YearStart

\* A month has 28 to 31 days.
LEMMA LengthRange ==
  ASSUME NEW y \in Int, NEW m \in 1 .. 12
  PROVE  MonthLength(y, m) \in 28 .. 31
BY DEF MonthLength

\* A month is found again from its number.
LEMMA IndexOfMonth ==
  ASSUME NEW y \in Int, NEW m \in 1 .. 12, NEW k, k = 12 * y + (m - 1)
  PROVE  k \in Int /\ YearOf(k) = y /\ MonthOf(k) = m
BY DEF YearOf, MonthOf

\* DaysBefore sums up the lengths of the months before, without the leap day.
LEMMA MonthLengths ==
  ASSUME NEW y \in Int, NEW m \in 1 .. 12
  PROVE  /\ DaysBefore[1] = 0 /\ LeapDay(y) \in {0, 1}
         /\ DaysBefore[m] \in Nat
         /\ m < 12 => DaysBefore[m] + MonthLength(y, m) - (IF m = 2 THEN LeapDay(y) ELSE 0) = DaysBefore[m + 1]
         /\ m = 12 => DaysBefore[m] + MonthLength(y, m) = 365
<1>1. /\ m = 1 \/ m = 2 \/ m = 3 \/ m = 4 \/ m = 5 \/ m = 6
         \/ m = 7 \/ m = 8 \/ m = 9 \/ m = 10 \/ m = 11 \/ m = 12
  OBVIOUS
<1>2. /\ DaysBefore[1] = 0 /\ DaysBefore[2] = 31 /\ DaysBefore[3] = 59 /\ DaysBefore[4] = 90
      /\ DaysBefore[5] = 120 /\ DaysBefore[6] = 151 /\ DaysBefore[7] = 181 /\ DaysBefore[8] = 212
      /\ DaysBefore[9] = 243 /\ DaysBefore[10] = 273 /\ DaysBefore[11] = 304 /\ DaysBefore[12] = 334
  BY DEF DaysBefore
<1> QED
  BY <1>1, <1>2 DEF MonthLength, LeapDay

\* Ordinal of a date put together from year, month and day.
LEMMA OrdinalOf ==
  ASSUME NEW y \in Int, NEW m \in 1 .. 12, NEW d \in Int
  PROVE  /\ Ordinal(Date(y, m, d))
              = YearStart(y) + DaysBefore[m] + (IF m > 2 THEN LeapDay(y) ELSE 0) + d
         /\ YearStart(y) \in Int
         /\ Ordinal(Date(y, m, d)) \in Int
<1>1. DaysBefore[m] \in Nat /\ LeapDay(y) \in {0, 1}
  BY MonthLengths
<1> DEFINE a == Date(y, m, d)
<1>2. a.y = y /\ a.m = m /\ a.d = d
  BY DEF Date
<1>3. YearStart(y) \in Int
  BY DEF YearStart
<1>4. Ordinal(a) = YearStart(a.y) + DaysBefore[a.m] + (IF a.m > 2 THEN LeapDay(a.y) ELSE 0) + a.d
  BY DEF Ordinal, YearStart, LeapDay
<1>5. Ordinal(a) = YearStart(y) + DaysBefore[m] + (IF m > 2 THEN LeapDay(y) ELSE 0) + d
  BY <1>2, <1>4
<1> HIDE DEF a
<1>6. YearStart(y) + DaysBefore[m] + (IF m > 2 THEN LeapDay(y) ELSE 0) + d \in Int
  BY <1>1, <1>3
<1> QED
  BY <1>1, <1>3, <1>5, <1>6 DEF a

\* The same of the first day of a month.
LEMMA FirstOfMonth ==
  ASSUME NEW y \in Int, NEW m \in 1 .. 12
  PROVE  /\ MonthLength(y, m) \in 28 .. 31 /\ DaysBefore[m] \in Nat /\ LeapDay(y) \in {0, 1}
         /\ YearStart(y) \in Int
         /\ Ordinal(Date(y, m, 1)) \in Int
         /\ Ordinal(Date(y, m, 1)) = YearStart(y) + DaysBefore[m] + (IF m > 2 THEN LeapDay(y) ELSE 0) + 1
<1>1. MonthLength(y, m) \in 28 .. 31
  BY LengthRange
<1>2. DaysBefore[m] \in Nat /\ LeapDay(y) \in {0, 1}
  BY MonthLengths
<1>3. 1 \in Int
  OBVIOUS
<1>4. /\ YearStart(y) \in Int
      /\ Ordinal(Date(y, m, 1)) \in Int
      /\ Ordinal(Date(y, m, 1)) = YearStart(y) + DaysBefore[m] + (IF m > 2 THEN LeapDay(y) ELSE 0) + 1
  BY <1>3, OrdinalOf
<1> QED
  BY <1>1, <1>2, <1>4

\* From the first of a month to the first of the next is the month's length.
LEMMA MonthAfterMonth ==
  ASSUME NEW y \in Int, NEW m \in 1 .. 12, NEW z \in Int, NEW n \in 1 .. 12,
         (m < 12 /\ z = y /\ n = m + 1) \/ (m = 12 /\ z = y + 1 /\ n = 1)
  PROVE  Ordinal(Date(z, n, 1)) = Ordinal(Date(y, m, 1)) + MonthLength(y, m)
<1>1. /\ MonthLength(y, m) \in 28 .. 31 /\ DaysBefore[m] \in Nat /\ LeapDay(y) \in {0, 1}
      /\ YearStart(y) \in Int
      /\ Ordinal(Date(y, m, 1)) = YearStart(y) + DaysBefore[m] + (IF m > 2 THEN LeapDay(y) ELSE 0) + 1
  BY FirstOfMonth
<1>2. /\ DaysBefore[n] \in Nat /\ LeapDay(z) \in {0, 1} /\ YearStart(z) \in Int
      /\ Ordinal(Date(z, n, 1)) = YearStart(z) + DaysBefore[n] + (IF n > 2 THEN LeapDay(z) ELSE 0) + 1
  BY FirstOfMonth
<1>3. CASE m < 12 /\ z = y /\ n = m + 1
  <2>1. DaysBefore[n] = DaysBefore[m] + MonthLength(y, m) - (IF m = 2 THEN LeapDay(y) ELSE 0)
    BY <1>1, <1>3, MonthLengths
  <2> QED
    BY <1>1, <1>2, <1>3, <2>1
<1>4. CASE m = 12 /\ z = y + 1 /\ n = 1
  <2>1. YearStart(z) = YearStart(y) + 365 + LeapDay(y)
    BY <1>4, YearLength
  <2>2. DaysBefore[n] = 0 /\ DaysBefore[m] + MonthLength(y, m) = 365
    BY <1>4, MonthLengths
  <2> QED
    BY <1>1, <1>2, <1>4, <2>1, <2>2
<1> QED
  BY <1>3, <1>4

\* A month begins where the one before it ended.
LEMMA FirstAfterFirst ==
  ASSUME NEW k \in Int, NEW j \in Int, j = k + 1
  PROVE  /\ First(k) \in Int /\ Length(k) \in 28 .. 31
         /\ First(j) = First(k) + Length(k)
<1> DEFINE y == YearOf(k)  m == MonthOf(k)  z == YearOf(j)  n == MonthOf(j)
<1>1. /\ y \in Int /\ m \in 1 .. 12 /\ z \in Int /\ n \in 1 .. 12
      /\ (m < 12 /\ z = y /\ n = m + 1) \/ (m = 12 /\ z = y + 1 /\ n = 1)
  BY DEF YearOf, MonthOf
<1>2. /\ First(k) = Ordinal(Date(y, m, 1)) /\ Length(k) = MonthLength(y, m)
      /\ First(j) = Ordinal(Date(z, n, 1))
  BY DEF First, Length
<1> HIDE DEF y, m, z, n
<1>3. MonthLength(y, m) \in 28 .. 31 /\ Ordinal(Date(y, m, 1)) \in Int
  BY <1>1, FirstOfMonth
<1>4. Ordinal(Date(z, n, 1)) = Ordinal(Date(y, m, 1)) + MonthLength(y, m)
  BY <1>1, MonthAfterMonth
<1> QED
  BY <1>2, <1>3, <1>4

\* Three months in a row, over a year's end too.
LEMMA QuarterLength ==
  ASSUME NEW k \in Int, NEW i \in Int, NEW j \in Int, i = k + 1, j = i + 1
  PROVE  Length(k) + Length(i) + Length(j) \in 89 .. 92
<1>1. /\ YearOf(k) \in Int /\ MonthOf(k) \in 1 .. 12
      /\ YearOf(i) \in Int /\ MonthOf(i) \in 1 .. 12
      /\ YearOf(j) \in Int /\ MonthOf(j) \in 1 .. 12
      /\ MonthOf(i) = IF MonthOf(k) = 12 THEN 1 ELSE MonthOf(k) + 1
      /\ MonthOf(j) = IF MonthOf(i) = 12 THEN 1 ELSE MonthOf(i) + 1
  BY DEF YearOf, MonthOf
<1> QED
  BY <1>1 DEF Length, MonthLength

-----------------------------------------------------------------------------
\* Dates: within a month by its number, a few days on, some months on.

\* A date lies as many days into its month as its day says.
LEMMA OrdinalInMonth ==
  ASSUME NEW a, Civil(a)
  PROVE  /\ MonthIndex(a) \in Int
         /\ YearOf(MonthIndex(a)) = a.y /\ MonthOf(MonthIndex(a)) = a.m
         /\ a.d \in 1 .. Length(MonthIndex(a))
         /\ Ordinal(a) = First(MonthIndex(a)) + a.d - 1
         /\ Ordinal(a) \in Int
<1> DEFINE y == a.y  m == a.m  d == a.d
<1>1. /\ y \in Int /\ m \in 1 .. 12 /\ d \in 1 .. 31 /\ d \in 1 .. MonthLength(y, m)
      /\ a = Date(y, m, d)
  BY DEF Civil, Valid, Date
<1>2. MonthIndex(a) = 12 * y + (m - 1)
  BY DEF MonthIndex
<1> HIDE DEF y, m, d
<1>3. /\ MonthIndex(a) \in Int
      /\ YearOf(MonthIndex(a)) = y /\ MonthOf(MonthIndex(a)) = m
  BY <1>1, <1>2, IndexOfMonth
<1>4. First(MonthIndex(a)) = Ordinal(Date(y, m, 1))
  BY <1>2, <1>3 DEF First
<1>5. Ordinal(a) = Ordinal(Date(y, m, 1)) + d - 1 /\ Ordinal(a) \in Int
  <2>1. /\ DaysBefore[m] \in Nat /\ YearStart(y) \in Int /\ LeapDay(y) \in {0, 1}
        /\ Ordinal(Date(y, m, 1)) = YearStart(y) + DaysBefore[m] + (IF m > 2 THEN LeapDay(y) ELSE 0) + 1
    BY <1>1, FirstOfMonth
  <2>2. /\ Ordinal(Date(y, m, d)) = YearStart(y) + DaysBefore[m] + (IF m > 2 THEN LeapDay(y) ELSE 0) + d
        /\ Ordinal(Date(y, m, d)) \in Int
    <3>1. d \in Int
      BY <1>1
    <3> QED
      BY <1>1, <3>1, OrdinalOf
  <2> QED
    BY <1>1, <2>1, <2>2
<1>6. d \in 1 .. Length(MonthIndex(a))
  BY <1>1, <1>2, <1>3 DEF Length
<1> QED
  BY <1>2, <1>3, <1>4, <1>5, <1>6 DEF y, m, d

\* A month and a day within its length make a date.
LEMMA CivilOfMonth ==
  ASSUME NEW k \in Int, NEW d \in 1 .. Length(k), NEW a, a = Date(YearOf(k), MonthOf(k), d)
  PROVE  Civil(a) /\ MonthIndex(a) = k /\ Ordinal(a) = First(k) + d - 1
<1>1. /\ YearOf(k) \in Int /\ MonthOf(k) \in 1 .. 12
      /\ k = 12 * YearOf(k) + (MonthOf(k) - 1)
  BY DEF YearOf, MonthOf
<1>2. Length(k) \in 28 .. 31
  BY <1>1, LengthRange DEF Length
<1>3. a.y = YearOf(k) /\ a.m = MonthOf(k) /\ a.d = d /\ d \in 1 .. 31
  BY <1>2 DEF Date
<1>4. a \in [y : Int, m : 1 .. 12, d : 1 .. 31]
  BY <1>1, <1>3 DEF Date
<1>5. Civil(a) /\ MonthIndex(a) = k
  BY <1>1, <1>3, <1>4 DEF Civil, Valid, MonthIndex, Length
<1> QED
  BY <1>5, OrdinalInMonth, <1>3

\* A few days on or back, the date in the month it falls into.
LEMMA PlusDaysAdds ==
  ASSUME NEW a, Civil(a), NEW n \in -28 .. 28
  PROVE  Civil(PlusDays(a, n)) /\ Ordinal(PlusDays(a, n)) = Ordinal(a) + n
<1> DEFINE k == MonthIndex(a)  d == a.d
<1>1. /\ k \in Int /\ YearOf(k) = a.y /\ MonthOf(k) = a.m /\ d \in 1 .. Length(k)
      /\ Ordinal(a) = First(k) + d - 1 /\ a = Date(YearOf(k), MonthOf(k), d)
      /\ First(k) \in Int /\ Length(k) \in 28 .. 31
      /\ a.m \in 1 .. 12 /\ a.y \in Int
  <2>1. a \in [y : Int, m : 1 .. 12, d : 1 .. 31]
    BY DEF Civil
  <2>2. /\ k \in Int /\ YearOf(k) = a.y /\ MonthOf(k) = a.m /\ d \in 1 .. Length(k)
        /\ Ordinal(a) = First(k) + d - 1
    BY OrdinalInMonth
  <2>3. a = Date(a.y, a.m, a.d)
    BY <2>1 DEF Date
  <2>4. k + 1 \in Int
    BY <2>2
  <2>5. First(k) \in Int /\ Length(k) \in 28 .. 31
    <3> HIDE DEF k
    <3> DEFINE j == k + 1
    <3>1. j \in Int /\ j = k + 1
      BY <2>2
    <3> HIDE DEF j
    <3> QED
      BY <2>2, <3>1, FirstAfterFirst
  <2> QED
    BY <2>1, <2>2, <2>3, <2>5
<1>2. CASE d + n > Length(k)
  <2> DEFINE j == k + 1  e == d + n - Length(k)
  <2>1. j \in Int /\ YearOf(j) \in Int /\ MonthOf(j) \in 1 .. 12
    BY <1>1 DEF YearOf, MonthOf
  <2>2. FirstOfNext(a) = Date(YearOf(j), MonthOf(j), 1)
    <3> HIDE DEF k
    <3>1. /\ MonthOf(k) = 12 => YearOf(j) = YearOf(k) + 1 /\ MonthOf(j) = 1
          /\ MonthOf(k) # 12 => YearOf(j) = YearOf(k) /\ MonthOf(j) = MonthOf(k) + 1
      BY <1>1 DEF YearOf, MonthOf
    <3> QED
      BY <1>1, <3>1 DEF FirstOfNext
  <2>3. PlusDays(a, n) = Date(YearOf(j), MonthOf(j), e)
    BY <1>1, <1>2, <2>2 DEF PlusDays, Date, Length
  <2>4. First(j) = First(k) + Length(k) /\ Length(j) \in 28 .. 31
    <3> HIDE DEF k
    <3>1. j \in Int /\ j = k + 1
      BY <2>1
    <3>2. Length(j) \in 28 .. 31
      BY <2>1, LengthRange DEF Length
    <3> HIDE DEF j
    <3> QED
      BY <1>1, <3>1, <3>2, FirstAfterFirst
  <2>5. e \in 1 .. Length(j)
    <3> HIDE DEF k, d, j
    <3> QED
      BY <1>1, <1>2, <2>4
  <2> HIDE DEF j, e
  <2>6. Civil(PlusDays(a, n)) /\ Ordinal(PlusDays(a, n)) = First(j) + e - 1
    BY <2>1, <2>3, <2>5, CivilOfMonth
  <2> QED
    <3> HIDE DEF k, d
    <3> QED
      BY <1>1, <2>4, <2>6 DEF e
<1>3. CASE d + n < 1
  <2> DEFINE j == k - 1  e == d + n + Length(j)
  <2>1. j \in Int /\ YearOf(j) \in Int /\ MonthOf(j) \in 1 .. 12
    BY <1>1 DEF YearOf, MonthOf
  <2>2. LastOfPrevious(a) = Date(YearOf(j), MonthOf(j), Length(j))
    <3> HIDE DEF k
    <3>1. /\ MonthOf(k) = 1 => YearOf(j) = YearOf(k) - 1 /\ MonthOf(j) = 12
          /\ MonthOf(k) # 1 => YearOf(j) = YearOf(k) /\ MonthOf(j) = MonthOf(k) - 1
      BY <1>1 DEF YearOf, MonthOf
    <3>2. MonthLength(YearOf(j), 12) = 31
      BY DEF MonthLength
    <3> QED
      BY <1>1, <3>1, <3>2 DEF LastOfPrevious, Length
  <2>3. Length(j) \in 28 .. 31
    BY <2>1, LengthRange DEF Length
  <2>4. PlusDays(a, n) = Date(YearOf(j), MonthOf(j), Length(j) + (d + n))
    <3>1. ~(d + n > MonthLength(a.y, a.m))
      <4> HIDE DEF k, d
      <4> QED
        BY <1>1, <1>3 DEF Length
    <3> QED
      BY <1>1, <1>3, <2>2, <3>1 DEF PlusDays, Date
  <2>5. First(k) = First(j) + Length(j) /\ First(j) \in Int
    <3> HIDE DEF k
    <3>1. k = j + 1
      BY <1>1
    <3> HIDE DEF j
    <3> QED
      BY <1>1, <2>1, <3>1, FirstAfterFirst
  <2>6. e \in 1 .. Length(j) /\ e = Length(j) + (d + n)
    <3> HIDE DEF k, d, j
    <3> QED
      BY <1>1, <1>3, <2>3
  <2> HIDE DEF j, e
  <2>7. Civil(PlusDays(a, n)) /\ Ordinal(PlusDays(a, n)) = First(j) + e - 1
    BY <2>1, <2>4, <2>6, CivilOfMonth
  <2> QED
    <3> HIDE DEF k, d
    <3> QED
      BY <1>1, <2>3, <2>5, <2>6, <2>7
<1>4. CASE d + n \in 1 .. Length(k)
  <2>1. PlusDays(a, n) = Date(YearOf(k), MonthOf(k), d + n)
    <3>1. ~(d + n > MonthLength(a.y, a.m)) /\ ~(d + n < 1)
      <4> HIDE DEF k, d
      <4> QED
        BY <1>1, <1>4 DEF Length
    <3> QED
      BY <1>1, <3>1 DEF PlusDays, Date
  <2> DEFINE e == d + n
  <2> HIDE DEF k, e
  <2>2. Civil(PlusDays(a, n)) /\ Ordinal(PlusDays(a, n)) = First(k) + e - 1
    BY <1>1, <1>4, <2>1, CivilOfMonth DEF e
  <2> QED
    <3> HIDE DEF d
    <3> QED
      BY <1>1, <2>2 DEF e
<1> QED
  <2> HIDE DEF k, d
  <2> QED
    BY <1>1, <1>2, <1>3, <1>4

\* The day before the first of the next month is the last of the month.
LEMMA DaysInMonth ==
  ASSUME NEW y \in Int, NEW m \in 1 .. 12
  PROVE  days_in_month(y, m) = MonthLength(y, m)
<1>1. CASE m = 12
  <2> DEFINE a == Date(y + 1, 1, 1)
  <2>1. a.y = y + 1 /\ a.m = 1 /\ a.d = 1
    BY DEF Date
  <2>2. MonthLength(a.y, a.m) = 31 /\ MonthLength(y, m) = 31
    BY <1>1, <2>1 DEF MonthLength
  <2>3. PlusDays(a, -1) = [LastOfPrevious(a) EXCEPT !.d = LastOfPrevious(a).d + (a.d - 1)]
    BY <2>1, <2>2 DEF PlusDays
  <2>4. LastOfPrevious(a) = Date(a.y - 1, 12, 31)
    BY <2>1 DEF LastOfPrevious
  <2>5. PlusDays(a, -1).d = 31
    BY <2>1, <2>3, <2>4 DEF Date
  <2> QED
    BY <1>1, <2>2, <2>5 DEF days_in_month
<1>2. CASE m # 12
  <2> DEFINE a == Date(y, m + 1, 1)
  <2>1. a.y = y /\ a.m = m + 1 /\ a.d = 1
    BY DEF Date
  <2>2. /\ m + 1 \in 1 .. 12 /\ m + 1 # 1 /\ m + 1 - 1 = m
    BY <1>2
  <2>3. MonthLength(y, m + 1) \in 28 .. 31 /\ MonthLength(y, m) \in 28 .. 31
    BY <2>2, LengthRange
  <2>4. LastOfPrevious(a) = Date(y, m, MonthLength(y, m))
    BY <2>1, <2>2 DEF LastOfPrevious
  <2>5. PlusDays(a, -1) = [LastOfPrevious(a) EXCEPT !.d = LastOfPrevious(a).d + (a.d - 1)]
    BY <2>1, <2>3 DEF PlusDays
  <2>6. PlusDays(a, -1).d = MonthLength(y, m)
    BY <2>1, <2>3, <2>4, <2>5 DEF Date
  <2> QED
    BY <1>2, <2>6 DEF days_in_month
<1> QED
  BY <1>1, <1>2

\* add_months is the month counted to and the day, clamped.
LEMMA AddMonthsClamps ==
  ASSUME NEW a, Civil(a), NEW n \in Int
  PROVE  /\ Civil(add_months(a, n))
         /\ MonthIndex(add_months(a, n)) = MonthIndex(a) + n
         /\ add_months(a, n).d = (IF a.d < Length(MonthIndex(a) + n) THEN a.d
                                                              ELSE Length(MonthIndex(a) + n))
<1> DEFINE k == MonthIndex(a) + n  L == Length(k)  e == IF a.d < L THEN a.d ELSE L
           b == add_months(a, n)
<1>1. a.y \in Int /\ a.m \in 1 .. 12 /\ a.d \in 1 .. 31
  BY DEF Civil
<1>2. /\ k = a.y * 12 + (a.m - 1) + n
      /\ k \in Int /\ YearOf(k) \in Int /\ MonthOf(k) \in 1 .. 12
  BY <1>1 DEF MonthIndex, YearOf, MonthOf
<1>3. days_in_month(YearOf(k), MonthOf(k)) = L /\ L \in 28 .. 31
  BY <1>2, DaysInMonth, LengthRange DEF Length
<1>4. b = Date(YearOf(k), MonthOf(k), e)
  BY <1>2, <1>3 DEF add_months, YearOf, MonthOf
<1>5. e \in 1 .. L
  BY <1>1, <1>3
<1>6. b.d = e
  BY <1>4 DEF Date
<1> HIDE DEF e, b, k
<1>7. Civil(b) /\ MonthIndex(b) = k
  BY <1>2, <1>4, <1>5, CivilOfMonth
<1> QED
  BY <1>6, <1>7 DEF e, b, k

\* A date within its month, by its number.
LEMMA InItsMonth ==
  ASSUME NEW a, Civil(a), NEW k, k = MonthIndex(a)
  PROVE  /\ k \in Int /\ a.d \in 1 .. Length(k)
         /\ Length(k) \in 28 .. 31 /\ First(k) \in Int
         /\ Ordinal(a) = First(k) + a.d - 1 /\ Ordinal(a) \in Int
<1>1. /\ k \in Int /\ a.d \in 1 .. Length(k)
      /\ Ordinal(a) = First(k) + a.d - 1 /\ Ordinal(a) \in Int
  BY OrdinalInMonth
<1> DEFINE j == k + 1
<1>2. j \in Int /\ j = k + 1
  BY <1>1
<1> HIDE DEF j
<1>3. First(k) \in Int /\ Length(k) \in 28 .. 31
  BY <1>1, <1>2, FirstAfterFirst
<1> QED
  BY <1>1, <1>3

\* A month on is four weeks to 31 days on.
LEMMA MonthOn ==
  ASSUME NEW a, Civil(a)
  PROVE  Civil(add_months(a, 1)) /\ Ordinal(add_months(a, 1)) - Ordinal(a) \in 28 .. 31
<1> DEFINE k == MonthIndex(a)  j == k + 1  b == add_months(a, 1)
<1>1. /\ k \in Int /\ a.d \in 1 .. Length(k) /\ Length(k) \in 28 .. 31 /\ First(k) \in Int
      /\ Ordinal(a) = First(k) + a.d - 1
  BY InItsMonth
<1>2. j \in Int /\ j = k + 1
  BY <1>1
<1>3. /\ Civil(b) /\ MonthIndex(b) = j
      /\ b.d = (IF a.d < Length(j) THEN a.d ELSE Length(j))
  BY AddMonthsClamps
<1> HIDE DEF k, j, b
<1>4. Length(j) \in 28 .. 31 /\ Ordinal(b) = First(j) + b.d - 1
  BY <1>3, InItsMonth
<1>5. First(j) = First(k) + Length(k)
  BY <1>1, <1>2, FirstAfterFirst
<1>6. Ordinal(b) - Ordinal(a) \in 28 .. 31
  BY <1>1, <1>3, <1>4, <1>5
<1> QED
  BY <1>3, <1>6 DEF b

\* A quarter on is 89 to 92 days on.
LEMMA QuarterOn ==
  ASSUME NEW a, Civil(a)
  PROVE  Civil(add_months(a, 3)) /\ Ordinal(add_months(a, 3)) - Ordinal(a) \in 89 .. 92
<1> DEFINE k == MonthIndex(a)  k1 == k + 1  k2 == k + 2  k3 == k + 3  b == add_months(a, 3)
<1>1. /\ k \in Int /\ a.d \in 1 .. Length(k) /\ Length(k) \in 28 .. 31 /\ First(k) \in Int
      /\ Ordinal(a) = First(k) + a.d - 1
  BY InItsMonth
<1>2. /\ k1 \in Int /\ k2 \in Int /\ k3 \in Int
      /\ k1 = k + 1 /\ k2 = k1 + 1 /\ k3 = k2 + 1 /\ k2 = k + 2 /\ k3 = k1 + 2
  BY <1>1
<1>3. /\ Civil(b) /\ MonthIndex(b) = k3
      /\ b.d = (IF a.d < Length(k3) THEN a.d ELSE Length(k3))
  BY AddMonthsClamps
<1> HIDE DEF k, k1, k2, k3, b
<1>4. Length(k3) \in 28 .. 31 /\ Ordinal(b) = First(k3) + b.d - 1
  BY <1>3, InItsMonth
<1>5. First(k1) = First(k) + Length(k)
  BY <1>1, <1>2, FirstAfterFirst
<1>6. First(k2) = First(k1) + Length(k1) /\ First(k1) \in Int /\ Length(k1) \in 28 .. 31
  BY <1>2, FirstAfterFirst
<1>7. First(k3) = First(k2) + Length(k2) /\ First(k2) \in Int /\ Length(k2) \in 28 .. 31
  BY <1>2, FirstAfterFirst
<1>8. Length(k) + Length(k1) + Length(k2) \in 89 .. 92
  BY <1>1, <1>2, QuarterLength
<1>9. Length(k1) + Length(k2) + Length(k3) \in 89 .. 92
  BY <1>2, QuarterLength
<1>10. Ordinal(b) - Ordinal(a) \in 89 .. 92
  BY <1>1, <1>3, <1>4, <1>5, <1>6, <1>7, <1>8, <1>9
<1> QED
  BY <1>3, <1>10 DEF b

\* On by months and back again is where one was, or before.
LEMMA OnAndBack ==
  ASSUME NEW a, Civil(a), NEW n \in Int
  PROVE  Ordinal(add_months(add_months(a, n), -n)) <= Ordinal(a)
<1> DEFINE k == MonthIndex(a)  j == k + n  b == add_months(a, n)  c == add_months(b, -n)
<1>1. /\ k \in Int /\ a.d \in 1 .. Length(k) /\ Length(k) \in 28 .. 31 /\ First(k) \in Int
      /\ Ordinal(a) = First(k) + a.d - 1
  BY InItsMonth
<1>2. /\ Civil(b) /\ MonthIndex(b) = j
      /\ b.d = (IF a.d < Length(j) THEN a.d ELSE Length(j))
  BY AddMonthsClamps
<1>3. -n \in Int /\ j + -n = k
  BY <1>1
<1> HIDE DEF b, j, k
<1>4. /\ Civil(c) /\ MonthIndex(c) = k
      /\ c.d = (IF b.d < Length(k) THEN b.d ELSE Length(k))
  BY <1>2, <1>3, AddMonthsClamps
<1> HIDE DEF c
<1>5. Length(j) \in 28 .. 31
  BY <1>2, InItsMonth
<1>6. Ordinal(c) = First(k) + c.d - 1
  BY <1>4, InItsMonth
<1>7. Ordinal(c) <= Ordinal(a)
  BY <1>1, <1>2, <1>4, <1>5, <1>6
<1> QED
  BY <1>7 DEF b, c

\* How far each cadence goes.
LEMMA Intervals ==
  ASSUME NEW a, Civil(a)
  PROVE  /\ Ordinal(a) \in Int
         /\ Civil(advance("daily", a)) /\ Ordinal(advance("daily", a)) = Ordinal(a) + 1
         /\ Civil(advance("weekly", a)) /\ Ordinal(advance("weekly", a)) = Ordinal(a) + 7
         /\ Civil(advance("monthly", a)) /\ Ordinal(advance("monthly", a)) - Ordinal(a) \in 28 .. 31
         /\ Civil(advance("quarterly", a)) /\ Ordinal(advance("quarterly", a)) - Ordinal(a) \in 89 .. 92
<1>1. Ordinal(a) \in Int
  BY OrdinalInMonth
<1>2. Civil(advance("daily", a)) /\ Ordinal(advance("daily", a)) = Ordinal(a) + 1
  <2>1. 1 \in -28 .. 28 /\ advance("daily", a) = PlusDays(a, 1)
    BY DEF advance
  <2> QED
    BY <2>1, PlusDaysAdds
<1>3. Civil(advance("weekly", a)) /\ Ordinal(advance("weekly", a)) = Ordinal(a) + 7
  <2>1. 7 \in -28 .. 28 /\ advance("weekly", a) = PlusDays(a, 7)
    BY DEF advance
  <2> QED
    BY <2>1, PlusDaysAdds
<1>4. advance("monthly", a) = add_months(a, 1) /\ advance("quarterly", a) = add_months(a, 3)
  BY DEF advance
<1>5. /\ Civil(add_months(a, 1)) /\ Ordinal(add_months(a, 1)) - Ordinal(a) \in 28 .. 31
      /\ Civil(add_months(a, 3)) /\ Ordinal(add_months(a, 3)) - Ordinal(a) \in 89 .. 92
  BY MonthOn, QuarterOn
<1> QED
  BY <1>1, <1>2, <1>3, <1>4, <1>5

\* The advance of a cadence: a later day, at most 92 days later.
LEMMA AdvanceInterval ==
  ASSUME NEW a, Civil(a), NEW p \in Periodicities
  PROVE  /\ Civil(advance(p, a))
         /\ Ordinal(a) \in Int /\ Ordinal(advance(p, a)) \in Int
         /\ Ordinal(advance(p, a)) > Ordinal(a)
         /\ Ordinal(advance(p, a)) <= Ordinal(a) + 92
<1>1. Civil(advance(p, a))
  BY Intervals DEF Periodicities
<1>2. Ordinal(a) \in Int /\ Ordinal(advance(p, a)) \in Int
  BY <1>1, OrdinalInMonth
<1>3. Ordinal(advance(p, a)) - Ordinal(a) \in 1 .. 92
  <2>1. CASE p = "daily"
    BY <1>2, <2>1, Intervals
  <2>2. CASE p = "weekly"
    BY <1>2, <2>2, Intervals
  <2>3. CASE p = "monthly"
    BY <1>2, <2>3, Intervals
  <2>4. CASE p = "quarterly"
    BY <1>2, <2>4, Intervals
  <2> QED
    BY <2>1, <2>2, <2>3, <2>4 DEF Periodicities
<1> QED
  BY <1>1, <1>2, <1>3

\* The next rung is another cadence, or the slowest again, and never sooner.
LEMMA RungIsLater ==
  ASSUME NEW a, Civil(a), NEW p \in Periodicities
  PROVE  /\ next_rung(p) \in Periodicities
         /\ Ordinal(advance(p, a)) <= Ordinal(advance(next_rung(p), a))
<1>1. next_rung(p) \in Periodicities
  BY DEF next_rung, Periodicities
<1>2. Ordinal(a) \in Int /\ Ordinal(advance(p, a)) \in Int /\ Ordinal(advance(next_rung(p), a)) \in Int
  BY <1>1, AdvanceInterval
<1> DEFINE next(q) == Ordinal(advance(q, a))
<1>0. next("daily") <= next("weekly") /\ next("weekly") <= next("monthly")
      /\ next("monthly") <= next("quarterly")
  <2>1. /\ Ordinal(a) \in Int
        /\ next("daily") = Ordinal(a) + 1 /\ next("weekly") = Ordinal(a) + 7
        /\ next("monthly") - Ordinal(a) \in 28 .. 31
        /\ next("quarterly") - Ordinal(a) \in 89 .. 92
    BY Intervals
  <2>2. next("monthly") \in Int /\ next("quarterly") \in Int
    BY AdvanceInterval DEF Periodicities
  <2> HIDE DEF next
  <2> QED
    BY <2>1, <2>2
<1>3. CASE p = "daily"
  <2>1. next_rung(p) = "weekly"
    BY <1>3 DEF next_rung
  <2> QED
    BY <1>0, <1>1, <1>3, <2>1
<1>4. CASE p = "weekly"
  <2>1. next_rung(p) = "monthly"
    BY <1>4 DEF next_rung
  <2> QED
    BY <1>0, <1>1, <1>4, <2>1
<1>5. CASE p = "monthly"
  <2>1. next_rung(p) = "quarterly"
    BY <1>5 DEF next_rung
  <2> QED
    BY <1>0, <1>1, <1>5, <2>1
<1>6. CASE p = "quarterly"
  <2>1. next_rung(p) = p
    BY <1>6 DEF next_rung
  <2> QED
    BY <1>1, <1>2, <2>1
<1> QED
  BY <1>3, <1>4, <1>5, <1>6 DEF Periodicities

\* The login window of a cadence, on the day the cadence falls due, reaches
\* back to the day it was advanced from.
LEMMA WindowReachesBack ==
  ASSUME NEW a, Civil(a), NEW p \in Periodicities
  PROVE  Ordinal(login_window_since(p, advance(p, a))) <= Ordinal(a)
<1> DEFINE b == advance(p, a)
<1>1. Civil(b) /\ Ordinal(a) \in Int /\ Ordinal(b) \in Int
  BY AdvanceInterval
<1>2. CASE p = "daily"
  <2>1. Ordinal(b) = Ordinal(a) + 1 /\ login_window_since(p, b) = PlusDays(b, -2) /\ -2 \in -28 .. 28
    BY <1>2, Intervals DEF login_window_since
  <2> HIDE DEF b
  <2>2. Ordinal(PlusDays(b, -2)) = Ordinal(b) + -2
    BY <1>1, <2>1, PlusDaysAdds
  <2>3. Ordinal(login_window_since(p, b)) <= Ordinal(a)
    BY <1>1, <2>1, <2>2
  <2> QED
    BY <2>3 DEF b
<1>3. CASE p = "weekly"
  <2>1. Ordinal(b) = Ordinal(a) + 7 /\ login_window_since(p, b) = PlusDays(b, -7) /\ -7 \in -28 .. 28
    BY <1>3, Intervals DEF login_window_since
  <2> HIDE DEF b
  <2>2. Ordinal(PlusDays(b, -7)) = Ordinal(b) + -7
    BY <1>1, <2>1, PlusDaysAdds
  <2>3. Ordinal(login_window_since(p, b)) <= Ordinal(a)
    BY <1>1, <2>1, <2>2
  <2> QED
    BY <2>3 DEF b
<1>4. CASE p = "monthly"
  <2>1. login_window_since(p, b) = add_months(add_months(a, 1), -1) /\ 1 \in Int
    BY <1>4 DEF login_window_since, advance
  <2>2. Ordinal(add_months(add_months(a, 1), -1)) <= Ordinal(a)
    BY <2>1, OnAndBack
  <2> QED
    BY <2>1, <2>2
<1>5. CASE p = "quarterly"
  <2>1. login_window_since(p, b) = add_months(add_months(a, 3), -3) /\ 3 \in Int
    BY <1>5 DEF login_window_since, advance
  <2>2. Ordinal(add_months(add_months(a, 3), -3)) <= Ordinal(a)
    BY <2>1, OnAndBack
  <2> QED
    BY <2>1, <2>2
<1> QED
  BY <1>2, <1>3, <1>4, <1>5 DEF Periodicities

-----------------------------------------------------------------------------

\* The due date is one advance after the latest mail, and the wait for it is no
\* longer than MaxDelay allows.
CalendarInv ==
  /\ cadence \in Periodicities
  /\ Civil(today) /\ Civil(mailed)
  /\ due = advance(cadence, mailed)
  /\ Ordinal(today) <= Ordinal(due) + MaxDelay

\* A digest begins with its first mail just sent.
LEMMA CalendarStarts == CalendarInit => CalendarInv
<1> SUFFICES ASSUME CalendarInit PROVE CalendarInv
  OBVIOUS
<1>1. Civil(start) /\ today = start /\ mailed = start /\ cadence \in Periodicities
      /\ due = advance(cadence, start)
  BY StartsAreDates DEF CalendarInit
<1>2. Ordinal(start) \in Int /\ Ordinal(due) \in Int /\ Ordinal(due) > Ordinal(start)
  BY <1>1, AdvanceInterval
<1>3. Ordinal(today) <= Ordinal(due) + MaxDelay
  BY <1>1, <1>2, CalendarNat
<1> QED
  BY <1>1, <1>3 DEF CalendarInv

\* A day that passes and a sweep that sends keep the invariant.
LEMMA CalendarMoves == CalendarInv /\ [CalendarNext]_calendarVars => CalendarInv'
<1> SUFFICES ASSUME CalendarInv, [CalendarNext]_calendarVars PROVE CalendarInv'
  OBVIOUS
<1>1. CASE NextDay
  <2>1. /\ Ordinal(today) < Ordinal(due) + MaxDelay
        /\ today' = PlusDays(today, 1) /\ UNCHANGED <<start, cadence, due, mailed>>
    BY <1>1 DEF NextDay
  <2>2. 1 \in -28 .. 28 /\ Civil(today)
    BY DEF CalendarInv
  <2>3. Civil(today') /\ Ordinal(today') = Ordinal(today) + 1
    BY <2>1, <2>2, PlusDaysAdds
  <2>4. Ordinal(today) \in Int /\ Ordinal(due) \in Int
    BY AdvanceInterval, OrdinalInMonth DEF CalendarInv
  <2>5. Ordinal(today') <= Ordinal(due) + MaxDelay
    BY <2>1, <2>3, <2>4, CalendarNat
  <2> QED
    BY <2>1, <2>3, <2>5 DEF CalendarInv
<1>2. ASSUME NEW target \in Periodicities, Send(target) PROVE CalendarInv'
  <2>1. /\ cadence' = target /\ due' = advance(target, today) /\ mailed' = today
        /\ today' = today
    BY <1>2 DEF Send
  <2>2. Civil(today)
    BY DEF CalendarInv
  <2>3. /\ Ordinal(today) \in Int /\ Ordinal(advance(target, today)) \in Int
        /\ Ordinal(advance(target, today)) > Ordinal(today)
    BY <2>2, AdvanceInterval
  <2>4. Ordinal(today) <= Ordinal(advance(target, today)) + MaxDelay
    BY <2>3, CalendarNat
  <2> QED
    BY <2>1, <2>2, <2>4 DEF CalendarInv
<1>3. CASE UNCHANGED calendarVars
  BY <1>3 DEF CalendarInv, calendarVars
<1> QED
  BY <1>1, <1>2, <1>3 DEF CalendarNext

\* The dates of a digest stay dates, and its due date one advance after the mail.
THEOREM CalendarCorrect == CalendarSpec => []CalendarInv
BY CalendarStarts, CalendarMoves, PTL DEF CalendarSpec

\* From any date: later, and no sooner for a slower cadence.
THEOREM AdvanceIsLaterHolds == CalendarSpec => []AdvanceIsLater
<1>1. CalendarInv => AdvanceIsLater
  <2> SUFFICES ASSUME CalendarInv, NEW p \in Periodicities
               PROVE  /\ Valid(advance(p, today))
                      /\ Ordinal(advance(p, today)) > Ordinal(today)
                      /\ Ordinal(advance(p, today)) <= Ordinal(advance(next_rung(p), today))
    BY DEF AdvanceIsLater
  <2>1. Civil(today)
    BY DEF CalendarInv
  <2>2. Civil(advance(p, today)) /\ Ordinal(advance(p, today)) > Ordinal(today)
    BY <2>1, AdvanceInterval
  <2>3. Ordinal(advance(p, today)) <= Ordinal(advance(next_rung(p), today))
    BY <2>1, RungIsLater
  <2> QED
    BY <2>2, <2>3 DEF Civil
<1> QED
  BY <1>1, CalendarCorrect, PTL

\* add_months counts months and clamps to the last day, from any date.
THEOREM ClampsToMonthEndHolds == CalendarSpec => []ClampsToMonthEnd
<1>1. CalendarInv => ClampsToMonthEnd
  <2> SUFFICES ASSUME CalendarInv, NEW n \in {-3, -1, 1, 3}
               PROVE  LET b == add_months(today, n)
                      IN  /\ Valid(b)
                          /\ MonthIndex(b) = MonthIndex(today) + n
                          /\ b.d # today.d => b.d < today.d /\ ~Valid([b EXCEPT !.d = @ + 1])
    BY DEF ClampsToMonthEnd
  <2> DEFINE b == add_months(today, n)  k == MonthIndex(today) + n
  <2>1. Civil(today) /\ n \in Int
    BY DEF CalendarInv
  <2>2. /\ Civil(b) /\ MonthIndex(b) = k
        /\ b.d = (IF today.d < Length(k) THEN today.d ELSE Length(k))
    BY <2>1, AddMonthsClamps
  <2>3. today.d \in 1 .. 31
    BY <2>1 DEF Civil
  <2> HIDE DEF b, k
  <2>4. Length(k) \in 28 .. 31 /\ YearOf(k) = b.y /\ MonthOf(k) = b.m
    BY <2>2, InItsMonth, OrdinalInMonth
  <2>5. ASSUME b.d # today.d PROVE b.d < today.d /\ ~Valid([b EXCEPT !.d = b.d + 1])
    <3>1. b.d = Length(k) /\ b.d < today.d
      BY <2>2, <2>3, <2>4, <2>5
    <3> DEFINE f == [b EXCEPT !.d = b.d + 1]
    <3>2. f.d = b.d + 1 /\ f.m = b.m /\ f.y = b.y
      BY <2>2 DEF Civil
    <3> HIDE DEF f
    <3>3. MonthLength(f.y, f.m) = Length(k)
      BY <2>4, <3>2 DEF Length
    <3>4. ~Valid(f)
      BY <2>4, <3>1, <3>2, <3>3 DEF Valid
    <3> QED
      BY <3>1, <3>4 DEF f
  <2>6. Valid(b) /\ MonthIndex(b) = k
    BY <2>2 DEF Civil
  <2> QED
    BY <2>5, <2>6 DEF b, k
<1> QED
  BY <1>1, CalendarCorrect, PTL

\* A login on a day after the latest mail counts on the day the next is due.
THEOREM LoginSinceMailCountsHolds == CalendarSpec => []LoginSinceMailCounts
<1>1. CalendarInv => LoginSinceMailCounts
  BY WindowReachesBack DEF CalendarInv, LoginSinceMailCounts
<1> QED
  BY <1>1, CalendarCorrect, PTL

\* The longest wait is a quarter of 92 days: whatever the cadences, the link
\* lives on if a sweep is at most the other 88 days late.
THEOREM LinkOutlivesWaitHolds ==
  ASSUME MaxDelay <= TOKEN_TTL_DAYS - 92
  PROVE  CalendarSpec => []LinkOutlivesWait
<1>1. CalendarInv => LinkOutlivesWait
  <2> SUFFICES ASSUME CalendarInv PROVE LinkOutlivesWait
    OBVIOUS
  <2>1. /\ Civil(today) /\ Civil(mailed) /\ cadence \in Periodicities
        /\ due = advance(cadence, mailed)
        /\ Ordinal(today) <= Ordinal(due) + MaxDelay
    BY DEF CalendarInv
  <2>2. /\ Ordinal(mailed) \in Int /\ Ordinal(due) \in Int
        /\ Ordinal(due) <= Ordinal(mailed) + 92
    BY <2>1, AdvanceInterval
  <2>3. Ordinal(today) \in Int
    BY <2>1, OrdinalInMonth
  <2>4. MaxDelay <= 88 /\ MaxDelay \in Nat
    BY CalendarNat DEF TOKEN_TTL_DAYS
  <2> QED
    BY <2>1, <2>2, <2>3, <2>4 DEF LinkOutlivesWait, TOKEN_TTL_DAYS
<1> QED
  BY <1>1, CalendarCorrect, PTL

-----------------------------------------------------------------------------
(* The failure book *)

\* The failures of a pair came in order, none after now.
Chronicle(k) ==
  \A i \in 1 .. Len(past[k]) : past[k][i] <= clock /\ (i > 1 => past[k][i - 1] <= past[k][i])

\* Without an entry the latest failure, if any, has lapsed.
Forgotten(k) == book[k].n = 0 => \/ Len(past[k]) = 0
                                 \/ clock - past[k][Len(past[k])] >= Window

\* The entry counts the longest run of failures, up to the latest one, that
\* came each within the window of the one before.
CountsRun(k) == book[k].n > 0 =>
  LET n == Len(past[k])
      c == book[k].n
  IN  /\ c <= n /\ book[k].at = past[k][n]
      /\ \A i \in (n - c + 2) .. n : past[k][i] - past[k][i - 1] < Window
      /\ c < n => past[k][n - c + 1] - past[k][n - c] >= Window

BookInv == TypeOK /\ \A k \in Buckets : Chronicle(k) /\ Forgotten(k) /\ CountsRun(k)

-----------------------------------------------------------------------------

\* Where a run of e failures that ends a history of n begins.
LEMMA RunStart ==
  ASSUME NEW n \in Nat, NEW e \in Nat, e > 0, e < n
  PROVE  /\ n - e + 1 \in 1 .. n /\ n - e + 1 - 1 \in 1 .. n /\ n - e \in 1 .. n
         /\ \A f \in Nat : e < f => n - e + 1 \in (n - f + 2) .. n
OBVIOUS

LEMMA InitInv == Init => BookInv
BY BookNat DEF Init, BookInv, TypeOK, NoEntry, NoLink, Verdicts, Chronicle, Forgotten, CountsRun

\* One more failure of a bucket, now.
LEMMA RegisterInv ==
  ASSUME BookInv, NEW k \in Buckets, register_failure(k),
         UNCHANGED <<clock, secret>>,
         answer' \in [mac : BOOLEAN, live : BOOLEAN, verdict : Verdicts]
  PROVE  BookInv'
<1> DEFINE n == Len(past[k])
<1>1. /\ clock \in 0 .. MaxTime /\ MaxTime \in Nat /\ Window \in Nat \ {0} /\ MaxRequests \in Nat
      /\ book \in [Buckets -> [n : 0 .. MaxRequests, at : 0 .. MaxTime]]
      /\ past \in [Buckets -> Seq(0 .. MaxTime)]
  BY BookNat DEF BookInv, TypeOK
<1>2. /\ past' = [past EXCEPT ![k] = Append(past[k], clock)]
      /\ book' = [book EXCEPT ![k] = Counted(k)]
      /\ n < MaxRequests /\ n \in Nat
  BY <1>1 DEF register_failure
<1>3. Chronicle(k) /\ Forgotten(k) /\ CountsRun(k)
  BY DEF BookInv
<1>4. /\ past'[k] = Append(past[k], clock) /\ Len(past'[k]) = n + 1
      /\ past'[k][n + 1] = clock
      /\ \A i \in 1 .. n : past'[k][i] = past[k][i] /\ past[k][i] \in 0 .. MaxTime
      /\ book'[k] = Counted(k)
  BY <1>1, <1>2
<1>5. /\ Counted(k).at = clock
      /\ Counted(k).n = (IF clock - book[k].at >= Window THEN 0 ELSE book[k].n) + 1
      /\ book[k].n \in 0 .. MaxRequests /\ book[k].at \in 0 .. MaxTime
  BY <1>1 DEF Counted, Elapsed
<1>6. book[k].n <= n
  BY <1>1, <1>2, <1>3, <1>5 DEF CountsRun
<1>7. TypeOK'
  <2>1. Counted(k) \in [n : 0 .. MaxRequests, at : 0 .. MaxTime]
    BY <1>1, <1>2, <1>5, <1>6 DEF Counted, Elapsed
  <2>2. Append(past[k], clock) \in Seq(0 .. MaxTime)
    BY <1>1
  <2>3. QED
    BY <1>1, <1>2, <2>1, <2>2 DEF BookInv, TypeOK
<1>8. Chronicle(k)'
  BY <1>1, <1>2, <1>3, <1>4 DEF Chronicle
<1>9. Forgotten(k)'
  BY <1>4, <1>5 DEF Forgotten
<1>10. CountsRun(k)'
  <2> DEFINE c == Counted(k).n
             q == past'[k]
  <2>1. c \in Nat /\ c > 0 /\ c <= n + 1
    BY <1>2, <1>5, <1>6
  <2>2. SUFFICES /\ \A i \in (n + 1 - c + 2) .. (n + 1) : q[i] - q[i - 1] < Window
                 /\ c < n + 1 => q[n + 1 - c + 1] - q[n + 1 - c] >= Window
    <3>1. book'[k].n = c /\ book'[k].at = q[n + 1] /\ Len(q) = n + 1
      BY <1>4, <1>5
    <3>2. n \in Nat
      BY <1>2
    <3> HIDE DEF n, c
    <3>3. QED
      BY <2>1, <3>1, <3>2 DEF CountsRun
  <2>3. CASE c = 1
    <3>1. n > 0 => clock - past[k][n] >= Window
      <4>1. CASE clock - book[k].at >= Window
        BY <1>2, <1>3, <1>5, <4>1 DEF CountsRun, Forgotten
      <4>2. CASE ~(clock - book[k].at >= Window)
        <5>1. book[k].n = 0
          BY <1>5, <2>3, <4>2
        <5>2. QED
          BY <1>2, <1>3, <5>1 DEF Forgotten
      <4>3. QED
        BY <4>1, <4>2
    <3>2. n > 0 => q[n + 1] - q[n] >= Window
      BY <1>2, <1>4, <3>1
    <3>3. n + 1 - c + 1 = n + 1 /\ n + 1 - c = n /\ n + 1 - c + 2 = n + 2
      BY <1>2, <2>3
    <3>4. (n + 1 - c + 2) .. (n + 1) = {}
      BY <1>2, <3>3
    <3>5. QED
      BY <1>2, <2>3, <3>2, <3>3, <3>4
  <2>4. CASE c # 1
    <3>0. n \in Nat /\ book[k].n \in Nat /\ book[k].n <= n
      BY <1>2, <1>5, <1>6
    <3>1. c = book[k].n + 1 /\ book[k].n > 0 /\ clock - book[k].at < Window
      BY <1>1, <1>5, <2>4
    <3>2. clock - past[k][n] < Window
      BY <1>3, <3>1 DEF CountsRun
    <3>3. /\ \A i \in (n - book[k].n + 2) .. n : past[k][i] - past[k][i - 1] < Window
          /\ book[k].n < n => past[k][n - book[k].n + 1] - past[k][n - book[k].n] >= Window
      BY <1>3, <3>1 DEF CountsRun
    <3>4. /\ n + 1 - c + 2 = n - book[k].n + 2 /\ n + 1 - c + 1 = n - book[k].n + 1
          /\ n + 1 - c = n - book[k].n
      BY <3>0, <3>1
    <3>5. ASSUME NEW i \in (n + 1 - c + 2) .. (n + 1) PROVE q[i] - q[i - 1] < Window
      <4>1. CASE i = n + 1
        <5>1. n \in 1 .. n /\ i - 1 = n
          BY <3>0, <3>1, <4>1
        <5>2. QED
          BY <1>4, <3>2, <4>1, <5>1
      <4>2. CASE i # n + 1
        <5>1. i \in (n - book[k].n + 2) .. n /\ i \in 1 .. n /\ i - 1 \in 1 .. n
          BY <3>0, <3>1, <3>4, <3>5, <4>2
        <5>2. QED
          BY <1>4, <3>3, <5>1
      <4>3. QED
        BY <4>1, <4>2
    <3>6. ASSUME c < n + 1 PROVE q[n + 1 - c + 1] - q[n + 1 - c] >= Window
      <4>1. /\ book[k].n < n /\ n - book[k].n \in 1 .. n /\ n - book[k].n + 1 \in 1 .. n
        BY <3>0, <3>1, <3>6, RunStart
      <4>2. QED
        BY <1>4, <3>3, <3>4, <4>1
    <3>7. QED
      BY <3>5, <3>6
  <2>5. QED
    BY <2>3, <2>4
<1>11. ASSUME NEW b \in Buckets, b # k PROVE (Chronicle(b) /\ Forgotten(b) /\ CountsRun(b))'
  <2>1. past'[b] = past[b] /\ book'[b] = book[b]
    BY <1>1, <1>2, <1>11
  <2>2. QED
    BY <2>1 DEF BookInv, Chronicle, Forgotten, CountsRun
<1>12. QED
  BY <1>7, <1>8, <1>9, <1>10, <1>11 DEF BookInv

\* The entry goes, with its history or because it has lapsed.
LEMMA ClearInv ==
  ASSUME BookInv, NEW k \in Buckets,
         book' = [book EXCEPT ![k] = NoEntry],
         \/ past' = [past EXCEPT ![k] = <<>>]
         \/ past' = past /\ book[k].n > 0 /\ Elapsed(k) >= Window,
         UNCHANGED <<clock, secret>>,
         answer' \in [mac : BOOLEAN, live : BOOLEAN, verdict : Verdicts]
  PROVE  BookInv'
<1>1. /\ clock \in 0 .. MaxTime /\ MaxTime \in Nat /\ MaxRequests \in Nat
      /\ book \in [Buckets -> [n : 0 .. MaxRequests, at : 0 .. MaxTime]]
      /\ past \in [Buckets -> Seq(0 .. MaxTime)]
  BY BookNat DEF BookInv, TypeOK
<1>2. TypeOK'
  <2>1. past' \in [Buckets -> Seq(0 .. MaxTime)]
    <3>1. CASE past' = past
      BY <1>1, <3>1
    <3>2. CASE past' = [past EXCEPT ![k] = <<>>]
      BY <1>1, <3>2
    <3>3. QED
      BY <3>1, <3>2
  <2>2. book' \in [Buckets -> [n : 0 .. MaxRequests, at : 0 .. MaxTime]]
    BY <1>1 DEF NoEntry
  <2>3. QED
    BY <2>1, <2>2 DEF BookInv, TypeOK
<1>3. (Chronicle(k) /\ Forgotten(k) /\ CountsRun(k))'
  <2>1. book'[k].n = 0
    BY <1>1 DEF NoEntry
  <2>2. CASE past' = [past EXCEPT ![k] = <<>>]
    <3>1. past'[k] = <<>> /\ Len(past'[k]) = 0
      BY <1>1, <2>2
    <3>2. Chronicle(k)'
      BY <3>1 DEF Chronicle
    <3>3. Forgotten(k)' /\ CountsRun(k)'
      BY <2>1, <3>1 DEF Forgotten, CountsRun
    <3>4. QED
      BY <3>2, <3>3
  <2>3. CASE past' = past /\ book[k].n > 0 /\ Elapsed(k) >= Window
    <3>1. Chronicle(k)'
      BY <2>3 DEF BookInv, Chronicle
    <3>2. book[k].at = past[k][Len(past[k])]
      BY <2>3 DEF BookInv, CountsRun
    <3>3. Forgotten(k)'
      BY <2>3, <3>2 DEF Forgotten, Elapsed
    <3>4. CountsRun(k)'
      BY <2>1 DEF CountsRun
    <3>5. QED
      BY <3>1, <3>3, <3>4
  <2>4. QED
    BY <2>2, <2>3
<1>4. ASSUME NEW b \in Buckets, b # k PROVE (Chronicle(b) /\ Forgotten(b) /\ CountsRun(b))'
  <2>1. past'[b] = past[b] /\ book'[b] = book[b]
    BY <1>1, <1>4
  <2>2. QED
    BY <2>1 DEF BookInv, Chronicle, Forgotten, CountsRun
<1>5. QED
  BY <1>2, <1>3, <1>4 DEF BookInv

\* Nothing of the book moves, but the clock may.
LEMMA WaitInv ==
  ASSUME BookInv, UNCHANGED <<secret, book, past>>,
         clock' = clock \/ (clock < MaxTime /\ clock' = clock + 1),
         answer' \in [mac : BOOLEAN, live : BOOLEAN, verdict : Verdicts]
  PROVE  BookInv'
<1>1. /\ clock \in 0 .. MaxTime /\ MaxTime \in Nat /\ Window \in Nat
      /\ past \in [Buckets -> Seq(0 .. MaxTime)]
  BY BookNat DEF BookInv, TypeOK
<1>2. TypeOK'
  BY <1>1 DEF BookInv, TypeOK
<1>3. ASSUME NEW k \in Buckets PROVE (Chronicle(k) /\ Forgotten(k) /\ CountsRun(k))'
  <2>1. Len(past[k]) \in Nat /\ \A i \in 1 .. Len(past[k]) : past[k][i] \in 0 .. MaxTime
    BY <1>1
  <2>2. QED
    BY <1>1, <2>1 DEF BookInv, Chronicle, Forgotten, CountsRun
<1>4. QED
  BY <1>2, <1>3 DEF BookInv

LEMMA Inductive == BookInv /\ [Next]_vars => BookInv'
<1> SUFFICES ASSUME BookInv, [Next]_vars PROVE BookInv'
  OBVIOUS
<1> DEFINE Answers == [mac : BOOLEAN, live : BOOLEAN, verdict : Verdicts]
<1>1. answer \in Answers
  BY DEF BookInv, TypeOK
<1>2. CASE Tick
  BY <1>1, <1>2, WaitInv DEF Tick
<1>3. CASE CheckMalformed
  <2>1. answer' \in Answers
    BY <1>3 DEF CheckMalformed, NoLink, Verdicts
  <2>2. NilKey \in Buckets
    BY DEF Buckets
  <2>3. QED
    BY <1>3, <2>1, <2>2, RegisterInv DEF CheckMalformed
<1>4. ASSUME NEW t \in Token, verify(t) PROVE BookInv'
  <2>1. t.key \in Buckets /\ t.mac \in BOOLEAN /\ t.live \in BOOLEAN
    BY DEF Token, Buckets
  <2>2. answer' \in Answers
    BY <1>4, <2>1 DEF verify, Verdict, Verdicts
  <2>3. reset(t.key) \/ register_failure(t.key) \/ UNCHANGED <<book, past>>
    BY <1>4 DEF verify
  <2>4. UNCHANGED <<clock, secret>>
    BY <1>4 DEF verify
  <2>5. CASE reset(t.key)
    BY <2>1, <2>2, <2>4, <2>5, ClearInv DEF reset
  <2>6. CASE register_failure(t.key)
    BY <2>1, <2>2, <2>4, <2>6, RegisterInv
  <2>7. CASE UNCHANGED <<book, past>>
    BY <2>2, <2>4, <2>7, WaitInv
  <2>8. QED
    BY <2>3, <2>5, <2>6, <2>7
<1>5. ASSUME NEW k \in Buckets, AskLocked(k) PROVE BookInv'
  BY <1>1, <1>5, ClearInv DEF AskLocked
<1>6. CASE UNCHANGED vars
  BY <1>1, <1>6, WaitInv DEF vars
<1>7. QED
  BY <1>2, <1>3, <1>4, <1>5, <1>6 DEF Next

LEMMA Always == Spec => []BookInv
BY InitInv, Inductive, PTL DEF Spec

-----------------------------------------------------------------------------

\* Every entry counts failures within the bounds and no clock runs ahead.
THEOREM BookTyped == Spec => []TypeOK
<1>1. BookInv => TypeOK
  BY DEF BookInv
<1>2. QED
  BY <1>1, Always, PTL

\* locked answers yes exactly while the pair is being ground at, for any limit
\* and window, however the count restarted, lapsed or was cleared before.
THEOREM LockedIffGrindingHolds == Spec => []LockedIffGrinding
<1>1. BookInv => LockedIffGrinding
  <2> SUFFICES ASSUME BookInv, NEW k \in Buckets PROVE Locked(k) <=> Grinding(k)
    BY DEF LockedIffGrinding
  <2>1. /\ clock \in 0 .. MaxTime /\ MaxTime \in Nat /\ Window \in Nat \ {0}
        /\ MaxFailures \in Nat \ {0} /\ MaxRequests \in Nat
        /\ book[k].n \in 0 .. MaxRequests /\ book[k].at \in 0 .. MaxTime
        /\ Len(past[k]) \in Nat
        /\ \A i \in 1 .. Len(past[k]) : past[k][i] \in 0 .. MaxTime
    BY BookNat DEF BookInv, TypeOK
  <2>2. Forgotten(k) /\ CountsRun(k)
    BY DEF BookInv
  <2>3. CASE book[k].n = 0
    BY <2>1, <2>2, <2>3 DEF Forgotten, Locked, Grinding
  <2>4. CASE book[k].n > 0 /\ book[k].n < MaxFailures
    <3>1. ~Locked(k)
      BY <2>1, <2>4 DEF Locked
    <3>2. ASSUME Grinding(k) PROVE FALSE
      <4>1. Len(past[k]) >= MaxFailures
        BY <3>2 DEF Grinding
      <4> DEFINE i == Len(past[k]) - book[k].n + 1
      <4>2. /\ i \in (Len(past[k]) - MaxFailures + 2) .. Len(past[k])
            /\ i \in 1 .. Len(past[k]) /\ i - 1 \in 1 .. Len(past[k])
        <5>1. /\ Len(past[k]) \in Nat /\ book[k].n \in Nat /\ MaxFailures \in Nat
              /\ book[k].n < Len(past[k])
          BY <2>1, <2>4, <4>1
        <5>2. QED
          BY <5>1, <2>4, RunStart
      <4>3. past[k][i] - past[k][i - 1] >= Window
        <5>1. i - 1 = Len(past[k]) - book[k].n
          BY <2>1
        <5>2. QED
          BY <2>1, <2>2, <2>4, <4>1, <5>1 DEF CountsRun
      <4> HIDE DEF i
      <4>4. past[k][i] - past[k][i - 1] < Window
        BY <3>2, <4>2 DEF Grinding
      <4>5. past[k][i] \in Nat /\ past[k][i - 1] \in Nat
        BY <2>1, <4>2
      <4> DEFINE now == past[k][i]
                 before == past[k][i - 1]
      <4> HIDE DEF now, before
      <4>6. now \in Nat /\ before \in Nat /\ now - before < Window /\ now - before >= Window
        BY <4>3, <4>4, <4>5 DEF now, before
      <4>7. QED
        BY <2>1, <4>6
    <3>3. QED
      BY <3>1, <3>2
  <2>5. CASE book[k].n >= MaxFailures
    <3> DEFINE n == Len(past[k])
               c == book[k].n
    <3>1. /\ c \in Nat /\ n \in Nat /\ MaxFailures \in Nat /\ c >= MaxFailures /\ c > 0
      BY <2>1, <2>5
    <3>2. /\ c <= n /\ book[k].at = past[k][n]
          /\ \A i \in (n - c + 2) .. n : past[k][i] - past[k][i - 1] < Window
      BY <2>2, <3>1 DEF CountsRun
    <3>3. \A i \in (n - MaxFailures + 2) .. n : i \in (n - c + 2) .. n
      BY <3>1
    <3>4. n >= MaxFailures
      BY <3>1, <3>2
    <3>5. Locked(k) <=> clock - past[k][n] < Window
      BY <3>1, <3>2 DEF Locked, Elapsed
    <3>6. QED
      BY <3>2, <3>3, <3>4, <3>5 DEF Grinding
  <2>6. QED
    BY <2>1, <2>3, <2>4, <2>5
<1>2. QED
  BY <1>1, Always, PTL

\* verify's verdict is the MAC's and the date's, whatever the book holds.
THEOREM GenuineAlwaysHonouredHolds == Spec => []GenuineAlwaysHonoured
<1>1. Init => TypeOK /\ GenuineAlwaysHonoured
  BY InitInv DEF BookInv, Init, GenuineAlwaysHonoured, NoLink
<1>2. TypeOK /\ GenuineAlwaysHonoured /\ [Next]_vars => GenuineAlwaysHonoured'
  <2> SUFFICES ASSUME TypeOK, GenuineAlwaysHonoured, [Next]_vars PROVE GenuineAlwaysHonoured'
    OBVIOUS
  <2>1. ASSUME NEW t \in Token, verify(t) PROVE GenuineAlwaysHonoured'
    BY <2>1 DEF verify, Verdict, GenuineAlwaysHonoured, Token, TypeOK
  <2>2. CASE CheckMalformed
    BY <2>2 DEF CheckMalformed, NoLink, GenuineAlwaysHonoured
  <2>3. CASE Tick \/ (\E k \in Buckets : AskLocked(k)) \/ UNCHANGED vars
    BY <2>3 DEF Tick, AskLocked, vars, GenuineAlwaysHonoured
  <2>4. QED
    BY <2>1, <2>2, <2>3 DEF Next
<1>3. QED
  BY <1>1, <1>2, BookTyped, PTL DEF Spec
=============================================================================

--------------------------- MODULE ExtractionProofs ---------------------------
(* Proofs about extraction.  About dates, for every text, every day and     *)
(* every calendar value: what the parsers make of a text is a period, the   *)
(* calendar's successor and predecessor are days, the ranges of the         *)
(* adapters are ordered, and so is what Extraction dates its events.  About *)
(* URLs, for documents of any length: entries without a URL get one each,   *)
(* and the document is not asked for again.                                 *)
EXTENDS Extraction, OrderLemmas

\* What an event may be dated: nothing, or days of the calendar in order.
IsPeriod(date) ==
  /\ date = [start |-> date.start, end |-> date.end, precision |-> date.precision]
  /\ \/ date = Unknown
     \/ /\ IsDate(date.start)
        /\ date.end # None => IsDate(date.end) /\ date.start <= date.end

-----------------------------------------------------------------------------
(* The parser.                                                             *)

\* The missing date is no day.
LEMMA NoneIsNoDate == ~ IsDate(None)
BY DEF IsDate, None, MonthOf

\* What is put together like a period is one.
LEMMA PutTogether ==
  ASSUME NEW s, NEW e, NEW p,
         \/ [start |-> s, end |-> e, precision |-> p] = Unknown
         \/ IsDate(s) /\ (e # None => IsDate(e) /\ s <= e)
  PROVE  IsPeriod([start |-> s, end |-> e, precision |-> p])
<1> DEFINE date == [start |-> s, end |-> e, precision |-> p]
<1>1. date.start = s /\ date.end = e /\ date.precision = p
  OBVIOUS
<1>2. date = [start |-> date.start, end |-> date.end, precision |-> date.precision]
  BY <1>1
<1>. HIDE DEF date
<1>3. IsPeriod(date)
  <2>1. date = Unknown \/ (IsDate(s) /\ (e # None => IsDate(e) /\ s <= e))
    BY DEF date
  <2>. QED BY <1>1, <1>2, <2>1 DEF IsPeriod
<1>. QED BY <1>3 DEF date

\* One day is a period, and so is none.
LEMMA SingleIsPeriod ==
  ASSUME NEW date
  PROVE  IsPeriod(Unknown) /\ IsPeriod(Single(date)) /\ (IsDate(date) => IsPeriod(OneDay(date)))
<1>1. IsPeriod(Unknown)
  BY PutTogether DEF Unknown
<1>2. IsDate(date) => IsPeriod(OneDay(date))
  BY PutTogether DEF OneDay
<1>. QED BY <1>1, <1>2 DEF Single

\* So are two ends that are looked at before.
LEMMA BetweenIsPeriod ==
  ASSUME NEW first, NEW last
  PROVE  IsPeriod(Between(first, last))
<1>1. IsDate(first) /\ IsDate(last) /\ first <= last
        => IsPeriod([start |-> first, end |-> last, precision |-> "Range"])
  BY PutTogether
<1>. QED BY <1>1, SingleIsPeriod DEF Between

\* Whatever text and year hint: what parse_date_inner returns is a period.
THEOREM ParsedIsPeriod ==
  ASSUME NEW text, NEW year
  PROVE  IsPeriod(ParseDateInner(text, year))
<1>1. IsPeriod(Unknown)
  BY SingleIsPeriod
<1>2. IsPeriod(IsoRange(text))
  BY BetweenIsPeriod DEF IsoRange
<1>3. IsDate(text[1].n) => IsPeriod(IsoSingle(text))
  BY <1>1, SingleIsPeriod DEF IsoSingle
<1>4. IsPeriod(DatedMatch(text))
  BY BetweenIsPeriod, SingleIsPeriod DEF DatedMatch
<1>5. IsPeriod(YearlessMatch(text, year))
  BY BetweenIsPeriod, SingleIsPeriod DEF YearlessMatch
<1>. QED BY <1>1, <1>2, <1>3, <1>4, <1>5 DEF ParseDateInner

\* So is what list pages get, whose texts may be moved to the next year.
THEOREM ReferencedIsPeriod ==
  ASSUME NEW text, NEW today
  PROVE  IsPeriod(ParseWithReference(text, today))
BY ParsedIsPeriod DEF ParseWithReference, NextTime

-----------------------------------------------------------------------------
(* The calendar.                                                           *)

\* A date of the calendar is put together from its year, month and day.
LEMMA DateParts ==
  ASSUME NEW date \in Nat
  PROVE  /\ YearOf(date) \in Nat /\ MonthOf(date) \in 0..99 /\ DayOf(date) \in 0..99
         /\ date = Date(YearOf(date), MonthOf(date), DayOf(date))
BY DEF YearOf, MonthOf, DayOf, Date

\* And its parts are what it was put together from.
LEMMA PartsOfDate ==
  ASSUME NEW y \in Nat, NEW m \in 0..99, NEW d \in 0..99
  PROVE  /\ Date(y, m, d) \in Nat
         /\ YearOf(Date(y, m, d)) = y /\ MonthOf(Date(y, m, d)) = m /\ DayOf(Date(y, m, d)) = d
<1>1. \A a \in Nat : (100 * a + d) \div 100 = a /\ (100 * a + d) % 100 = d
  OBVIOUS
<1>2. (100 * y + m) \div 100 = y /\ (100 * y + m) % 100 = m /\ 100 * y + m \in Nat
  OBVIOUS
<1>3. Date(y, m, d) = 100 * (100 * y + m) + d
  BY DEF Date
<1>4. Date(y, m, d) \in Nat
  BY DEF Date
<1>5. Date(y, m, d) \div 10000 = y
  <2> DEFINE e == 100 * m + d
  <2>1. e \in 0..9999
    BY SMTT(30)
  <2>2. Date(y, m, d) = 10000 * y + e
    BY DEF Date
  <2> HIDE DEF e
  <2>. QED BY <2>1, <2>2, SMTT(60)
<1>6. Date(y, m, d) \div 100 = 100 * y + m /\ Date(y, m, d) % 100 = d
  BY <1>1, <1>2, <1>3
<1>. QED BY <1>2, <1>4, <1>5, <1>6, SMTT(30) DEF YearOf, MonthOf, DayOf

\* A month has 28 to 31 days.
LEMMA MonthLength ==
  ASSUME NEW y \in Nat, NEW m
  PROVE  DaysIn(y, m) \in 28..31
BY DEF DaysIn

\* What it says of a number put together from a month and a day that it is a date.
LEMMA DateIsDate ==
  ASSUME NEW y \in Nat, NEW m \in 0..99, NEW d \in 0..99
  PROVE  IsDate(Date(y, m, d)) <=> m \in 1..12 /\ d \in 1..DaysIn(y, m)
BY PartsOfDate, ZenonT(60) DEF IsDate

\* NextDay is the day after: a day, later, and none comes between.
THEOREM NextDayIsNext ==
  ASSUME NEW date \in Nat, IsDate(date)
  PROVE  /\ NextDay(date) \in Nat /\ IsDate(NextDay(date)) /\ date < NextDay(date)
         /\ \A d \in Nat : IsDate(d) /\ date < d => NextDay(date) <= d
<1> DEFINE y == YearOf(date)
           m == MonthOf(date)
           d == DayOf(date)
<1>1. y \in Nat /\ m \in 1..12 /\ d \in 1..DaysIn(y, m) /\ date = Date(y, m, d)
  BY DateParts DEF IsDate
<1>2. DaysIn(y, m) \in 28..31
  BY <1>1, MonthLength
<1>3. date + 1 = Date(y, m, d + 1)
  BY <1>1, <1>2 DEF Date
<1>. HIDE DEF y, m, d
<1>4. IsDate(date + 1) <=> d < DaysIn(y, m)
  <2>1. d + 1 \in 0..99 /\ m \in 0..99
    BY <1>1, <1>2, SMTT(30)
  <2>2. IsDate(date + 1) <=> d + 1 \in 1..DaysIn(y, m)
    BY <1>1, <1>3, <2>1, DateIsDate
  <2>. QED BY <1>1, <1>2, <2>2
<1>5. \A e \in Nat : IsDate(e) =>
        \E yy \in Nat, mm \in 1..12, dd \in 1..31 :
          e = Date(yy, mm, dd) /\ dd <= DaysIn(yy, mm)
  <2>. SUFFICES ASSUME NEW e \in Nat, IsDate(e)
                PROVE  \E yy \in Nat, mm \in 1..12, dd \in 1..31 :
                         e = Date(yy, mm, dd) /\ dd <= DaysIn(yy, mm)
    OBVIOUS
  <2>1. /\ YearOf(e) \in Nat /\ MonthOf(e) \in 1..12
        /\ DayOf(e) \in 1..DaysIn(YearOf(e), MonthOf(e))
        /\ e = Date(YearOf(e), MonthOf(e), DayOf(e))
    BY DateParts DEF IsDate
  <2>2. DaysIn(YearOf(e), MonthOf(e)) \in 28..31
    BY <2>1, MonthLength
  <2>3. DayOf(e) \in 1..31 /\ DayOf(e) <= DaysIn(YearOf(e), MonthOf(e))
    BY <2>1, <2>2
  <2>. HIDE DEF IsDate
  <2>. QED BY ONLY <2>1, <2>3, Zenon
<1>6. CASE d < DaysIn(y, m)
  BY <1>4, <1>6 DEF NextDay
<1>7. CASE ~ (d < DaysIn(y, m)) /\ m = 12
  <2>1. NextDay(date) = Date(y + 1, 1, 1)
    BY <1>4, <1>7, SMTT(30) DEF NextDay, y, m
  <2>2. IsDate(Date(y + 1, 1, 1)) /\ Date(y + 1, 1, 1) \in Nat
    <3>1. DaysIn(y + 1, 1) \in 28..31
      BY <1>1, MonthLength
    <3>2. /\ y + 1 \in Nat /\ 1 \in 0..99 /\ 1 \in 1..12
          /\ 1 \in 1..DaysIn(y + 1, 1)
      BY <1>1, <3>1
    <3>. QED BY <3>2, DateIsDate, PartsOfDate
  <2>3. date < Date(y + 1, 1, 1)
    BY <1>1, <1>2 DEF Date
  <2>4. ASSUME NEW e \in Nat, IsDate(e), date < e PROVE Date(y + 1, 1, 1) <= e
    <3>1. PICK yy \in Nat, mm \in 1..12, dd \in 1..31 :
            e = Date(yy, mm, dd) /\ dd <= DaysIn(yy, mm)
      BY <1>5, <2>4
    <3>2. d = DaysIn(y, m) /\ d \in 28..31
      BY <1>1, <1>2, <1>7
    <3>3. yy = y => FALSE
      <4>1. SUFFICES ASSUME yy = y PROVE FALSE
        OBVIOUS
      <4>2. mm = m /\ dd > d
        BY <1>1, <1>7, <2>4, <3>1, <3>2, <4>1 DEF Date
      <4>3. DaysIn(yy, mm) = DaysIn(y, m)
        BY <4>1, <4>2
      <4>. QED BY <3>1, <3>2, <4>2, <4>3
    <3>4. yy > y
      BY <1>1, <1>7, <2>4, <3>1, <3>2, <3>3 DEF Date
    <3>. QED BY <1>1, <3>1, <3>4 DEF Date
  <2>. QED BY <2>1, <2>2, <2>3, <2>4
<1>8. CASE ~ (d < DaysIn(y, m)) /\ m # 12
  <2>1. NextDay(date) = Date(y, m + 1, 1)
    BY <1>4, <1>8, SMTT(30) DEF NextDay, y, m
  <2>2. IsDate(Date(y, m + 1, 1)) /\ Date(y, m + 1, 1) \in Nat
    <3>1. DaysIn(y, m + 1) \in 28..31 /\ m + 1 \in 1..12 /\ m + 1 \in 0..99
      BY <1>1, <1>8, MonthLength
    <3>2. 1 \in 0..99 /\ 1 \in 1..DaysIn(y, m + 1)
      BY <3>1
    <3>. QED BY <1>1, <3>1, <3>2, DateIsDate, PartsOfDate
  <2>3. date < Date(y, m + 1, 1)
    BY <1>1, <1>2 DEF Date
  <2>4. ASSUME NEW e \in Nat, IsDate(e), date < e PROVE Date(y, m + 1, 1) <= e
    <3>1. PICK yy \in Nat, mm \in 1..12, dd \in 1..31 :
            e = Date(yy, mm, dd) /\ dd <= DaysIn(yy, mm)
      BY <1>5, <2>4
    <3>2. d = DaysIn(y, m) /\ d \in 28..31
      BY <1>1, <1>2, <1>8
    <3>3. ~ (yy = y /\ mm = m)
      <4>1. SUFFICES ASSUME yy = y, mm = m PROVE FALSE
        OBVIOUS
      <4>2. dd > d
        BY <1>1, <2>4, <3>1, <3>2, <4>1 DEF Date
      <4>3. DaysIn(yy, mm) = DaysIn(y, m)
        BY <4>1
      <4>. QED BY <3>1, <3>2, <4>2, <4>3
    <3>4. yy > y \/ (yy = y /\ mm > m)
      BY <1>1, <2>4, <3>1, <3>2, <3>3 DEF Date
    <3>. QED BY <1>1, <1>8, <3>1, <3>4 DEF Date
  <2>. QED BY <2>1, <2>2, <2>3, <2>4
<1>. QED BY <1>6, <1>7, <1>8

\* PreviousDay undoes NextDay, except before the first of all days, where it gives no
\* natural number.
THEOREM PreviousDayIsPrevious ==
  ASSUME NEW date \in Nat, IsDate(date)
  PROVE  /\ PreviousDay(date) \in Int /\ PreviousDay(date) < date
         /\ PreviousDay(date) >= 0 =>
              IsDate(PreviousDay(date)) /\ NextDay(PreviousDay(date)) = date
         /\ PreviousDay(date) < 0 => \A e \in Nat : IsDate(e) => date <= e
<1> DEFINE y == YearOf(date)
           m == MonthOf(date)
           d == DayOf(date)
<1>1. y \in Nat /\ m \in 1..12 /\ d \in 1..DaysIn(y, m) /\ date = Date(y, m, d)
  BY DateParts DEF IsDate
<1>2. DaysIn(y, m) \in 28..31 /\ d \in 1..31
  BY <1>1, MonthLength
<1>3. CASE d > 1
  <2>1. PreviousDay(date) = date - 1
    BY <1>3 DEF PreviousDay
  <2>2. date - 1 = Date(y, m, d - 1) /\ date - 1 + 1 = date /\ date - 1 \in Nat
    BY <1>1, <1>2, <1>3 DEF Date
  <2>3. d - 1 \in 1..DaysIn(y, m) /\ d - 1 \in 0..99 /\ m \in 0..99
    BY <1>1, <1>2, <1>3, SMTT(30)
  <2>4. IsDate(date - 1)
    BY <1>1, <2>2, <2>3, DateIsDate
  <2>5. NextDay(date - 1) = date
    BY <2>2 DEF NextDay
  <2>. QED BY <2>1, <2>2, <2>4, <2>5
<1>4. CASE d = 1 /\ m # 1
  <2> DEFINE last == DaysIn(y, m - 1)
  <2>1. /\ m - 1 \in 1..12 /\ m - 1 \in 0..99 /\ m - 1 # 12 /\ m - 1 + 1 = m
        /\ last \in 28..31 /\ last \in 1..last /\ last \in 0..99 /\ last + 1 \in 0..99
        /\ last + 1 \notin 1..last
    BY <1>1, <1>4, MonthLength
  <2> DEFINE before == Date(y, m - 1, last)
  <2>2. PreviousDay(date) = before
    BY <1>4, SMTT(30) DEF PreviousDay
  <2>3. /\ before \in Nat /\ YearOf(before) = y /\ MonthOf(before) = m - 1
        /\ DayOf(before) = last
    <3>. HIDE DEF y, m, last
    <3>1. y \in Nat /\ m - 1 \in 0..99 /\ last \in 0..99
      BY <1>1, <2>1
    <3>. QED BY <3>1, PartsOfDate, ZenonT(60)
  <2>8. IsDate(before)
    BY <1>1, <2>1, DateIsDate
  <2>4. before < date
    BY <1>1, <1>4, <2>1 DEF Date
  <2>5. before + 1 = Date(y, m - 1, last + 1)
    BY <1>1, <2>1, SMTT(30) DEF Date
  <2>6. ~ IsDate(before + 1)
    BY <1>1, <2>1, <2>5, DateIsDate
  <2>7. NextDay(before) = date
    BY <1>1, <1>4, <2>1, <2>3, <2>6 DEF NextDay
  <2>. QED BY <2>2, <2>3, <2>8, <2>4, <2>7
<1>5. CASE d = 1 /\ m = 1
  <2> DEFINE before == Date(y - 1, 12, 31)
  <2>1. PreviousDay(date) = before
    BY <1>5 DEF PreviousDay
  <2>2. before \in Int /\ before < date
    BY <1>1, <1>5 DEF Date
  <2>3. ASSUME before >= 0 PROVE IsDate(before) /\ NextDay(before) = date
    <3>1. y - 1 \in Nat /\ y - 1 + 1 = y
      BY <1>1, <2>3 DEF Date
    <3>2. /\ 31 \in 0..99 /\ 32 \in 0..99 /\ 12 \in 0..99 /\ 12 \in 1..12
          /\ 31 \in 1..DaysIn(y - 1, 12) /\ 32 \notin 1..DaysIn(y - 1, 12)
      BY SMTT(30) DEF DaysIn
    <3>3. YearOf(before) = y - 1 /\ MonthOf(before) = 12
      BY <3>1, <3>2, PartsOfDate, ZenonT(60)
    <3>6. IsDate(before)
      BY <3>1, <3>2, DateIsDate
    <3>4. before + 1 = Date(y - 1, 12, 32)
      BY <3>1 DEF Date
    <3>5. ~ IsDate(before + 1)
      BY <3>1, <3>2, <3>4, DateIsDate, ZenonT(60)
    <3>. QED BY <1>1, <1>5, <3>1, <3>3, <3>6, <3>5 DEF NextDay
  <2>4. ASSUME before < 0, NEW e \in Nat, IsDate(e) PROVE date <= e
    <3>1. y = 0
      BY <1>1, <2>4 DEF Date
    <3>2. date = 101
      BY <1>1, <1>5, <3>1 DEF Date
    <3>3. /\ YearOf(e) \in Nat /\ MonthOf(e) \in 1..12 /\ DayOf(e) \in Nat /\ DayOf(e) >= 1
          /\ e = Date(YearOf(e), MonthOf(e), DayOf(e))
      BY <2>4, DateParts DEF IsDate
    <3>4. e >= 101
      BY <3>3 DEF Date
    <3>. QED BY <2>4, <3>2, <3>4
  <2>. QED BY <2>1, <2>2, <2>3, <2>4
<1>. QED BY <1>1, <1>2, <1>3, <1>4, <1>5

-----------------------------------------------------------------------------
(* The days after a day.                                                   *)

\* f lists a day and the n days after it.
ListsDays(f, date, n) == f = [i \in 0..n |-> IF i = 0 THEN date ELSE NextDay(f[i - 1])]

\* There is such a list; the least number for which there were none would be one
\* more than one for which there is.
LEMMA DaysAreListed ==
  ASSUME NEW date, NEW n \in Nat
  PROVE  \E f : ListsDays(f, date, n)
<1> DEFINE without == {k \in Nat : ~ \E f : ListsDays(f, date, k)}
<1>1. SUFFICES ASSUME without # {} PROVE FALSE
  OBVIOUS
<1>2. PICK k \in without : \A j \in without : k <= j
  BY <1>1, MinIsLeast
<1>3. k \in Nat /\ ~ \E f : ListsDays(f, date, k)
  OBVIOUS
<1>4. k # 0
  <2>1. ListsDays([i \in 0..0 |-> date], date, 0)
    BY DEF ListsDays
  <2>. QED BY <1>3, <2>1
<1>5. k - 1 \in Nat /\ k - 1 \notin without
  BY <1>2, <1>3, <1>4
<1>6. PICK f : ListsDays(f, date, k - 1)
  BY <1>5
<1> DEFINE longer == [i \in 0..k |-> IF i = k THEN NextDay(f[k - 1]) ELSE f[i]]
<1>7. ListsDays(longer, date, k)
  <2>1. \A i \in 0..(k - 1) : longer[i] = f[i]
    BY <1>3
  <2>2. \A i \in 0..(k - 1) : f[i] = IF i = 0 THEN date ELSE NextDay(f[i - 1])
    BY <1>6 DEF ListsDays
  <2>3. longer[k] = NextDay(longer[k - 1])
    BY <1>3, <1>4
  <2>4. ASSUME NEW i \in 0..k
        PROVE  longer[i] = IF i = 0 THEN date ELSE NextDay(longer[i - 1])
    <3>1. CASE i = k
      BY <1>4, <2>3, <3>1
    <3>2. CASE i # k /\ i # 0
      <4>1. i \in 0..(k - 1) /\ i - 1 \in 0..(k - 1)
        BY <1>3, <3>2
      <4>2. longer[i] = f[i] /\ longer[i - 1] = f[i - 1]
        BY <2>1, <4>1
      <4>3. f[i] = NextDay(f[i - 1])
        BY <2>2, <3>2, <4>1
      <4>. QED BY <3>2, <4>2, <4>3
    <3>3. CASE i # k /\ i = 0
      <4>1. 0 \in 0..(k - 1)
        BY <1>3, <1>4
      <4>. QED BY <2>1, <2>2, <3>3, <4>1
    <3>. QED BY <3>1, <3>2, <3>3
  <2>5. longer = [i \in 0..k |-> longer[i]]
    OBVIOUS
  <2>. HIDE DEF longer
  <2>6. longer = [i \in 0..k |-> IF i = 0 THEN date ELSE NextDay(longer[i - 1])]
    BY <2>4, <2>5
  <2>. QED BY <2>6 DEF ListsDays
<1>. QED BY <1>3, <1>7

\* Every listed day is a day, and none is before the first.
LEMMA ListedAreDays ==
  ASSUME NEW date \in Nat, IsDate(date), NEW n \in Nat, NEW f, ListsDays(f, date, n)
  PROVE  \A i \in 0..n : f[i] \in Nat /\ IsDate(f[i]) /\ date <= f[i]
<1> DEFINE Good(i) == f[i] \in Nat /\ IsDate(f[i]) /\ date <= f[i]
           bad == {i \in 0..n : ~ Good(i)}
<1>1. SUFFICES ASSUME bad # {} PROVE FALSE
  OBVIOUS
<1>2. bad \in SUBSET Nat
  OBVIOUS
<1>3. PICK k \in bad : \A j \in bad : k <= j
  BY <1>1, <1>2, MinIsLeast
<1>4. \A i \in 0..n : f[i] = IF i = 0 THEN date ELSE NextDay(f[i - 1])
  BY DEF ListsDays
<1>5. k # 0
  BY <1>4
<1>6. k \in 0..n /\ k - 1 \in 0..n /\ k - 1 \notin bad
  BY <1>2, <1>3, <1>5
<1>7. Good(k - 1)
  BY <1>6
<1>8. f[k] = NextDay(f[k - 1])
  BY <1>4, <1>5, <1>6
<1>9. Good(k)
  BY <1>7, <1>8, NextDayIsNext
<1>. QED BY <1>9

\* AddDays, which DURATION is added with, gives a day that is not before the first.
THEOREM AddDaysIsLater ==
  ASSUME NEW date \in Nat, IsDate(date), NEW days \in Nat
  PROVE  AddDays(date, days) \in Nat /\ IsDate(AddDays(date, days)) /\ date <= AddDays(date, days)
<1> DEFINE day == CHOOSE f : ListsDays(f, date, days)
<1>1. ListsDays(day, date, days)
  BY DaysAreListed
<1>2. AddDays(date, days) = day[days]
  BY DEF AddDays, ListsDays
<1>. HIDE DEF day
<1>3. days \in 0..days
  OBVIOUS
<1>. QED BY <1>1, <1>2, <1>3, ListedAreDays

-----------------------------------------------------------------------------
(* The ranges of the adapters.                                             *)

\* A date value of a calendar, missing ones included; what follows the digits may
\* be anything.
IsIcsValue(value) == value.date \in Nat /\ value.timed \in BOOLEAN

\* LastDay is a day and not before the first: an exclusive DTEND counts as the day
\* before it, one that falls on a day as that day.
LEMMA LastDayIsLater ==
  ASSUME NEW start \in Nat, IsDate(start),
         NEW dtend, IsIcsValue(dtend), IsDate(dtend.date)
  PROVE  /\ IsDate(LastDay(start, dtend)) /\ start <= LastDay(start, dtend)
         /\ start < dtend.date =>
              IF dtend.timed THEN LastDay(start, dtend) = dtend.date
              ELSE LastDay(start, dtend) < dtend.date /\ NextDay(LastDay(start, dtend)) = dtend.date
<1>1. dtend.date \in Nat
  BY DEF IsIcsValue
<1> DEFINE before == PreviousDay(dtend.date)
<1>2. /\ before \in Int /\ before < dtend.date
      /\ before >= 0 => IsDate(before) /\ NextDay(before) = dtend.date
  BY <1>1, PreviousDayIsPrevious
<1>. HIDE DEF before
<1>3. CASE dtend.timed
  BY <1>1, <1>3 DEF LastDay
<1>4. CASE ~ dtend.timed
  <2>1. LastDay(start, dtend) = IF before < start THEN start ELSE before
    BY <1>4 DEF LastDay, before
  <2>2. ASSUME start < dtend.date PROVE start <= before
    <3>1. SUFFICES ASSUME before < start PROVE FALSE
      BY <1>2
    <3>2. CASE before >= 0
      <4>1. before \in Nat /\ IsDate(before) /\ NextDay(before) = dtend.date
        BY <1>2, <3>2
      <4>2. dtend.date <= start
        BY <3>1, <4>1, NextDayIsNext
      <4>. QED BY <1>1, <2>2, <4>2
    <3>3. CASE before < 0
      <4>1. dtend.date <= start
        BY <1>1, <3>3, PreviousDayIsPrevious DEF before
      <4>. QED BY <1>1, <2>2, <4>1
    <3>. QED BY <1>2, <3>2, <3>3
  <2>. QED BY <1>2, <1>4, <2>1, <2>2
<1>. QED BY <1>3, <1>4

\* A date value is read as the day that it says, or as nothing.
LEMMA IcsDateRead ==
  ASSUME NEW value, IsIcsValue(value), ParseIcsDate(value) # Unknown
  PROVE  ParseIcsDate(value) = OneDay(value.date) /\ IsDate(value.date)
BY DEF ParseIcsDate, Single

\* What DTSTART, DTEND and DURATION are read as is a period that begins on the day of
\* DTSTART, whichever of the two ends it and whatever they say.
THEOREM IcsRangeIsPeriod ==
  ASSUME NEW dtstart, NEW dtend, IsIcsValue(dtstart), IsIcsValue(dtend), NEW duration \in Int
  PROVE  LET date == ParseIcsDateRange(dtstart, dtend, duration)
         IN  /\ IsPeriod(date)
             /\ date = Unknown <=> ParseIcsDate(dtstart) = Unknown
             /\ date # Unknown => date.start = dtstart.date
<1> DEFINE start == ParseIcsDate(dtstart)
           end == ParseIcsDate(dtend)
           date == ParseIcsDateRange(dtstart, dtend, duration)
<1>1. CASE start = Unknown
  BY <1>1, SingleIsPeriod DEF ParseIcsDateRange
<1>2. CASE start # Unknown
  <2>1. start = OneDay(dtstart.date) /\ IsDate(dtstart.date) /\ dtstart.date \in Nat
    BY <1>2, IcsDateRead DEF IsIcsValue
  <2>2. start.start = dtstart.date /\ Unknown.start = None /\ dtstart.date # None
    BY <2>1, NoneIsNoDate DEF OneDay, Unknown
  <2>3. \A last : [start EXCEPT !.end = last]
                    = [start |-> dtstart.date, end |-> last, precision |-> "Day"]
    BY <2>1 DEF OneDay
  <2>4. ASSUME NEW last, IsDate(last), dtstart.date <= last,
               date = [start EXCEPT !.end = last]
        PROVE  IsPeriod(date) /\ date # Unknown /\ date.start = dtstart.date
    <3>1. date = [start |-> dtstart.date, end |-> last, precision |-> "Day"]
      BY <2>3, <2>4
    <3>2. date.start = dtstart.date /\ IsPeriod(date)
      BY <2>1, <2>4, <3>1, PutTogether
    <3>. QED BY <2>2, <3>2
  <2>5. CASE end # Unknown /\ end.start >= start.start
    <3>1. end = OneDay(dtend.date) /\ IsDate(dtend.date)
      BY <2>5, IcsDateRead
    <3>2. date = [start EXCEPT !.end = LastDay(start.start, dtend)]
      BY <1>2, <2>5 DEF ParseIcsDateRange
    <3>3. IsDate(LastDay(dtstart.date, dtend)) /\ dtstart.date <= LastDay(dtstart.date, dtend)
      BY <2>1, <3>1, LastDayIsLater
    <3>. QED BY <1>2, <2>2, <2>4, <3>2, <3>3
  <2>6. CASE ~ (end # Unknown /\ end.start >= start.start) /\ duration > 0
    <3>1. date = [start EXCEPT !.end = AddDays(start.start, duration - 1)]
      BY <1>2, <2>6 DEF ParseIcsDateRange
    <3>2. duration - 1 \in Nat
      BY <2>6
    <3>3. /\ IsDate(AddDays(dtstart.date, duration - 1))
          /\ dtstart.date <= AddDays(dtstart.date, duration - 1)
      BY <2>1, <3>2, AddDaysIsLater
    <3>. QED BY <1>2, <2>2, <2>4, <3>1, <3>3
  <2>7. CASE ~ (end # Unknown /\ end.start >= start.start) /\ ~ (duration > 0)
    <3>1. date = start
      BY <1>2, <2>7 DEF ParseIcsDateRange
    <3>. QED BY <1>2, <2>1, <2>2, <3>1, SingleIsPeriod
  <2>. QED BY <2>5, <2>6, <2>7
<1>. QED BY <1>1, <1>2

\* So is what startDate and endDate of a JSON-LD node are read as.
THEOREM JsonLdRangeIsPeriod ==
  ASSUME NEW node
  PROVE  LET date == ParseJsonLdDateRange(node)
         IN  IsPeriod(date) /\ (date = Unknown <=> ParseDate(node.start_date) = Unknown)
<1> DEFINE start == ParseDate(node.start_date)
           end == ParseDate(node.end_date)
<1>1. IsPeriod(start) /\ IsPeriod(end)
  BY ParsedIsPeriod DEF ParseDate
<1>2. CASE start # Unknown /\ end # Unknown /\ end.start >= start.start
  <2>1. ParseJsonLdDateRange(node) = [start EXCEPT !.end = end.start]
    BY <1>2 DEF ParseJsonLdDateRange
  <2>2. IsDate(start.start) /\ IsDate(end.start) /\ start.start <= end.start
    BY <1>1, <1>2 DEF IsPeriod
  <2>3. PICK s, e, p : start = [start |-> s, end |-> e, precision |-> p]
    BY <1>1 DEF IsPeriod
  <2>4. /\ start.start = s
        /\ [start EXCEPT !.end = end.start] = [start |-> s, end |-> end.start, precision |-> p]
    BY <2>3
  <2>5. IsPeriod(ParseJsonLdDateRange(node))
    BY <2>1, <2>2, <2>4, PutTogether
  <2>6. ParseJsonLdDateRange(node).start = s /\ s # None /\ Unknown.start = None
    BY <2>1, <2>2, <2>4, NoneIsNoDate DEF Unknown
  <2>. QED BY <1>2, <2>5, <2>6
<1>. QED BY <1>1, <1>2 DEF ParseJsonLdDateRange

-----------------------------------------------------------------------------
(* Dates without a year.                                                   *)

\* A text that a pattern without year reads, with months and days as the tokens'
\* regular expressions bound them.
IsYearless(text) ==
  /\ text \in Seq([k : {"D", "Y", "M", "I", "H", "-", "/", "to"}, n : Nat])
  /\ \E p \in YearlessPatterns : Matches(text, p)
  /\ \A i \in DOMAIN text : text[i].k \in {"D", "M"} => text[i].n \in 0..99

\* The largest of some places is one of them.
LEMMA LastPlace ==
  ASSUME NEW n \in Nat, NEW S \in SUBSET (1..n), S # {}
  PROVE  Max(S) \in S
<1> DEFINE mirrored == {n - i : i \in S}
<1>1. mirrored \in SUBSET Nat /\ mirrored # {}
  <2>1. \A i \in S : i \in 1..n /\ n - i \in Nat
    OBVIOUS
  <2>2. PICK i : i \in S
    OBVIOUS
  <2>. QED BY <2>1, <2>2
<1>2. PICK least \in mirrored : \A j \in mirrored : least <= j
  BY <1>1, MinIsLeast
<1>3. PICK i \in S : least = n - i
  OBVIOUS
<1>4. \A j \in S : j <= i
  BY <1>2, <1>3
<1>. QED BY <1>3, <1>4 DEF Max

\* The tokens of such a text stand where a pattern of days, months and dashes has them.
LEMMA YearlessTokens ==
  ASSUME NEW text, IsYearless(text)
  PROVE  /\ DOMAIN text = 1..Len(text) /\ Len(text) \in Nat /\ Len(text) >= 2
         /\ \E p \in YearlessPatterns : Matches(text, p)
         /\ \A i \in 1..Len(text) : text[i].k \in {"D", "M", "-"}
         /\ \E i \in 1..Len(text) : text[i].k = "D"
         /\ \E i \in 1..Len(text) : text[i].k = "M"
         /\ text[1].k \in {"D", "M"}
<1>1. DOMAIN text = 1..Len(text) /\ Len(text) \in Nat
  BY DEF IsYearless
<1>2. PICK p \in YearlessPatterns : Matches(text, p)
  BY DEF IsYearless
<1>3. /\ Len(p) >= 2 /\ p[1] \in {"D", "M"}
      /\ \A i \in 1..Len(p) : p[i] \in {"D", "M", "-"} /\ p[i] # "~"
      /\ \E i \in 1..Len(p) : p[i] = "D"
      /\ \E i \in 1..Len(p) : p[i] = "M"
  <2>1. Len(p) >= 2 /\ p[1] \in {"D", "M"}
    BY DEF YearlessPatterns
  <2>2. \A i \in 1..Len(p) : p[i] \in {"D", "M", "-"} /\ p[i] # "~"
    BY DEF YearlessPatterns
  <2>3. \E i \in 1..Len(p) : p[i] = "D"
    BY DEF YearlessPatterns
  <2>4. \E i \in 1..Len(p) : p[i] = "M"
    BY DEF YearlessPatterns
  <2>. QED BY <2>1, <2>2, <2>3, <2>4
<1>4. Len(text) = Len(p) /\ \A i \in 1..Len(text) : text[i].k = p[i]
  BY <1>1, <1>2, <1>3 DEF Matches
<1>5. 1 \in 1..Len(text)
  BY <1>1, <1>3, <1>4
<1>. QED BY <1>1, <1>2, <1>3, <1>4, <1>5

\* Such a text has a first and a last day and month, all of two digits.
LEMMA YearlessNumbers ==
  ASSUME NEW text, IsYearless(text)
  PROVE  \A kind \in {"D", "M"} :
           FirstNumber(text, kind) \in 0..99 /\ LastNumber(text, kind) \in 0..99
<1>. SUFFICES ASSUME NEW kind \in {"D", "M"}
              PROVE  FirstNumber(text, kind) \in 0..99 /\ LastNumber(text, kind) \in 0..99
  OBVIOUS
<1> DEFINE places == Numbers(text, kind)
<1>1. places \in SUBSET (1..Len(text)) /\ places \in SUBSET Nat /\ Len(text) \in Nat
  BY DEF IsYearless, Numbers
<1>2. places # {}
  BY YearlessTokens DEF Numbers
<1>3. Min(places) \in places
  BY <1>1, <1>2, MinIsLeast
<1>4. Max(places) \in places
  BY <1>1, <1>2, LastPlace
<1>. QED BY <1>3, <1>4 DEF FirstNumber, LastNumber, Numbers, IsYearless

\* No other pattern reads such a text: it takes its year from the reader.
LEMMA YearlessRead ==
  ASSUME NEW text, IsYearless(text), NEW year \in Nat
  PROVE  ParseDateInner(text, year) = IF year = None THEN Unknown ELSE YearlessMatch(text, year)
<1>1. /\ DOMAIN text = 1..Len(text) /\ Len(text) >= 2 /\ Len(text) \in Nat
      /\ \E p \in YearlessPatterns : Matches(text, p)
      /\ \A i \in 1..Len(text) : text[i].k \in {"D", "M", "-"}
  BY YearlessTokens
<1>2. 1 \in DOMAIN text /\ text # <<>> /\ text[1].k # "I"
  BY <1>1
<1>3. ~ \E q \in IsoPatterns : Matches(text, q)
  <2>1. \A q \in IsoPatterns : q[1] = "I"
    BY DEF IsoPatterns
  <2>. QED BY <1>1, <1>2, <2>1 DEF Matches
<1>4. ~ \E q \in DatedPatterns : Matches(text, q)
  <2>1. \A q \in DatedPatterns : \E i \in 1..Len(q) : q[i] = "Y"
    BY SMTT(30) DEF DatedPatterns
  <2>. QED BY <1>1, <2>1 DEF Matches
<1>. QED BY <1>1, <1>2, <1>3, <1>4 DEF ParseDateInner

\* What such a text says of a year lies in that year, unless it runs over its turn.
LEMMA YearlessInYear ==
  ASSUME NEW text, IsYearless(text), ~ TurnsYear(text), NEW year \in Nat,
         ParseDateInner(text, year) # Unknown
  PROVE  LET date == ParseDateInner(text, year)
         IN  /\ date.start \in Nat /\ YearOf(date.start) = year
             /\ Latest(date) \in Nat
             /\ 10000 * year <= Latest(date) /\ Latest(date) < 10000 * (year + 1)
<1> DEFINE date == ParseDateInner(text, year)
           first == Date(year, FirstNumber(text, "M"), FirstNumber(text, "D"))
           last == Date(year, LastNumber(text, "M"), LastNumber(text, "D"))
<1>1. /\ FirstNumber(text, "M") \in 0..99 /\ FirstNumber(text, "D") \in 0..99
      /\ LastNumber(text, "M") \in 0..99 /\ LastNumber(text, "D") \in 0..99
  BY YearlessNumbers
<1>2. first \in Nat /\ last \in Nat /\ YearOf(first) = year
  BY <1>1, PartsOfDate, ZenonT(60)
<1>3. /\ 10000 * year <= first /\ first < 10000 * (year + 1)
      /\ 10000 * year <= last /\ last < 10000 * (year + 1)
  <2>1. ASSUME NEW m \in 0..99, NEW d \in 0..99
        PROVE  10000 * year <= Date(year, m, d) /\ Date(year, m, d) < 10000 * (year + 1)
    BY <2>1, SMTT(60) DEF Date
  <2>2. 10000 * year <= first /\ first < 10000 * (year + 1)
    BY <1>1, <2>1, SMTT(60)
  <2>3. 10000 * year <= last /\ last < 10000 * (year + 1)
    BY <1>1, <2>1, SMTT(60)
  <2>. QED BY <2>2, <2>3
<1>4. date = IF OneDayOnly(text) THEN Single(first) ELSE Between(first, last)
  BY YearlessRead DEF YearlessMatch
<1>. HIDE DEF first, last, date
<1>5. CASE date = OneDay(first)
  <2>1. date.start = first /\ date.end = None
    BY <1>5 DEF OneDay
  <2>. QED BY <1>2, <1>3, <2>1 DEF Latest, date
<1>6. CASE date = [start |-> first, end |-> last, precision |-> "Range"] /\ IsDate(last)
  <2>1. date.start = first /\ date.end = last
    BY <1>6
  <2>2. last # None
    BY <1>6, NoneIsNoDate
  <2>. QED BY <1>2, <1>3, <2>1, <2>2 DEF Latest, date
<1>7. date # Unknown
  BY DEF date
<1>. QED BY <1>4, <1>5, <1>6, <1>7 DEF Single, Between

\* On a page read on the day `today`, such a text is dated the next time that it comes
\* round: it is not over, unless the next year lacks that day, and a year earlier it
\* is over.  An event that is still running is not moved.
THEOREM ListDateIsNext ==
  ASSUME NEW text, IsYearless(text), ~ TurnsYear(text), NEW today \in Nat, IsDate(today),
         ParseWithReference(text, today) # Unknown
  PROVE  LET date == ParseWithReference(text, today)
         IN  /\ \/ Latest(date) >= today
                \/ ParseDateInner(text, YearOf(today) + 1) = Unknown
             /\ YearOf(date.start) >= 1
             /\ Latest(ParseDateInner(text, YearOf(date.start) - 1)) < today
<1> DEFINE year == YearOf(today)
           date == ParseWithReference(text, today)
           In(y) == ParseDateInner(text, y)
<1>. SUFFICES /\ Latest(date) >= today \/ In(year + 1) = Unknown
              /\ YearOf(date.start) >= 1
              /\ Latest(In(YearOf(date.start) - 1)) < today
  OBVIOUS
<1>1. year \in Nat /\ 10000 * year <= today /\ today < 10000 * (year + 1) /\ today > 0
  <2>1. /\ YearOf(today) \in Nat /\ MonthOf(today) \in 1..12 /\ DayOf(today) \in 0..99
        /\ today = Date(YearOf(today), MonthOf(today), DayOf(today))
    BY DateParts DEF IsDate
  <2>. QED BY <2>1 DEF Date
<1>2. date = NextTime(In(year), In(year + 1), today)
  BY DEF ParseWithReference
<1>3. Latest(Unknown) = None
  BY DEF Latest, Unknown
<1>4. In(year) # Unknown /\ year # 0
  <2>1. In(year) # Unknown
    BY <1>2 DEF NextTime
  <2>2. year # None
    BY <1>1, <2>1, YearlessRead
  <2>. QED BY <2>1, <2>2 DEF None
<1>5. /\ YearOf(In(year).start) = year
      /\ Latest(In(year)) \in Nat /\ Latest(In(year)) < 10000 * (year + 1)
  BY <1>1, <1>4, YearlessInYear
<1>. HIDE DEF year, date, In
<1>6. CASE date = In(year) /\ (Latest(In(year)) >= today \/ In(year + 1) = Unknown)
  <2>1. year - 1 \in Nat
    BY <1>1, <1>4
  <2>2. Latest(In(year - 1)) < today
    <3>1. CASE In(year - 1) = Unknown
      BY <1>1, <1>3, <3>1 DEF None
    <3>2. CASE In(year - 1) # Unknown
      <4>1. Latest(In(year - 1)) \in Nat /\ Latest(In(year - 1)) < 10000 * (year - 1 + 1)
        BY <2>1, <3>2, YearlessInYear DEF In
      <4>. QED BY <1>1, <4>1
    <3>. QED BY <3>1, <3>2
  <2>. QED BY <1>1, <1>4, <1>5, <1>6, <2>2
<1>7. CASE date = In(year + 1) /\ In(year + 1) # Unknown /\ ~ (Latest(In(year)) >= today)
  <2>1. /\ YearOf(In(year + 1).start) = year + 1
        /\ Latest(In(year + 1)) \in Nat /\ 10000 * (year + 1) <= Latest(In(year + 1))
    BY <1>1, <1>7, YearlessInYear DEF In
  <2>2. Latest(In(year)) < today
    BY <1>1, <1>5, <1>7
  <2>3. year + 1 - 1 = year /\ year + 1 >= 1 /\ Latest(In(year + 1)) >= today
    BY <1>1, <2>1
  <2>4. YearOf(date.start) = year + 1
    BY <1>7, <2>1
  <2>5. YearOf(date.start) - 1 = year /\ YearOf(date.start) >= 1
    BY <1>1, <2>4
  <2>6. Latest(In(YearOf(date.start) - 1)) < today
    BY ONLY <2>2, <2>5
  <2>7. Latest(date) >= today
    BY <1>7, <2>3
  <2>. QED BY <2>5, <2>6, <2>7
<1>. QED BY <1>2, <1>4, <1>6, <1>7 DEF NextTime

-----------------------------------------------------------------------------
(* From documents to dated candidates.                                     *)

\* A list of stubs, each dated by a period.
AreDated(list) == IsList(list) /\ \A i \in DOMAIN list : IsPeriod(list[i].date_hint)

\* A sequence in the sense of the library is a list.
LEMMA SeqIsList ==
  ASSUME NEW s, s \in Seq(ToSet(s))
  PROVE  IsList(s) /\ \A i \in DOMAIN s : s[i] \in ToSet(s)
<1>1. Len(s) \in Nat /\ s \in [1..Len(s) -> ToSet(s)]
  BY LenProperties
<1>2. s = [i \in 1..Len(s) |-> s[i]]
  BY <1>1
<1> QED BY <1>1, <1>2 DEF IsList

\* What is picked from a list is a list of its elements.
LEMMA PickedList ==
  ASSUME NEW s, IsList(s), NEW P \in SUBSET DOMAIN s
  PROVE  /\ IsList(Picked(s, P))
         /\ \A k \in DOMAIN Picked(s, P) : \E i \in P : Picked(s, P)[k] = s[i]
<1> DEFINE n == Len(s)
           picked == Picked(s, P)
           c == Cardinality(P)
<1>1. n \in Nat /\ DOMAIN s = 1..n
  BY ListFacts
<1>2. P \in SUBSET Nat /\ IsFiniteSet(P)
  <2>1. P \in SUBSET (1..n)
    BY <1>1
  <2>2. IsFiniteSet(1..n)
    BY <1>1, FS_Interval
  <2> QED BY <2>1, <2>2, FS_Subset
<1>3. /\ picked = [k \in 1..c |-> picked[k]] /\ c \in Nat
      /\ \A k \in 1..c : \E i \in P : picked[k] = s[i]
  BY <1>2, PickedSeq
<1> HIDE DEF picked, c
<1>4. DOMAIN picked = 1..c
  BY <1>3
<1> QED BY <1>3, <1>4 DEF IsList, picked

\* A cap keeps a list of dated stubs one.
LEMMA HeadIsDated ==
  ASSUME NEW list, AreDated(list), NEW k \in 0..Len(list)
  PROVE  AreDated(SubSeq(list, 1, k))
<1> DEFINE head == SubSeq(list, 1, k)
<1>1. /\ list \in Seq(ToSet(list)) /\ Len(list) \in Nat /\ DOMAIN list = 1..Len(list)
      /\ list = [i \in 1..Len(list) |-> list[i]]
  BY ListFacts DEF AreDated
<1>2. /\ head = [i \in 1..k |-> list[i]] /\ k \in Nat
      /\ \A i \in 1..k : i \in DOMAIN list
  BY <1>1
<1> HIDE DEF head
<1>3. DOMAIN head = 1..k /\ \A i \in 1..k : head[i] = list[i]
  BY <1>2
<1>4. IsList(head)
  <2>1. head = [i \in 1..k |-> head[i]]
    BY <1>2, <1>3
  <2> QED BY <1>2, <2>1 DEF IsList
<1> QED BY <1>2, <1>3, <1>4 DEF AreDated, head

LEMMA BoundIsDated ==
  ASSUME NEW list, AreDated(list)
  PROVE  AreDated(Bound(list))
<1> DEFINE k == IF Len(list) <= MaxStubs THEN Len(list) ELSE MaxStubs + 1
<1>1. Len(list) \in Nat
  BY ListFacts DEF AreDated
<1>2. k \in 0..Len(list)
  BY <1>1, SourceAssumption
<1> HIDE DEF k
<1>3. AreDated(SubSeq(list, 1, k))
  BY <1>2, HeadIsDated
<1> QED BY <1>3 DEF Bound, k

\* A list of stubs made one by one is dated if each of them is.
LEMMA MappedIsDated ==
  ASSUME NEW items, IsList(items), NEW list,
         list = [i \in DOMAIN items |-> list[i]],
         \A i \in DOMAIN items : IsPeriod(list[i].date_hint)
  PROVE  AreDated(list)
<1>1. Len(items) \in Nat /\ DOMAIN items = 1..Len(items)
  BY ListFacts
<1>2. IsList(list)
  BY <1>1 DEF IsList
<1>3. DOMAIN list = DOMAIN items
  OBVIOUS
<1> QED BY <1>2, <1>3 DEF AreDated

\* What a stub and an event are dated is what they are given.
LEMMA DatesGiven ==
  ASSUME NEW title, NEW url, NEW date, NEW native, NEW source_url, NEW evidence
  PROVE  Stub(title, url, date, native, source_url, evidence).date_hint = date
BY DEF Stub

LEMMA EventDate ==
  ASSUME NEW stub, NEW title, NEW type, NEW status, NEW date, NEW location, NEW description,
         NEW people, NEW talks, NEW media, NEW access, NEW online
  PROVE  BuildEvent(stub, title, type, status, date, location, description, people, talks, media,
                    access, online).date = date
BY DEF BuildEvent

\* The first date of a selected element is a period.
LEMMA ElementDateIsPeriod ==
  ASSUME NEW element, NEW today
  PROVE  IsPeriod(ElementDate(element, today))
<1> DEFINE parse(t) == IF today = None THEN ParseDate(t) ELSE ParseWithReference(t, today)
           a == ParseDate(element.datetime)
           b == parse(element.direct)
           c == parse(element.all)
           dates == <<a, b, c>>
           P == {i \in 1..3 : dates[i] # Unknown}
           known == SelectInSeq(dates, LAMBDA d : d # Unknown)
<1>1. IsPeriod(a) /\ IsPeriod(b) /\ IsPeriod(c)
  BY ParsedIsPeriod, ReferencedIsPeriod DEF ParseDate
<1> HIDE DEF a, b, c
<1>2. Len(dates) = 3 /\ \A i \in 1..3 : IsPeriod(dates[i])
  BY <1>1
<1>3. known = 0 \/ known \in 1..3
  <2>1. known = IF P # {} THEN Min(P) ELSE 0
    BY <1>2 DEF SelectInSeq
  <2>2. P \in SUBSET (1..3)
    OBVIOUS
  <2> HIDE DEF P, known
  <2> QED BY <2>1, <2>2, FirstPosition
<1>4. IsPeriod(FirstDate(dates))
  <2>1. IsPeriod(Unknown)
    BY SingleIsPeriod
  <2>2. FirstDate(dates) = IF known = 0 THEN Unknown ELSE dates[known]
    BY DEF FirstDate
  <2> HIDE DEF known, dates
  <2> QED BY <1>2, <1>3, <2>1, <2>2
<1>5. ElementDate(element, today) = FirstDate(dates)
  BY DEF ElementDate, a, b, c
<1> QED BY <1>4, <1>5

\* A feed's entries are dated by their time stamps.
LEMMA FeedIsDated ==
  ASSUME NEW src, src.adapter = "rss", WellParsed(src)
  PROVE  AreDated(FeedDiscover(src.document))
<1> DEFINE feed == src.document
           P == {i \in DOMAIN feed.entries : EntryUsable(feed, feed.entries[i])}
           entries == Picked(feed.entries, P)
           found == [i \in DOMAIN entries |->
                       Stub(entries[i].title, Join(feed.url, EntryLinks(entries[i])[1].href),
                            EntryDate(entries[i]), entries[i].id, feed.url, Blank)]
<1>1. /\ IsList(feed.entries)
      /\ \A i \in DOMAIN feed.entries :
           LET e == feed.entries[i]
           IN  (e.published = None \/ IsDate(e.published)) /\ (e.updated = None \/ IsDate(e.updated))
  <2>1. /\ feed.entries \in Seq(ToSet(feed.entries))
        /\ \A e \in ToSet(feed.entries) :
             (e.published = None \/ IsDate(e.published)) /\ (e.updated = None \/ IsDate(e.updated))
    BY DEF WellParsed
  <2> QED BY <2>1, SeqIsList
<1>2. /\ IsList(entries)
      /\ \A k \in DOMAIN entries : \E i \in DOMAIN feed.entries : entries[k] = feed.entries[i]
  <2>1. P \in SUBSET DOMAIN feed.entries
    OBVIOUS
  <2> HIDE DEF P, feed
  <2> QED BY <1>1, <2>1, PickedList
<1> HIDE DEF entries
<1>3. ASSUME NEW k \in DOMAIN entries
      PROVE  IsPeriod(EntryDate(entries[k]))
  <2>1. PICK i \in DOMAIN feed.entries : entries[k] = feed.entries[i]
    BY <1>2
  <2>2. \A at : at = None \/ IsDate(at) => IsPeriod(IF at = None THEN Unknown ELSE OneDay(at))
    BY SingleIsPeriod
  <2>3. /\ entries[k].published = None \/ IsDate(entries[k].published)
        /\ entries[k].updated = None \/ IsDate(entries[k].updated)
    BY <1>1, <2>1
  <2> QED BY <2>2, <2>3 DEF EntryDate
<1>4. \A k \in DOMAIN entries : found[k].date_hint = EntryDate(entries[k])
  BY DatesGiven
<1>5. found = [k \in DOMAIN entries |-> found[k]]
  OBVIOUS
<1> HIDE DEF found
<1>6. AreDated(found)
  BY <1>2, <1>3, <1>4, <1>5, MappedIsDated
<1>7. FeedDiscover(feed) = Bound(found)
  BY DEF FeedDiscover, Filtered, found, entries
<1> QED BY <1>6, <1>7, BoundIsDated

\* Links are not dated.
LEMMA GenericIsDated ==
  ASSUME NEW list, IsList(list.anchors)
  PROVE  AreDated(GenericDiscover(list))
<1> DEFINE P == {i \in DOMAIN list.anchors : IsEventLink(list, list.anchors[i])}
           links == Picked(list.anchors, P)
           found == [i \in DOMAIN links |->
                       Stub(links[i].text, Join(list.url, links[i].href), Unknown, NoNative,
                            list.url, links[i].text)]
<1>1. IsList(links)
  <2>1. P \in SUBSET DOMAIN list.anchors
    OBVIOUS
  <2> HIDE DEF P
  <2> QED BY <2>1, PickedList
<1> HIDE DEF links
<1>2. \A k \in DOMAIN links : IsPeriod(found[k].date_hint)
  BY DatesGiven, SingleIsPeriod
<1>3. found = [k \in DOMAIN links |-> found[k]]
  OBVIOUS
<1> HIDE DEF found
<1>4. AreDated(found)
  BY <1>1, <1>2, <1>3, MappedIsDated
<1>5. GenericDiscover(list) = Bound(found)
  BY DEF GenericDiscover, Filtered, found, links
<1> QED BY <1>4, <1>5, BoundIsDated

\* The links of a configured list are a list.
LEMMA LinksAreList ==
  ASSUME NEW src, src.adapter = "html_config", WellParsed(src)
  PROVE  IsList(ListLinks(src.document))
<1> DEFINE containers == src.document.containers
           n == Len(containers)
           seqs == [c \in DOMAIN containers |->
                      [k \in DOMAIN containers[c].links |->
                         [container |-> containers[c], link |-> containers[c].links[k]]]]
<1>1. /\ containers \in Seq(ToSet(containers))
      /\ \A c \in ToSet(containers) : c.links \in Seq(ToSet(c.links))
  BY DEF WellParsed
<1>2. n \in Nat /\ DOMAIN containers = 1..n /\ \A c \in 1..n : IsList(containers[c].links)
  <2>1. IsList(containers) /\ \A c \in DOMAIN containers : containers[c] \in ToSet(containers)
    BY <1>1, SeqIsList
  <2>2. n \in Nat /\ DOMAIN containers = 1..n
    BY <2>1, ListFacts
  <2> QED BY <1>1, <2>1, <2>2, SeqIsList
<1> HIDE DEF n
<1>3. ASSUME NEW c \in 1..n
      PROVE  seqs[c] \in Seq(ToSet(seqs[c]))
  <2> DEFINE links == containers[c].links
             s == [k \in DOMAIN links |-> [container |-> containers[c], link |-> links[k]]]
  <2>1. Len(links) \in Nat /\ DOMAIN links = 1..Len(links)
    BY <1>2, ListFacts
  <2>2. seqs[c] = s
    BY <1>2
  <2>3. s = [k \in 1..Len(links) |-> s[k]]
    BY <2>1
  <2> HIDE DEF s, links, seqs, containers
  <2> QED BY <2>1, <2>2, <2>3, IndexedSeq
<1>4. seqs = [c \in 1..n |-> seqs[c]]
  BY <1>2
<1>5. ListLinks(src.document) = FlattenSeq(seqs)
  BY DEF ListLinks
<1> HIDE DEF seqs, containers
<1>6. FlattenSeq(seqs) \in Seq(ToSet(FlattenSeq(seqs)))
  BY <1>2, <1>3, <1>4, FlatElements DEF AreLists
<1> QED BY <1>5, <1>6, SeqIsList

\* The dates of a configured list are read from the elements that its selectors find.
LEMMA ConfigIsDated ==
  ASSUME NEW src, src.adapter = "html_config", WellParsed(src), NEW selectors
  PROVE  AreDated(ConfigDiscover(src.document, selectors))
<1> DEFINE list == src.document
           all == ListLinks(list)
           P == {i \in DOMAIN all : all[i].link.href.kind # "none"
                                    /\ IsHttpUrl(Join(list.url, all[i].link.href))}
           usable == Picked(all, P)
           built == [i \in DOMAIN usable |-> ConfigStub(list, selectors, usable[i])]
           Q == {i \in DOMAIN built : /\ \A j \in 1..(i - 1) : built[j].url # built[i].url
                                      /\ built[i].title # Blank}
           titled == Picked(built, Q)
<1>1. IsList(all)
  BY LinksAreList
<1> HIDE DEF all
<1>2. IsList(usable)
  <2>1. P \in SUBSET DOMAIN all
    OBVIOUS
  <2> HIDE DEF P
  <2> QED BY <1>1, <2>1, PickedList
<1> HIDE DEF usable
<1>3. \A item : IsPeriod(ConfigStub(list, selectors, item).date_hint)
  BY ElementDateIsPeriod, SingleIsPeriod, DatesGiven DEF ConfigStub
<1>4. AreDated(built)
  <2>1. \A i \in DOMAIN usable : IsPeriod(built[i].date_hint)
    BY <1>3
  <2>2. built = [i \in DOMAIN usable |-> built[i]]
    OBVIOUS
  <2> HIDE DEF built
  <2> QED BY <1>2, <2>1, <2>2, MappedIsDated
<1>5. ConfigDiscover(list, selectors) = Bound(FirstTitled(built))
  BY DEF ConfigDiscover, Filtered, usable, all
<1> HIDE DEF built
<1>6. FirstTitled(built) = titled
  BY DEF FirstTitled
<1>7. Q \in SUBSET DOMAIN built
  OBVIOUS
<1> HIDE DEF Q
<1>8. AreDated(titled)
  BY <1>4, <1>7, PickedList DEF AreDated
<1> HIDE DEF titled
<1> QED BY <1>5, <1>6, <1>8, BoundIsDated

\* The entries of a calendar are dated by their values.
LEMMA CalendarIsDated ==
  ASSUME NEW src, src.adapter = "ics", WellParsed(src)
  PROVE  AreDated(IcsDiscover(src.document))
<1> DEFINE calendar == src.document
           components == calendar.components
           P == {i \in DOMAIN components : components[i].name = "VEVENT"}
           entries == Vevents(calendar)
           numbers == [i \in DOMAIN entries |-> i - 1]
           Q == {i \in DOMAIN numbers : entries[numbers[i] + 1].summary # Blank}
           ordinals == Picked(numbers, Q)
           found == [k \in DOMAIN ordinals |-> IcsStub(calendar, ordinals[k])]
<1>1. /\ IsList(components)
      /\ \A i \in P : LET c == components[i]
                      IN  IsIcsValue(c.dtstart) /\ IsIcsValue(c.dtend) /\ c.duration \in Int
  <2>1. /\ components \in Seq(ToSet(components))
        /\ \A c \in ToSet(components) : c.name = "VEVENT" =>
             IsIcsValue(c.dtstart) /\ IsIcsValue(c.dtend) /\ c.duration \in Int
    BY DEF WellParsed, IsIcsValue
  <2> QED BY <2>1, SeqIsList
<1>2. entries = Picked(components, P)
  BY DEF Vevents, Filtered
<1>3. IsList(entries) /\ \A k \in DOMAIN entries : \E i \in P : entries[k] = components[i]
  <2>1. P \in SUBSET DOMAIN components
    OBVIOUS
  <2> HIDE DEF P, entries, components
  <2> QED BY <1>1, <1>2, <2>1, PickedList
<1> HIDE DEF P, entries, components
<1>4. \A n \in DOMAIN entries : n \in Nat
  BY <1>3, ListFacts
<1>5. IsList(ordinals) /\ \A k \in DOMAIN ordinals : \E n \in DOMAIN entries : ordinals[k] = n - 1
  <2>1. Q \in SUBSET DOMAIN numbers /\ DOMAIN numbers = DOMAIN entries
    OBVIOUS
  <2>2. IsList(numbers)
    <3>1. Len(entries) \in Nat /\ DOMAIN entries = 1..Len(entries)
      BY <1>3, ListFacts
    <3>2. numbers = [i \in 1..Len(entries) |-> numbers[i]]
      BY <3>1
    <3> HIDE DEF numbers
    <3> QED BY <3>1, <3>2 DEF IsList
  <2>3. \A n \in DOMAIN entries : numbers[n] = n - 1
    OBVIOUS
  <2> HIDE DEF Q, numbers
  <2> QED BY <2>1, <2>2, <2>3, PickedList
<1> HIDE DEF ordinals
<1>6. ASSUME NEW n \in DOMAIN entries
      PROVE  IsPeriod(IcsStub(calendar, n - 1).date_hint)
  <2> DEFINE e == entries[n]
  <2>1. IsIcsValue(e.dtstart) /\ IsIcsValue(e.dtend) /\ e.duration \in Int
    <3>1. PICK i \in P : entries[n] = components[i]
      BY <1>3
    <3> QED BY <1>1, <3>1
  <2>2. n - 1 + 1 = n
    BY <1>4
  <2>3. IcsStub(calendar, n - 1).date_hint = ParseIcsDateRange(e.dtstart, e.dtend, e.duration)
    BY <2>2, DatesGiven DEF IcsStub, entries
  <2> HIDE DEF e
  <2>4. IsPeriod(ParseIcsDateRange(e.dtstart, e.dtend, e.duration))
    BY <2>1, IcsRangeIsPeriod
  <2> QED BY <2>3, <2>4
<1>7. \A k \in DOMAIN ordinals : IsPeriod(found[k].date_hint)
  BY <1>5, <1>6
<1>8. found = [k \in DOMAIN ordinals |-> found[k]]
  OBVIOUS
<1> HIDE DEF found
<1>9. AreDated(found)
  BY <1>5, <1>7, <1>8, MappedIsDated
<1>10. IcsDiscover(calendar) = Bound(found)
  BY DEF IcsDiscover, Filtered, found, ordinals, numbers, entries
<1> QED BY <1>9, <1>10, BoundIsDated

\* The event nodes of a document are a list.
LEMMA NodesAreList ==
  ASSUME NEW src, src.adapter = "json_ld", WellParsed(src)
  PROVE  IsList(EventNodes(src.document))
<1> DEFINE blocks == src.document.blocks
           n == Len(blocks)
           seqs == [b \in DOMAIN blocks |-> FindEvents(blocks[b])]
<1>1. /\ blocks \in Seq(ToSet(blocks))
      /\ \A b \in ToSet(blocks) : b.items \in Seq(ToSet(b.items))
  BY DEF WellParsed
<1>2. /\ n \in Nat /\ DOMAIN blocks = 1..n
      /\ \A b \in 1..n : IsList(blocks[b].items)
  <2>1. IsList(blocks) /\ \A b \in DOMAIN blocks : blocks[b] \in ToSet(blocks)
    BY <1>1, SeqIsList
  <2>2. n \in Nat /\ DOMAIN blocks = 1..n
    BY <2>1, ListFacts
  <2> QED BY <1>1, <2>1, <2>2, SeqIsList
<1> HIDE DEF n
<1>3. ASSUME NEW block, IsList(block.items)
      PROVE  IsList(FindEvents(block))
  <2> DEFINE P == {i \in DOMAIN block.items : IsEventType(block.items[i])}
  <2>1. P \in SUBSET DOMAIN block.items
    OBVIOUS
  <2> HIDE DEF P
  <2>2. IsList(Picked(block.items, P))
    BY <1>3, <2>1, PickedList
  <2>3. IsList(<<>>) /\ IsList(<<block.items[1]>>)
    <3>1. <<>> = [i \in 1..0 |-> <<>>[i]] /\ <<block.items[1]>> = [i \in 1..1 |-> <<block.items[1]>>[i]]
      OBVIOUS
    <3> QED BY <3>1 DEF IsList
  <2>4. \/ FindEvents(block) = <<>>
        \/ FindEvents(block) = <<block.items[1]>>
        \/ FindEvents(block) = Picked(block.items, P)
    BY DEF FindEvents, Filtered, P
  <2> QED BY <2>2, <2>3, <2>4
<1>4. \A b \in 1..n : seqs[b] \in Seq(ToSet(seqs[b]))
  <2>1. \A b \in 1..n : IsList(seqs[b])
    BY <1>2, <1>3
  <2> HIDE DEF seqs
  <2> QED BY <2>1, ListFacts
<1>5. seqs = [b \in 1..n |-> seqs[b]]
  BY <1>2
<1>6. EventNodes(src.document) = FlattenSeq(seqs)
  BY DEF EventNodes
<1> HIDE DEF seqs, blocks
<1>7. FlattenSeq(seqs) \in Seq(ToSet(FlattenSeq(seqs)))
  BY <1>2, <1>4, <1>5, FlatElements DEF AreLists
<1> QED BY <1>6, <1>7, SeqIsList

\* Whatever the nodes say, what they are dated is a period.
LEMMA DocumentIsDated ==
  ASSUME NEW src, src.adapter = "json_ld", WellParsed(src)
  PROVE  AreDated(JsonLdDiscover(src.document))
<1> DEFINE document == src.document
           nodes == EventNodes(document)
           found == [i \in DOMAIN nodes |-> JsonLdStub(document, i)]
<1>1. IsList(nodes)
  BY NodesAreList
<1>2. \A i : IsPeriod(JsonLdStub(document, i).date_hint)
  <2> TAKE i
  <2>1. JsonLdStub(document, i).date_hint = ParseJsonLdDateRange(EventNodes(document)[i])
    BY DatesGiven DEF JsonLdStub
  <2> QED BY <2>1, JsonLdRangeIsPeriod
<1>3. JsonLdDiscover(document) = Bound(found)
  BY DEF JsonLdDiscover
<1>4. AreDated(found)
  <2>1. \A i \in DOMAIN nodes : IsPeriod(found[i].date_hint)
    BY <1>2
  <2>2. found = [i \in DOMAIN nodes |-> found[i]]
    OBVIOUS
  <2> HIDE DEF found, nodes
  <2> QED BY <1>1, <2>1, <2>2, MappedIsDated
<1> HIDE DEF found
<1> QED BY <1>3, <1>4, BoundIsDated

\* Every adapter dates what it discovers by periods.
LEMMA DiscoveredIsDated ==
  ASSUME NEW src \in Sources, ~ Rejects(src)
  PROVE  AreDated(DiscoverIn(src))
<1>1. WellParsed(src)
  BY SourceAssumption
<1>2. CASE src.adapter = "rss"
  BY <1>1, <1>2, FeedIsDated DEF DiscoverIn
<1>3. CASE src.adapter = "ics"
  BY <1>1, <1>3, CalendarIsDated DEF DiscoverIn
<1>4. CASE src.adapter = "json_ld"
  BY <1>1, <1>4, DocumentIsDated DEF DiscoverIn
<1>5. CASE src.adapter = "html_config"
  BY <1>1, <1>5, ConfigIsDated DEF DiscoverIn
<1>6. CASE src.adapter \notin {"rss", "ics", "json_ld", "html_config"}
  <2>1. src.adapter # "indico"
    BY DEF Rejects
  <2>2. IsList(src.document.anchors)
    <3>1. src.document.anchors \in Seq(ToSet(src.document.anchors))
      BY <1>1, <1>6, <2>1 DEF WellParsed
    <3> QED BY <3>1, SeqIsList
  <2> QED BY <1>6, <2>2, GenericIsDated DEF DiscoverIn
<1> QED BY <1>2, <1>3, <1>4, <1>5, <1>6

\* Every adapter dates an event by its stub or by what a text parses to.
LEMMA EnrichedIsDated ==
  ASSUME NEW src, NEW stub, NEW pages, IsPeriod(stub.date_hint)
  PROVE  IsPeriod(EnrichWith(src, stub, pages).date)
<1>1. \A fields : IsPeriod(PageDate(stub, fields))
  BY ParsedIsPeriod DEF PageDate, ParseDate
<1>2. IsPeriod(FeedEnrich(stub, src.media_strategy, pages).date)
  BY <1>1, EventDate DEF FeedEnrich, FeedEnrichYoutube
<1>3. IsPeriod(IcsEnrich(stub, pages).date)
  BY EventDate DEF IcsEnrich
<1>4. IsPeriod(JsonLdEnrich(stub, pages).date)
  BY EventDate DEF JsonLdEnrich
<1>5. IsPeriod(MinimalEvent(stub).date)
  BY EventDate DEF MinimalEvent
<1>6. IsPeriod(ConfigEnrich(stub, src.selectors, pages).date)
  BY <1>5, EventDate, ElementDateIsPeriod DEF ConfigEnrich
<1>7. IsPeriod(GenericEnrich(stub, pages).date)
  BY <1>1, <1>5, EventDate DEF GenericEnrich
<1> QED BY <1>2, <1>3, <1>4, <1>6, <1>7 DEF EnrichWith

-----------------------------------------------------------------------------
(* The reader of one source.                                               *)

\* Stubs and candidates are lists dated by periods.
DatedInv ==
  /\ source \in Sources /\ next \in Nat \ {0}
  /\ AreDated(stubs)
  /\ IsList(candidates) /\ \A i \in DOMAIN candidates : IsPeriod(candidates[i].event.date)

LEMMA EnrichNextIsDated ==
  ASSUME DatedInv, Enriching, NEW pages, NEW failed, EnrichNext(pages, failed)
  PROVE  DatedInv'
<1> DEFINE built == [stub |-> next, event |-> EnrichWith(source, stubs[next], pages)]
           n == Len(candidates)
           more == Append(candidates, built)
<1>1. /\ source \in Sources /\ next \in Nat \ {0} /\ AreDated(stubs) /\ IsList(candidates)
      /\ \A i \in DOMAIN candidates : IsPeriod(candidates[i].event.date)
  BY DEF DatedInv
<1>2. source' = source /\ stubs' = stubs /\ next' = next + 1
  BY DEF EnrichNext
<1>3. candidates' = candidates \/ candidates' = Append(candidates, built)
  BY DEF EnrichNext
<1>4. IsPeriod(built.event.date)
  <2>1. next \in DOMAIN stubs
    <3>1. Len(stubs) \in Nat /\ DOMAIN stubs = 1..Len(stubs)
      BY <1>1, ListFacts DEF AreDated
    <3> QED BY <1>1, <3>1 DEF Enriching
  <2>2. IsPeriod(stubs[next].date_hint)
    BY <1>1, <2>1 DEF AreDated
  <2> QED BY <2>2, EnrichedIsDated
<1> HIDE DEF built
<1>5. n \in Nat /\ candidates = [i \in 1..n |-> candidates[i]] /\ DOMAIN candidates = 1..n
  BY <1>1, ListFacts
<1>6. /\ more = [i \in 1..(n + 1) |-> more[i]] /\ more[n + 1] = built
      /\ \A i \in 1..n : more[i] = candidates[i]
  BY <1>5, IndexedSeq
<1> HIDE DEF more, n
<1>7. IsList(more) /\ DOMAIN more = 1..(n + 1)
  BY <1>5, <1>6 DEF IsList
<1>8. ASSUME NEW i \in 1..(n + 1)
      PROVE  IsPeriod(more[i].event.date)
  <2>1. CASE i = n + 1
    BY <1>4, <1>6, <2>1
  <2>2. CASE i # n + 1
    <3>1. i \in 1..n
      BY <1>5, <2>2
    <3> QED BY <1>1, <1>5, <1>6, <3>1
  <2> QED BY <2>1, <2>2
<1>9. IsList(candidates') /\ \A i \in DOMAIN candidates' : IsPeriod(candidates'[i].event.date)
  <2>1. candidates' = candidates \/ candidates' = more
    BY <1>3 DEF more
  <2> QED BY <1>1, <1>7, <1>8, <2>1
<1>10. AreDated(stubs')
  BY <1>1, <1>2
<1> QED BY <1>1, <1>2, <1>9, <1>10 DEF DatedInv, AreDated

\* Whatever a source publishes and whichever of its pages can be had, what its
\* events are dated is a period of the calendar.
THEOREM EventsHavePeriods == Spec => []RangesOrdered
<1>1. Init => DatedInv
  <2>1. IsList(<<>>) /\ DOMAIN <<>> = {}
    <3>1. <<>> = [i \in 1..0 |-> <<>>[i]]
      OBVIOUS
    <3> QED BY <3>1 DEF IsList
  <2> QED BY <2>1 DEF Init, DatedInv, AreDated
<1>2. DatedInv /\ [Next]_vars => DatedInv'
  <2> SUFFICES ASSUME DatedInv, [Next]_vars PROVE DatedInv'
    OBVIOUS
  <2>1. CASE CheckRobots \/ DiscoverRejected \/ Finish \/ UNCHANGED vars
    BY <2>1 DEF CheckRobots, DiscoverRejected, Finish, vars, DatedInv
  <2>2. CASE Discover
    <3> DEFINE found == DiscoverIn(source)
    <3>1. AreDated(found)
      BY <2>2, DiscoveredIsDated DEF Discover, DatedInv
    <3>2. Len(found) > MaxStubs => AreDated(SubSeq(found, 1, MaxStubs))
      <4> HIDE DEF found
      <4>1. Len(found) \in Nat
        BY <3>1, ListFacts DEF AreDated
      <4>2. Len(found) > MaxStubs => MaxStubs \in 0..Len(found)
        BY <4>1, SourceAssumption
      <4> QED BY <3>1, <4>2, HeadIsDated
    <3>3. stubs' = IF Len(found) > MaxStubs THEN SubSeq(found, 1, MaxStubs) ELSE found
      BY <2>2 DEF Discover
    <3> HIDE DEF found
    <3>4. AreDated(stubs')
      BY <3>1, <3>2, <3>3
    <3> QED BY <2>2, <3>4 DEF Discover, DatedInv, AreDated
  <2>3. CASE EnrichFromEntry
    BY <2>3, EnrichNextIsDated DEF EnrichFromEntry
  <2>4. CASE EnrichFromPage
    BY <2>4, EnrichNextIsDated DEF EnrichFromPage
  <2>5. CASE EnrichWithoutPage
    BY <2>5, EnrichNextIsDated DEF EnrichWithoutPage
  <2> QED BY <2>1, <2>2, <2>3, <2>4, <2>5 DEF Next
<1>3. DatedInv => RangesOrdered
  <2>1. ASSUME NEW date, IsPeriod(date)
        PROVE  /\ date.start = None => date.end = None
               /\ date.start # None => IsDate(date.start)
               /\ date.end # None => IsDate(date.end) /\ date.start <= date.end
    BY <2>1, NoneIsNoDate DEF IsPeriod, Unknown
  <2> QED BY <2>1, Zenon DEF DatedInv, RangesOrdered
<1> QED BY <1>1, <1>2, <1>3, PTL DEF Spec

-----------------------------------------------------------------------------
(* From documents to the URLs of candidates.                               *)

\* A calendar tells its entries apart: no UID is given to two of them (as one is to a
\* recurring event and its exceptions), and none is the number of an entry, by which
\* those without a UID are known.
NamesItsEntries(calendar) ==
  LET events == Vevents(calendar)
  IN  /\ calendar.url.eid = NoEid
      /\ \A i, j \in DOMAIN events : events[i].uid # NoEid =>
           /\ events[j].uid = events[i].uid => i = j
           /\ events[i].uid # j - 1

\* Its query is written the way that the url crate writes it, and it is not itself the
\* page of an entry.
LinksElsewhere(calendar) ==
  /\ calendar.url.eid = NoEid /\ calendar.url.query # "raw"
  /\ \A event \in ToSet(Vevents(calendar)) : event.url.kind # "none" =>
       ~ UrlsMatchIgnoringEid(Join(calendar.url, event.url), calendar.url)

CalendarsNameEntries ==
  \A src \in Sources : src.adapter = "ics" /\ ~ Rejects(src) => NamesItsEntries(src.document)

CalendarsLinkElsewhere ==
  \A src \in Sources : src.adapter = "ics" /\ ~ Rejects(src) => LinksElsewhere(src.document)

HasOwnEntries(src) == src.adapter \in {"ics", "json_ld"}

\* A URL with a mark is that of one stub.
AreApart(list) ==
  \A i, j \in DOMAIN list :
    (i # j /\ list[i].url.eid # NoEid) => list[i].url # list[j].url

\* A plan is to get the stub's own URL, which is not that of the document.
GoesElsewhere(src, stub) ==
  PlanEnrichment(src, stub) # <<>> =>
    /\ PlanEnrichment(src, stub)[1].url = stub.url
    /\ ~ UrlsMatchIgnoringEid(stub.url, src.document.url)

\* What is picked stands in the order of its places, so at different ones.
LEMMA PickedApart ==
  ASSUME NEW s, IsList(s), NEW P \in SUBSET DOMAIN s
  PROVE  \E at : \A k \in DOMAIN Picked(s, P) :
           /\ at[k] \in P /\ Picked(s, P)[k] = s[at[k]]
           /\ \A m \in DOMAIN Picked(s, P) : at[m] = at[k] => m = k
<1> DEFINE n == Len(s)
           R == {p \in P \X P : p[1] < p[2]}
           at == Arranged(P, R)
           c == Cardinality(P)
<1>1. n \in Nat /\ DOMAIN s = 1..n
  BY ListFacts
<1>2. P \in SUBSET Nat /\ IsFiniteSet(P)
  <2>1. P \in SUBSET (1..n)
    BY <1>1
  <2>2. IsFiniteSet(1..n)
    BY <1>1, FS_Interval
  <2> QED BY <2>1, <2>2, FS_Subset
<1>3. \A x, y \in P : <<x, y>> \in R <=> x < y
  OBVIOUS
<1>4. Picked(s, P) = [k \in DOMAIN at |-> s[at[k]]]
  BY DEF Picked
<1> HIDE DEF R
<1>5. StrictOrder(P, R)
  <2> SUFFICES ASSUME NEW x \in P, NEW y \in P
               PROVE  /\ <<x, x>> \notin R
                      /\ x = y \/ <<x, y>> \in R \/ <<y, x>> \in R
                      /\ \A z \in P : <<x, y>> \in R /\ <<y, z>> \in R => <<x, z>> \in R
    BY DEF StrictOrder
  <2>1. /\ ~ (x < x) /\ (x = y \/ x < y \/ y < x)
        /\ \A z \in P : x < y /\ y < z => x < z
    BY <1>2
  <2> QED BY <1>3, <2>1
<1>6. /\ c \in Nat /\ at \in [1..c -> P]
      /\ \A m, k \in 1..c : m < k => <<at[m], at[k]>> \in R
  BY <1>2, <1>5, ArrangedInOrder
<1> HIDE DEF at, c
<1>7. \A m, k \in 1..c : m < k => at[m] < at[k]
  BY <1>3, <1>6
<1>8. \A m, k \in 1..c : at[m] = at[k] => m = k
  <2> SUFFICES ASSUME NEW m \in 1..c, NEW k \in 1..c, at[m] = at[k], m # k PROVE FALSE
    OBVIOUS
  <2>1. at[m] \in Nat /\ at[k] \in Nat
    BY <1>2, <1>6
  <2>2. m < k \/ k < m
    BY <1>6
  <2> QED BY <1>7, <2>1, <2>2
<1>9. DOMAIN at = 1..c /\ DOMAIN Picked(s, P) = 1..c
  BY <1>4, <1>6
<1>10. \A k \in 1..c : at[k] \in P /\ Picked(s, P)[k] = s[at[k]]
  BY <1>4, <1>6, <1>9
<1> QED BY <1>8, <1>9, <1>10

\* The first elements stand where they stood.
LEMMA HeadStands ==
  ASSUME NEW list, IsList(list), NEW k \in 0..Len(list)
  PROVE  /\ IsList(SubSeq(list, 1, k)) /\ DOMAIN SubSeq(list, 1, k) \subseteq DOMAIN list
         /\ \A i \in DOMAIN SubSeq(list, 1, k) : SubSeq(list, 1, k)[i] = list[i]
<1> DEFINE head == SubSeq(list, 1, k)
<1>1. Len(list) \in Nat /\ DOMAIN list = 1..Len(list) /\ list \in Seq(ToSet(list))
  BY ListFacts
<1>2. head = [i \in 1..k |-> list[i]] /\ k \in Nat /\ \A i \in 1..k : i \in DOMAIN list
  BY <1>1
<1> HIDE DEF head
<1>3. DOMAIN head = 1..k /\ \A i \in 1..k : head[i] = list[i]
  BY <1>2
<1>4. head = [i \in 1..k |-> head[i]]
  BY <1>2, <1>3
<1> QED BY <1>2, <1>3, <1>4 DEF IsList, head

\* What holds of a list of stubs that a source gives holds of what the caps leave.
LEMMA CappedIsApart ==
  ASSUME NEW list, IsList(list), AreApart(list), NEW k \in 0..Len(list)
  PROVE  IsList(SubSeq(list, 1, k)) /\ AreApart(SubSeq(list, 1, k))
BY HeadStands DEF AreApart

LEMMA BoundStands ==
  ASSUME NEW list, IsList(list)
  PROVE  \E k \in 0..Len(list) : Bound(list) = SubSeq(list, 1, k)
<1> DEFINE k == IF Len(list) <= MaxStubs THEN Len(list) ELSE MaxStubs + 1
<1>1. Len(list) \in Nat
  BY ListFacts
<1>2. k \in 0..Len(list)
  BY <1>1, SourceAssumption
<1>3. Bound(list) = SubSeq(list, 1, k)
  BY DEF Bound
<1> QED BY <1>2, <1>3

\* A resolved link has no mark but the one that the document has.
LEMMA JoinMarks ==
  ASSUME NEW base, IsUrl(base), NEW href
  PROVE  /\ Join(base, href).eid \in {NoEid, base.eid}
         /\ href.kind \notin {"frag", "blank"} => Join(base, href).eid = NoEid
<1>1. \A h, p : /\ Page(h, p).eid = NoEid
                /\ [Page(h, p) EXCEPT !.http = FALSE].eid = NoEid
  BY DEF Page
<1>2. \A x : [base EXCEPT !.frag = x].eid = base.eid
  BY DEF IsUrl
<1> HIDE DEF Page
<1>3. CASE href.kind \in {"frag", "blank"}
  BY <1>2, <1>3 DEF Join
<1>4. CASE href.kind \notin {"frag", "blank"}
  BY <1>1, <1>4 DEF Join
<1> QED BY <1>3, <1>4

\* The fields of a stub are what they are given, and a plan is for its URL.
LEMMA StubGiven ==
  ASSUME NEW title, NEW url, NEW date, NEW native, NEW source_url, NEW evidence, NEW reason
  PROVE  /\ Stub(title, url, date, native, source_url, evidence).url = url
         /\ Stub(title, url, date, native, source_url, evidence).source_url = source_url
         /\ Plan(url, reason)[1].url = url
BY DEF Stub, Plan

-----------------------------------------------------------------------------
(* Documents of JSON-LD.                                                   *)

\* A node is known by a link of its own, or by its number.
LEMMA NodeUrl ==
  ASSUME NEW document, IsUrl(document.url), NEW i
  PROVE  /\ JsonLdStub(document, i).source_url = document.url
         /\ \/ JsonLdStub(document, i).url.eid = NoEid
            \/ /\ JsonLdStub(document, i).url = WithEid(document.url, i - 1)
               /\ JsonLdStub(document, i).url.eid = i - 1
<1> DEFINE stub == JsonLdStub(document, i)
           node == EventNodes(document)[i]
           marked == WithEid(document.url, i - 1)
<1>1. /\ stub.source_url = document.url
      /\ stub.url = IF Locates(document.url, node.url) THEN Join(document.url, node.url)
                    ELSE IF Locates(document.url, node.id) THEN Join(document.url, node.id)
                    ELSE marked
  BY StubGiven DEF JsonLdStub
<1>2. ASSUME NEW href, Locates(document.url, href)
      PROVE  Join(document.url, href).eid = NoEid
  <2>1. href.kind \notin {"frag", "blank"}
    BY <1>2 DEF Locates
  <2> QED BY <2>1, JoinMarks
<1>3. marked.eid = i - 1
  BY DEF WithEid, IsUrl
<1> HIDE DEF stub, node, marked
<1>4. stub.url.eid = NoEid \/ stub.url = marked
  BY <1>1, <1>2
<1> QED BY <1>1, <1>3, <1>4 DEF stub, marked

\* Nodes without a link of their own differ by their numbers.
LEMMA NodesAreApart ==
  ASSUME NEW src, src.adapter = "json_ld", WellParsed(src)
  PROVE  IsList(JsonLdDiscover(src.document)) /\ AreApart(JsonLdDiscover(src.document))
<1> DEFINE document == src.document
           nodes == EventNodes(document)
           found == [i \in DOMAIN nodes |-> JsonLdStub(document, i)]
<1>1. IsUrl(document.url)
  BY DEF WellParsed
<1>2. IsList(nodes) /\ DOMAIN nodes \subseteq Nat
  <2>1. IsList(nodes)
    BY NodesAreList
  <2> HIDE DEF nodes
  <2> QED BY <2>1, ListFacts
<1>3. JsonLdDiscover(document) = Bound(found)
  BY DEF JsonLdDiscover
<1>4. IsList(found)
  <2>1. DOMAIN nodes = 1..Len(nodes) /\ Len(nodes) \in Nat
    BY <1>2, ListFacts
  <2>2. found = [i \in 1..Len(nodes) |-> found[i]]
    BY <2>1
  <2> HIDE DEF found, nodes
  <2> QED BY <2>1, <2>2 DEF IsList
<1>5. AreApart(found)
  <2>1. \A i \in DOMAIN nodes : found[i] = JsonLdStub(document, i)
    OBVIOUS
  <2>2. DOMAIN found = DOMAIN nodes
    OBVIOUS
  <2> HIDE DEF found, nodes
  <2>3. ASSUME NEW i \in DOMAIN nodes, NEW j \in DOMAIN nodes, i # j, found[i].url.eid # NoEid,
               found[i].url = found[j].url
        PROVE  FALSE
    <3>1. found[i].url.eid = i - 1 /\ found[j].url.eid = j - 1
      BY <1>1, <2>1, <2>3, NodeUrl
    <3> QED BY <1>2, <2>3, <3>1
  <2> QED BY <2>2, <2>3 DEF AreApart
<1>6. PICK k \in 0..Len(found) : Bound(found) = SubSeq(found, 1, k)
  BY <1>4, BoundStands
<1> HIDE DEF found
<1> QED BY <1>3, <1>4, <1>5, <1>6, CappedIsApart

\* No plan is to get the document.
LEMMA NodesGoElsewhere ==
  ASSUME NEW src, src.adapter = "json_ld", WellParsed(src),
         NEW i \in DOMAIN JsonLdDiscover(src.document)
  PROVE  GoesElsewhere(src, JsonLdDiscover(src.document)[i])
<1> DEFINE document == src.document
           nodes == EventNodes(document)
           found == [n \in DOMAIN nodes |-> JsonLdStub(document, n)]
           stub == JsonLdDiscover(document)[i]
<1>1. IsUrl(document.url)
  BY DEF WellParsed
<1>2. IsList(nodes)
  BY NodesAreList
<1>3. JsonLdDiscover(document) = Bound(found)
  BY DEF JsonLdDiscover
<1>4. IsList(found)
  <2>1. DOMAIN nodes = 1..Len(nodes) /\ Len(nodes) \in Nat
    BY <1>2, ListFacts
  <2>2. found = [n \in 1..Len(nodes) |-> found[n]]
    BY <2>1
  <2> HIDE DEF found, nodes
  <2> QED BY <2>1, <2>2 DEF IsList
<1>5. PICK k \in 0..Len(found) : Bound(found) = SubSeq(found, 1, k)
  BY <1>4, BoundStands
<1>6. \A n \in DOMAIN found : found[n].source_url = document.url
  BY <1>1, NodeUrl
<1> HIDE DEF found
<1>7. stub.source_url = document.url
  BY <1>3, <1>4, <1>5, <1>6, HeadStands
<1>8. PlanEnrichment(src, stub) = JsonLdPlan(stub)
  BY DEF PlanEnrichment
<1> HIDE DEF stub
<1>9. GoesElsewhere(src, stub)
  BY <1>7, <1>8, StubGiven DEF GoesElsewhere, JsonLdPlan
<1> QED BY <1>9 DEF stub

-----------------------------------------------------------------------------
(* Calendars.                                                              *)

\* The number or the UID that an entry is known by.
Mark(calendar, n) ==
  LET uid == Vevents(calendar)[n].uid IN IF uid = NoEid THEN n - 1 ELSE uid

\* An entry is known by its own link, or by its mark.
LEMMA EntryUrl ==
  ASSUME NEW calendar, IsUrl(calendar.url), calendar.url.eid = NoEid,
         NEW n \in Nat
  PROVE  LET stub == IcsStub(calendar, n - 1)
             e    == Vevents(calendar)[n]
         IN  /\ stub.source_url = calendar.url
             /\ \/ /\ stub.url = Join(calendar.url, e.url) /\ e.url.kind # "none"
                   /\ stub.url.eid = NoEid
                \/ /\ stub.url = SyntheticIcsUrl(calendar.url, e.uid, n - 1)
                   /\ stub.url.eid = Mark(calendar, n)
<1> DEFINE stub == IcsStub(calendar, n - 1)
           e == Vevents(calendar)[n]
           joined == Join(calendar.url, e.url)
           marked == SyntheticIcsUrl(calendar.url, e.uid, n - 1)
<1>1. n - 1 + 1 = n
  OBVIOUS
<1>2. /\ stub.source_url = calendar.url
      /\ stub.url = IF e.url.kind # "none" /\ IsHttpUrl(joined) THEN joined ELSE marked
  BY <1>1, StubGiven DEF IcsStub
<1>3. joined.eid = NoEid
  BY JoinMarks
<1>4. marked.eid = Mark(calendar, n)
  BY DEF SyntheticIcsUrl, WithEid, IsUrl, Mark
<1> HIDE DEF stub, joined, marked
<1>5. \/ stub.url = joined /\ e.url.kind # "none" /\ stub.url.eid = NoEid
      \/ stub.url = marked /\ stub.url.eid = Mark(calendar, n)
  BY <1>2, <1>3, <1>4
<1> QED BY <1>2, <1>5 DEF stub, joined, marked

\* A calendar's stubs are those of different entries.
LEMMA EntriesFound ==
  ASSUME NEW src, src.adapter = "ics", WellParsed(src)
  PROVE  LET calendar == src.document
             list     == IcsDiscover(calendar)
         IN  /\ IsList(list) /\ DOMAIN Vevents(calendar) \subseteq Nat \ {0}
             /\ \E at : \A k \in DOMAIN list :
                  /\ at[k] \in DOMAIN Vevents(calendar) /\ list[k] = IcsStub(calendar, at[k] - 1)
                  /\ \A m \in DOMAIN list : at[m] = at[k] => m = k
<1> DEFINE calendar == src.document
           entries == Vevents(calendar)
           numbers == [i \in DOMAIN entries |-> i - 1]
           Q == {i \in DOMAIN numbers : entries[numbers[i] + 1].summary # Blank}
           ordinals == Picked(numbers, Q)
           found == [k \in DOMAIN ordinals |-> IcsStub(calendar, ordinals[k])]
           list == IcsDiscover(calendar)
<1>1. IsList(entries)
  <2> DEFINE components == calendar.components
             P == {i \in DOMAIN components : components[i].name = "VEVENT"}
  <2>1. IsList(components)
    <3>1. components \in Seq(ToSet(components))
      BY DEF WellParsed
    <3> QED BY <3>1, SeqIsList
  <2>2. entries = Picked(components, P)
    BY DEF Vevents, Filtered
  <2>3. P \in SUBSET DOMAIN components
    OBVIOUS
  <2> HIDE DEF P, entries, components
  <2> QED BY <2>1, <2>2, <2>3, PickedList
<1> HIDE DEF entries
<1>2. DOMAIN entries = 1..Len(entries) /\ Len(entries) \in Nat /\ DOMAIN entries \subseteq Nat \ {0}
  BY <1>1, ListFacts
<1>3. /\ Q \in SUBSET DOMAIN numbers /\ DOMAIN numbers = DOMAIN entries
      /\ \A n \in DOMAIN entries : numbers[n] = n - 1
  OBVIOUS
<1>4. IsList(numbers)
  <2>1. numbers = [i \in 1..Len(entries) |-> numbers[i]]
    BY <1>2
  <2> HIDE DEF numbers
  <2> QED BY <1>2, <2>1 DEF IsList
<1>5. list = Bound(found)
  BY DEF IcsDiscover, Filtered, entries
<1> HIDE DEF numbers, Q
<1>6. IsList(ordinals)
  BY <1>3, <1>4, PickedList
<1>7. PICK at : \A k \in DOMAIN ordinals :
        /\ at[k] \in Q /\ ordinals[k] = numbers[at[k]]
        /\ \A m \in DOMAIN ordinals : at[m] = at[k] => m = k
  BY <1>3, <1>4, PickedApart
<1> HIDE DEF ordinals
<1>8. IsList(found) /\ DOMAIN found = DOMAIN ordinals
  <2>1. DOMAIN ordinals = 1..Len(ordinals) /\ Len(ordinals) \in Nat
    BY <1>6, ListFacts
  <2>2. found = [k \in 1..Len(ordinals) |-> found[k]]
    BY <2>1
  <2> HIDE DEF found
  <2> QED BY <2>1, <2>2 DEF IsList
<1>9. \A k \in DOMAIN ordinals : /\ at[k] \in DOMAIN entries
                                 /\ found[k] = IcsStub(calendar, at[k] - 1)
  <2> SUFFICES ASSUME NEW k \in DOMAIN ordinals
               PROVE  at[k] \in DOMAIN entries /\ found[k] = IcsStub(calendar, at[k] - 1)
    OBVIOUS
  <2>1. at[k] \in DOMAIN entries /\ ordinals[k] = at[k] - 1
    BY <1>3, <1>7
  <2>2. found[k] = IcsStub(calendar, ordinals[k])
    OBVIOUS
  <2> HIDE DEF found
  <2> QED BY <2>1, <2>2
<1> HIDE DEF found
<1>10. PICK c \in 0..Len(found) : list = SubSeq(found, 1, c)
  BY <1>5, <1>8, BoundStands
<1> HIDE DEF list
<1>11. /\ IsList(list) /\ DOMAIN list \subseteq DOMAIN ordinals
       /\ \A k \in DOMAIN list : list[k] = found[k]
  BY <1>8, <1>10, HeadStands
<1>12. \A k \in DOMAIN list :
         /\ at[k] \in DOMAIN entries /\ list[k] = IcsStub(calendar, at[k] - 1)
         /\ \A m \in DOMAIN list : at[m] = at[k] => m = k
  <2> SUFFICES ASSUME NEW k \in DOMAIN list
               PROVE  /\ at[k] \in DOMAIN entries /\ list[k] = IcsStub(calendar, at[k] - 1)
                      /\ \A m \in DOMAIN list : at[m] = at[k] => m = k
    OBVIOUS
  <2> HIDE DEF calendar
  <2> QED BY <1>7, <1>9, <1>11
<1> QED BY <1>2, <1>11, <1>12, Zenon DEF list, entries

\* Entries that a calendar tells apart get URLs that differ.
LEMMA EntriesAreApart ==
  ASSUME NEW src, src.adapter = "ics", WellParsed(src), NamesItsEntries(src.document)
  PROVE  IsList(IcsDiscover(src.document)) /\ AreApart(IcsDiscover(src.document))
<1> DEFINE calendar == src.document
           entries == Vevents(calendar)
           list == IcsDiscover(calendar)
<1>1. IsUrl(calendar.url) /\ calendar.url.eid = NoEid
  BY DEF WellParsed, NamesItsEntries
<1>2. /\ IsList(list) /\ DOMAIN entries \subseteq Nat \ {0}
      /\ \E at : \A k \in DOMAIN list :
           /\ at[k] \in DOMAIN entries /\ list[k] = IcsStub(calendar, at[k] - 1)
           /\ \A m \in DOMAIN list : at[m] = at[k] => m = k
  BY EntriesFound, Zenon
<1>3. PICK at : \A k \in DOMAIN list :
        /\ at[k] \in DOMAIN entries /\ list[k] = IcsStub(calendar, at[k] - 1)
        /\ \A m \in DOMAIN list : at[m] = at[k] => m = k
  BY <1>2
<1>4. ASSUME NEW m \in DOMAIN entries, NEW n \in DOMAIN entries, m # n
      PROVE  Mark(calendar, m) # Mark(calendar, n)
  <2>1. /\ entries[m].uid # NoEid => entries[n].uid # entries[m].uid /\ entries[m].uid # n - 1
        /\ entries[n].uid # NoEid => entries[m].uid # entries[n].uid /\ entries[n].uid # m - 1
    BY <1>4 DEF NamesItsEntries
  <2>2. m \in Nat /\ n \in Nat
    BY <1>2
  <2> HIDE DEF entries
  <2>3. m - 1 # n - 1
    BY <1>4, <2>2
  <2> QED BY <2>1, <2>3 DEF Mark, entries
<1> HIDE DEF list
<1>5. ASSUME NEW i \in DOMAIN list, NEW j \in DOMAIN list, i # j, list[i].url.eid # NoEid,
             list[i].url = list[j].url
      PROVE  FALSE
  <2>1. at[i] # at[j] /\ at[i] \in DOMAIN entries /\ at[j] \in DOMAIN entries
    BY <1>3, <1>5
  <2>2. list[i] = IcsStub(calendar, at[i] - 1) /\ list[j] = IcsStub(calendar, at[j] - 1)
    BY <1>3
  <2>3. \A n \in Nat : LET url == IcsStub(calendar, n - 1).url
                       IN  url.eid = NoEid \/ url.eid = Mark(calendar, n)
    BY <1>1, EntryUrl
  <2>4. at[i] \in Nat /\ at[j] \in Nat
    BY <1>2, <2>1
  <2> HIDE DEF calendar, entries
  <2>5. list[i].url.eid = Mark(calendar, at[i]) /\ list[j].url.eid = Mark(calendar, at[j])
    BY <1>5, <2>2, <2>3, <2>4
  <2> QED BY <1>4, <1>5, <2>1, <2>5
<1> QED BY <1>2, <1>5 DEF AreApart, list

\* No plan is to get a calendar that is not the page of an entry.
LEMMA EntriesGoElsewhere ==
  ASSUME NEW src, src.adapter = "ics", WellParsed(src), LinksElsewhere(src.document),
         NEW i \in DOMAIN IcsDiscover(src.document)
  PROVE  GoesElsewhere(src, IcsDiscover(src.document)[i])
<1> DEFINE calendar == src.document
           base == calendar.url
           entries == Vevents(calendar)
           list == IcsDiscover(calendar)
           stub == list[i]
<1>1. IsUrl(base) /\ base.eid = NoEid /\ base.query # "raw"
  BY DEF WellParsed, LinksElsewhere
<1>2. /\ DOMAIN entries \subseteq Nat \ {0}
      /\ \E n \in DOMAIN entries : stub = IcsStub(calendar, n - 1)
  BY EntriesFound
<1>3. PICK n \in DOMAIN entries : stub = IcsStub(calendar, n - 1)
  BY <1>2
<1> DEFINE e == entries[n]
           marked == SyntheticIcsUrl(base, e.uid, n - 1)
<1>4. n \in Nat /\ n >= 1
  BY <1>2
<1>5. /\ stub.source_url = base
      /\ \/ stub.url = Join(base, e.url) /\ e.url.kind # "none"
         \/ stub.url = marked /\ stub.url.eid = Mark(calendar, n)
  BY <1>1, <1>3, <1>4, EntryUrl
<1>6. e.url.kind # "none" => ~ UrlsMatchIgnoringEid(Join(base, e.url), base)
  <2>1. e \in ToSet(entries)
    BY DEF ToSet
  <2> QED BY <2>1 DEF LinksElsewhere
<1>7. Mark(calendar, n) # NoEid
  BY <1>4 DEF Mark, NoEid
<1>8. [marked EXCEPT !.eid = NoEid, !.query = Reencoded(@)] = base
  BY <1>1 DEF SyntheticIcsUrl, WithEid, IsUrl, Reencoded
<1>9. PlanEnrichment(src, stub) = IcsPlan(stub)
  BY DEF PlanEnrichment
<1> HIDE DEF stub, marked, e, base
<1>10. CASE stub.url = marked /\ stub.url.eid = Mark(calendar, n)
  <2>1. IsSyntheticIcsUrl(stub)
    BY <1>5, <1>7, <1>8, <1>10 DEF IsSyntheticIcsUrl
  <2> QED BY <1>9, <2>1 DEF IcsPlan, GoesElsewhere, stub
<1>11. CASE stub.url = Join(base, e.url) /\ e.url.kind # "none"
  <2>1. IcsPlan(stub) # <<>> => IcsPlan(stub)[1].url = stub.url
    BY StubGiven DEF IcsPlan
  <2>2. GoesElsewhere(src, stub)
    BY <1>6, <1>9, <1>11, <2>1 DEF GoesElsewhere, base
  <2> QED BY <2>2 DEF stub
<1> QED BY <1>5, <1>10, <1>11

-----------------------------------------------------------------------------
(* The URLs of one source.                                                 *)

\* The stubs are a list; those of a calendar or of JSON-LD have URLs that differ.
ApartInv ==
  /\ source \in Sources /\ IsList(stubs)
  /\ HasOwnEntries(source) => AreApart(stubs)

\* What is and will be planned for a calendar or JSON-LD is not to get it again.
ElsewhereInv ==
  /\ source \in Sources /\ IsList(stubs) /\ next \in Nat \ {0}
  /\ HasOwnEntries(source) =>
       /\ \A i \in DOMAIN stubs : GoesElsewhere(source, stubs[i])
       /\ EntryNeverRefetched

\* What discovery keeps is the first of what the adapter found.
LEMMA DiscoveryStands ==
  ASSUME source \in Sources, Discover
  PROVE  /\ ~ Rejects(source) /\ IsList(DiscoverIn(source))
         /\ \E k \in 0..Len(DiscoverIn(source)) : stubs' = SubSeq(DiscoverIn(source), 1, k)
<1> DEFINE found == DiscoverIn(source)
<1>1. ~ Rejects(source) /\ IsList(found)
  BY DiscoveredIsDated DEF Discover, AreDated
<1>2. stubs' = IF Len(found) > MaxStubs THEN SubSeq(found, 1, MaxStubs) ELSE found
  BY DEF Discover
<1> HIDE DEF found
<1>3. Len(found) \in Nat
  BY <1>1, ListFacts
<1>4. CASE Len(found) > MaxStubs
  <2>1. MaxStubs \in 0..Len(found)
    BY <1>3, <1>4, SourceAssumption
  <2> QED BY <1>1, <1>2, <1>4, <2>1 DEF found
<1>5. CASE ~ (Len(found) > MaxStubs)
  <2>1. Len(found) \in 0..Len(found) /\ SubSeq(found, 1, Len(found)) = found
    BY <1>1, <1>3, HeadOfList
  <2>2. stubs' = SubSeq(found, 1, Len(found))
    BY <1>2, <1>5, <2>1
  <2> QED BY <1>1, <2>1, <2>2 DEF found
<1> QED BY <1>4, <1>5

\* Provided that calendars name their entries, entries without a URL of their own get
\* one each, in calendars and documents of any length, cut wherever the caps cut them.
THEOREM EntriesHaveUrls == CalendarsNameEntries => (Spec => []SyntheticUrlsDistinct)
<1> SUFFICES ASSUME CalendarsNameEntries PROVE Spec => []SyntheticUrlsDistinct
  OBVIOUS
<1>1. Init => ApartInv
  <2>1. IsList(<<>>) /\ DOMAIN <<>> = {}
    <3>1. <<>> = [i \in 1..0 |-> <<>>[i]]
      OBVIOUS
    <3> QED BY <3>1 DEF IsList
  <2> QED BY <2>1 DEF Init, ApartInv, AreApart
<1>2. ApartInv /\ [Next]_vars => ApartInv'
  <2> SUFFICES ASSUME ApartInv, [Next]_vars PROVE ApartInv'
    OBVIOUS
  <2>1. CASE Discover
    <3> DEFINE found == DiscoverIn(source)
    <3>1. source \in Sources
      BY DEF ApartInv
    <3>2. /\ ~ Rejects(source) /\ IsList(found)
          /\ \E k \in 0..Len(found) : stubs' = SubSeq(found, 1, k)
      BY <2>1, <3>1, DiscoveryStands
    <3>3. HasOwnEntries(source) => AreApart(found)
      <4>1. WellParsed(source)
        BY <3>1, SourceAssumption
      <4>2. ASSUME source.adapter = "ics" PROVE AreApart(found)
        BY <3>1, <3>2, <4>1, <4>2, EntriesAreApart DEF CalendarsNameEntries, DiscoverIn
      <4>3. ASSUME source.adapter = "json_ld" PROVE AreApart(found)
        BY <4>1, <4>3, NodesAreApart DEF DiscoverIn
      <4> QED BY <4>2, <4>3 DEF HasOwnEntries
    <3> HIDE DEF found
    <3>4. IsList(stubs') /\ (HasOwnEntries(source) => AreApart(stubs'))
      BY <3>2, <3>3, HeadStands, CappedIsApart
    <3>5. source' = source
      BY <2>1 DEF Discover
    <3> QED BY <3>1, <3>4, <3>5 DEF ApartInv, AreApart
  <2>2. CASE ~ Discover
    <3>1. source' = source /\ stubs' = stubs
      BY <2>2 DEF Next, CheckRobots, DiscoverRejected, Finish, EnrichFromEntry, EnrichFromPage,
                  EnrichWithoutPage, EnrichNext, vars
    <3> QED BY <3>1 DEF ApartInv, AreApart
  <2> QED BY <2>1, <2>2
<1>3. ApartInv => SyntheticUrlsDistinct
  BY DEF ApartInv, AreApart, SyntheticUrlsDistinct, HasOwnEntries
<1> QED BY <1>1, <1>2, <1>3, PTL DEF Spec

LEMMA EnrichStaysElsewhere ==
  ASSUME ElsewhereInv, Enriching, NEW pages, NEW failed, EnrichNext(pages, failed),
         \/ requested' = requested
         \/ Planned # <<>> /\ requested' = requested \cup {Planned[1].url}
  PROVE  ElsewhereInv'
<1>1. /\ source \in Sources /\ IsList(stubs) /\ next \in Nat \ {0}
      /\ HasOwnEntries(source) => /\ \A i \in DOMAIN stubs : GoesElsewhere(source, stubs[i])
                                  /\ EntryNeverRefetched
  BY DEF ElsewhereInv
<1>2. source' = source /\ stubs' = stubs /\ next' = next + 1
  BY DEF EnrichNext
<1>3. next \in DOMAIN stubs
  <2>1. Len(stubs) \in Nat /\ DOMAIN stubs = 1..Len(stubs)
    BY <1>1, ListFacts
  <2> QED BY <1>1, <2>1 DEF Enriching
<1>4. ASSUME HasOwnEntries(source), NEW url \in requested'
      PROVE  ~ UrlsMatchIgnoringEid(url, source.document.url)
  <2>1. \A u \in requested : ~ UrlsMatchIgnoringEid(u, source.document.url)
    BY <1>1, <1>4 DEF EntryNeverRefetched, HasOwnEntries
  <2>2. Planned # <<>> => ~ UrlsMatchIgnoringEid(Planned[1].url, source.document.url)
    BY <1>1, <1>3, <1>4 DEF Planned, GoesElsewhere
  <2> QED BY <1>4, <2>1, <2>2
<1>5. EntryNeverRefetched' <=> (HasOwnEntries(source) =>
        \A url \in requested' : ~ UrlsMatchIgnoringEid(url, source.document.url))
  BY <1>2 DEF EntryNeverRefetched, HasOwnEntries, UrlsMatchIgnoringEid
<1>6. HasOwnEntries(source)' <=> HasOwnEntries(source)
  BY <1>2 DEF HasOwnEntries
<1>7. \A i \in DOMAIN stubs : GoesElsewhere(source, stubs[i])' <=> GoesElsewhere(source, stubs[i])
  BY <1>2
<1>8. next' \in Nat \ {0}
  BY <1>1, <1>2
<1> QED BY <1>1, <1>2, <1>4, <1>5, <1>6, <1>7, <1>8 DEF ElsewhereInv

\* Provided that no calendar is the page of one of its entries, and for any document of
\* JSON-LD, the entrypoint is not among the detail pages that are asked for.
THEOREM EntryIsFetchedOnce == CalendarsLinkElsewhere => (Spec => []EntryNeverRefetched)
<1> SUFFICES ASSUME CalendarsLinkElsewhere PROVE Spec => []EntryNeverRefetched
  OBVIOUS
<1>1. Init => ElsewhereInv
  <2>1. IsList(<<>>) /\ DOMAIN <<>> = {}
    <3>1. <<>> = [i \in 1..0 |-> <<>>[i]]
      OBVIOUS
    <3> QED BY <3>1 DEF IsList
  <2> QED BY <2>1 DEF Init, ElsewhereInv, EntryNeverRefetched
<1>2. ElsewhereInv /\ [Next]_vars => ElsewhereInv'
  <2> SUFFICES ASSUME ElsewhereInv, [Next]_vars PROVE ElsewhereInv'
    OBVIOUS
  <2>1. CASE Discover
    <3> DEFINE found == DiscoverIn(source)
    <3>1. source \in Sources
      BY DEF ElsewhereInv
    <3>2. /\ ~ Rejects(source) /\ IsList(found)
          /\ \E k \in 0..Len(found) : stubs' = SubSeq(found, 1, k)
      BY <2>1, <3>1, DiscoveryStands
    <3>3. HasOwnEntries(source) => \A i \in DOMAIN found : GoesElsewhere(source, found[i])
      <4>1. WellParsed(source)
        BY <3>1, SourceAssumption
      <4>2. ASSUME source.adapter = "ics"
            PROVE  \A i \in DOMAIN found : GoesElsewhere(source, found[i])
        <5>1. found = IcsDiscover(source.document) /\ LinksElsewhere(source.document)
          BY <3>1, <3>2, <4>2 DEF CalendarsLinkElsewhere, DiscoverIn
        <5> HIDE DEF found
        <5> QED BY <4>1, <4>2, <5>1, EntriesGoElsewhere
      <4>3. ASSUME source.adapter = "json_ld"
            PROVE  \A i \in DOMAIN found : GoesElsewhere(source, found[i])
        <5>1. found = JsonLdDiscover(source.document)
          BY <4>3 DEF DiscoverIn
        <5> HIDE DEF found
        <5> QED BY <4>1, <4>3, <5>1, NodesGoElsewhere
      <4> QED BY <4>2, <4>3 DEF HasOwnEntries
    <3> HIDE DEF found
    <3>4. /\ IsList(stubs')
          /\ HasOwnEntries(source) => \A i \in DOMAIN stubs' : GoesElsewhere(source, stubs'[i])
      BY <3>2, <3>3, HeadStands
    <3>5. source' = source /\ requested' = requested /\ next' = next
      BY <2>1 DEF Discover
    <3> QED BY <3>1, <3>4, <3>5 DEF ElsewhereInv, EntryNeverRefetched, HasOwnEntries, GoesElsewhere
  <2>2. CASE CheckRobots \/ DiscoverRejected \/ Finish \/ UNCHANGED vars
    BY <2>2 DEF CheckRobots, DiscoverRejected, Finish, vars, ElsewhereInv, EntryNeverRefetched,
                HasOwnEntries
  <2>3. CASE EnrichFromEntry
    BY <2>3, EnrichStaysElsewhere DEF EnrichFromEntry
  <2>4. CASE EnrichFromPage
    BY <2>4, EnrichStaysElsewhere DEF EnrichFromPage
  <2>5. CASE EnrichWithoutPage
    BY <2>5, EnrichStaysElsewhere DEF EnrichWithoutPage
  <2> QED BY <2>1, <2>2, <2>3, <2>4, <2>5 DEF Next
<1>3. ElsewhereInv => EntryNeverRefetched
  BY DEF ElsewhereInv, EntryNeverRefetched, HasOwnEntries
<1> QED BY <1>1, <1>2, <1>3, PTL DEF Spec

=============================================================================

-------------------------------- MODULE Dates --------------------------------
(***************************************************************************)
(* The date parser of radar-core: free text to an event date.              *)
(*                                                                         *)
(* A text is a sequence of tokens [k, n]: "D" a number of one or two       *)
(* digits, "Y" one of four, "M" a word with the number of the month it     *)
(* names (0 for any other word), "I" an ISO date, "H" a time of day, and   *)
(* the separators "-", "/" and "to".  Ordinal suffixes, an optional comma  *)
(* and the width of white space are layout and left out; a separator has   *)
(* space around it.  A date is the number yyyymmdd, so dates compare as    *)
(* numbers; None is the missing date.                                      *)
(***************************************************************************)
EXTENDS Integers, Sequences, SequencesExt

None == 0

Date(y, m, d) == 10000 * y + 100 * m + d
YearOf(date)  == date \div 10000
MonthOf(date) == (date \div 100) % 100
DayOf(date)   == date % 100

IsLeap(y) == y % 4 = 0 /\ (y % 100 # 0 \/ y % 400 = 0)

DaysIn(y, m) == IF m = 2 THEN IF IsLeap(y) THEN 29 ELSE 28
                ELSE IF m \in {4, 6, 9, 11} THEN 30 ELSE 31

\* from_ymd_opt accepts the date.
IsDate(date) == /\ MonthOf(date) \in 1..12
                /\ DayOf(date) \in 1..DaysIn(YearOf(date), MonthOf(date))

NextDay(date) ==
  IF IsDate(date + 1) THEN date + 1
  ELSE IF MonthOf(date) = 12 THEN Date(YearOf(date) + 1, 1, 1)
  ELSE Date(YearOf(date), MonthOf(date) + 1, 1)

PreviousDay(date) ==
  IF DayOf(date) > 1 THEN date - 1
  ELSE IF MonthOf(date) = 1 THEN Date(YearOf(date) - 1, 12, 31)
  ELSE Date(YearOf(date), MonthOf(date) - 1, DaysIn(YearOf(date), MonthOf(date) - 1))

-----------------------------------------------------------------------------
(* Results.                                                                *)

Unknown      == [start |-> None, end |-> None, precision |-> "Unknown"]
OneDay(date) == [start |-> date, end |-> None, precision |-> "Day"]

Single(date) == IF IsDate(date) THEN OneDay(date) ELSE Unknown

Between(first, last) ==
  IF IsDate(first) /\ IsDate(last) /\ first <= last
  THEN [start |-> first, end |-> last, precision |-> "Range"] ELSE Unknown

\* The last day the result covers; None if it has no date.
Latest(date) == IF date.end # None THEN date.end ELSE date.start

-----------------------------------------------------------------------------
(* Patterns.  Each is anchored at both ends, and no text matches two.      *)

\* With a year: full ranges in US and day-month order, ranges within a month
\* and across months, and single dates.
DatedPatterns ==
  { <<"M", "D", "Y", "~", "M", "D", "Y">>, <<"D", "M", "Y", "~", "D", "M", "Y">>,
    <<"D", "-", "D", "M", "Y">>, <<"D", "M", "-", "D", "M", "Y">>,
    <<"M", "D", "-", "D", "Y">>, <<"M", "D", "Y">>, <<"D", "M", "Y">> }

YearlessPatterns ==
  { <<"D", "-", "D", "M">>, <<"D", "M", "-", "D", "M">>, <<"M", "D", "-", "M", "D">>,
    <<"M", "D", "-", "D">>, <<"M", "D">>, <<"D", "M">> }

IsoPatterns == { <<"I", "-", "I">>, <<"I", "/", "I">>, <<"I", "I">> }

\* "~" is a dash or the word "to".
Matches(text, pattern) ==
  /\ Len(text) = Len(pattern)
  /\ \A i \in DOMAIN text :
       text[i].k \in (IF pattern[i] = "~" THEN {"-", "to"} ELSE {pattern[i]})

\* Where the numbers of a kind stand; the first and the last of them.
Numbers(text, kind)     == {i \in DOMAIN text : text[i].k = kind}
FirstNumber(text, kind) == text[Min(Numbers(text, kind))].n
LastNumber(text, kind)  == text[Max(Numbers(text, kind))].n

OneDayOnly(text) == Cardinality(Numbers(text, "D")) = 1

IsoRange(text) == Between(Head(text).n, Last(text).n)

\* The captures of a pattern with a year: the first day, month and year
\* make the start, the last ones the end.
DatedMatch(text) ==
  LET first == Date(FirstNumber(text, "Y"), FirstNumber(text, "M"), FirstNumber(text, "D"))
      last  == Date(LastNumber(text, "Y"), LastNumber(text, "M"), LastNumber(text, "D"))
  IN  IF OneDayOnly(text) THEN Single(first) ELSE Between(first, last)

\* The month of the end precedes that of the start.
TurnsYear(text) == LastNumber(text, "M") < FirstNumber(text, "M")

\* Without a year: a range whose end month precedes its start month ends in the
\* next year.
YearlessMatch(text, year) ==
  LET ending == IF TurnsYear(text) THEN year + 1 ELSE year
      first  == Date(year, FirstNumber(text, "M"), FirstNumber(text, "D"))
      last   == Date(ending, LastNumber(text, "M"), LastNumber(text, "D"))
  IN  IF OneDayOnly(text) THEN Single(first) ELSE Between(first, last)

\* An ISO date, possibly followed by a time.  A separator after it makes it a
\* range of instants that no pattern reads.
IsoSingle(text) ==
  IF \E i \in 2..Len(text) : text[i].k \in {"-", "/", "to"} THEN Unknown
  ELSE OneDay(text[1].n)

-----------------------------------------------------------------------------
(* Entry points.                                                           *)

\* parse_date_inner; `year` is the year hint or None.
ParseDateInner(text, year) ==
  IF (\E p \in IsoPatterns : Matches(text, p)) /\ IsoRange(text) # Unknown
    THEN IsoRange(text)
  ELSE IF text # <<>> /\ text[1].k = "I" /\ IsDate(text[1].n) THEN IsoSingle(text)
  ELSE IF \E p \in DatedPatterns : Matches(text, p) THEN DatedMatch(text)
  ELSE IF year # None /\ \E p \in YearlessPatterns : Matches(text, p)
    THEN YearlessMatch(text, year)
  ELSE Unknown

\* parse_date
ParseDate(text) == ParseDateInner(text, None)

\* Fault: a date that is over is rolled forward by its start.
NextTimeByStart(first, rolled, today) ==
  IF first = Unknown \/ first.start >= today \/ rolled = Unknown THEN first ELSE rolled

\* A date that is over by `today` is replaced by what it is a year later, if it is.
NextTime(first, rolled, today) ==
  IF first = Unknown \/ Latest(first) >= today \/ rolled = Unknown THEN first ELSE rolled

\* parse_date_with_reference.  (A text with a year gives the same date twice.)
ParseWithReference(text, today) ==
  NextTime(ParseDateInner(text, YearOf(today)), ParseDateInner(text, YearOf(today) + 1), today)

\* interval_overlap: a missing start or end is unbounded.
IntervalOverlap(date, from, to) ==
  /\ date.start # None => date.start <= to
  /\ Latest(date) # None => Latest(date) >= from

=============================================================================

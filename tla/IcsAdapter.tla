------------------------------ MODULE IcsAdapter ------------------------------
(***************************************************************************)
(* The iCalendar adapter.  A calendar is [url, depth, components, markup]: *)
(* its BEGIN/END nesting depth, its components in order, and the page that *)
(* an HTML parser makes of it if it contains a "<", else NoPage.  The text *)
(* fields of a component are Blank when missing or blank.                  *)
(*                                                                         *)
(* A date value is [date, timed], its first eight digits and whether more  *)
(* follows; NoValue is a property that is missing or not of that form.     *)
(* A duration is its number of days, NoDuration when it is missing,        *)
(* malformed or negative; hours count as no day.                           *)
(***************************************************************************)
EXTENDS Documents

CONSTANTS
  MaxStubs,  \* MAX_STUBS_PER_SOURCE: a list of one more shows the overflow
  NoPage     \* a document without markup

NoValue    == [date |-> None, timed |-> FALSE]
NoDuration == -1

MaxNestingDepth == 8

\* At most one stub more than a source may have.
Bound(stubs) == SubSeq(stubs, 1, IF Len(stubs) <= MaxStubs THEN Len(stubs) ELSE MaxStubs + 1)

\* parse_ics_dtstart: the digits are read as an ISO date.
ParseIcsDate(value) == IF value = NoValue THEN Unknown ELSE Single(value.date)

AddDays(date, days) ==
  LET day[n \in 0..days] == IF n = 0 THEN date ELSE NextDay(day[n - 1]) IN day[days]

\* The last day that DTEND stands for: a date is exclusive, an instant falls on
\* it; a range of no day is one day.
LastDay(start, dtend) ==
  LET last == IF dtend.timed THEN dtend.date ELSE PreviousDay(dtend.date)
  IN  IF last < start THEN start ELSE last

\* parse_ics_date_range: DTEND if it is usable, else DURATION.
ParseIcsDateRange(dtstart, dtend, duration) ==
  LET start == ParseIcsDate(dtstart)
      end   == ParseIcsDate(dtend)
  IN  IF start # Unknown /\ end # Unknown /\ end.start >= start.start
        THEN [start EXCEPT !.end = LastDay(start.start, dtend)]
      ELSE IF start # Unknown /\ duration > 0
        THEN [start EXCEPT !.end = AddDays(start.start, duration - 1)]
      ELSE start

\* Fault: events without UID share one synthetic URL.
SyntheticIcsUrlOfUid(base, uid, ordinal) ==
  WithEid([base EXCEPT !.query = Reencoded(@)], IF uid = NoEid THEN 0 ELSE uid)

\* synthetic_ics_url: the calendar's URL marked with the UID or the ordinal.
SyntheticIcsUrl(base, uid, ordinal) ==
  WithEid([base EXCEPT !.query = Reencoded(@)], IF uid = NoEid THEN ordinal ELSE uid)

\* is_synthetic_ics_url: without the mark it is the URL of the calendar.
IsSyntheticIcsUrl(stub) ==
  /\ stub.url.eid # NoEid
  /\ [stub.url EXCEPT !.eid = NoEid, !.query = Reencoded(@)] = stub.source_url

\* The VEVENTs of a calendar; the ordinal counts those that are skipped too.
Vevents(calendar) == Filtered(calendar.components, LAMBDA c : c.name = "VEVENT")

IcsStub(calendar, ordinal) ==
  LET event    == Vevents(calendar)[ordinal + 1]
      resolved == Join(calendar.url, event.url)
      url      == IF event.url.kind # "none" /\ IsHttpUrl(resolved) THEN resolved
                  ELSE SyntheticIcsUrl(calendar.url, event.uid, ordinal)
  IN  Stub(event.summary, url, ParseIcsDateRange(event.dtstart, event.dtend, event.duration),
           event.uid, calendar.url, "ics")

\* The depth guard; a calendar that read_calendar cannot parse, which is rejected the
\* same way, is none of the documents here.
IcsRejects(calendar) == calendar.depth > MaxNestingDepth

IcsDiscover(calendar) ==
  LET ordinals == Filtered([i \in DOMAIN Vevents(calendar) |-> i - 1],
                           LAMBDA n : Vevents(calendar)[n + 1].summary # Blank)
  IN  Bound([k \in DOMAIN ordinals |-> IcsStub(calendar, ordinals[k])])

\* Fault: the mark is not looked for.
IcsPlanAlways(stub) == Plan(stub.url, "ics_detail")

IcsPlan(stub) == IF IsSyntheticIcsUrl(stub) THEN <<>> ELSE Plan(stub.url, "ics_detail")

\* Description and place are read from a document that contains markup; `pages` are
\* the pages an HTML parser makes of the documents handed over.
IcsEnrich(stub, pages) ==
  LET fields == IF pages # <<>> /\ pages[1] # NoPage THEN ExtractHtmlFields(pages[1]) ELSE NoFields
  IN  BuildEvent(stub, stub.title, DetectEventType(<<stub.title>>), "Announced", stub.date_hint,
                 fields.location_text, fields.description, <<>>, <<>>, <<>>, "Unknown", "Unknown")

=============================================================================

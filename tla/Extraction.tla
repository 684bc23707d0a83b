------------------------------ MODULE Extraction ------------------------------
(***************************************************************************)
(* One source from its robots file to its candidates: the requests that    *)
(* fetch_source makes, the adapter it drives and the events that come out. *)
(* Network failures are a choice here; their causes are FetchTransaction's *)
(* and the statuses and deadlines FetchEngine's.                           *)
(*                                                                         *)
(* A source is [adapter, selectors, media_strategy, robots, target,        *)
(* document, pages]: its registry entry, the lines of the robots file and  *)
(* the request target of its entrypoint, the document found there, and the *)
(* documents that a detail request may bring.                              *)
(***************************************************************************)
EXTENDS FeedAdapter, RobotsRules

CONSTANT Sources

\* What the parsers hand over: lists, URLs, and time stamps that are days of the calendar.
\* The digits of a calendar's dates may be no day.
WellParsed(src) ==
  LET isList(s)  == s \in Seq(ToSet(s))
      isStamp(d) == d = None \/ IsDate(d)
      isValue(v) == v.date \in Nat /\ v.timed \in BOOLEAN
      doc        == src.document
  IN  CASE src.adapter = "rss" ->
             /\ isList(doc.entries)
             /\ \A e \in ToSet(doc.entries) : isStamp(e.published) /\ isStamp(e.updated)
        [] src.adapter = "ics" ->
             /\ IsUrl(doc.url) /\ isList(doc.components)
             /\ \A c \in ToSet(doc.components) :
                  c.name = "VEVENT" => isValue(c.dtstart) /\ isValue(c.dtend) /\ c.duration \in Int
        [] src.adapter = "json_ld" ->
             /\ IsUrl(doc.url) /\ isList(doc.blocks)
             /\ \A b \in ToSet(doc.blocks) : isList(b.items)
        [] src.adapter = "html_config" ->
             isList(doc.containers) /\ \A c \in ToSet(doc.containers) : isList(c.links)
        [] src.adapter = "indico" -> TRUE
        [] OTHER -> isList(doc.anchors)

ASSUME SourceAssumption ==
  /\ MaxStubs \in Nat
  /\ \A src \in Sources : WellParsed(src)

VARIABLES
  source,      \* the source
  stage,       \* "new", "allowed", "denied", "rejected", "enriching", "done"
  stubs,       \* what discovery found, after the cap
  truncated,   \* the cap dropped something
  next,        \* the stub to be enriched next
  requested,   \* the URLs of planned detail requests
  failures,    \* enrichment_failures
  candidates   \* the events built, each with the number of its stub

vars == <<source, stage, stubs, truncated, next, requested, failures, candidates>>

Init ==
  /\ source \in Sources
  /\ stage = "new" /\ stubs = <<>> /\ truncated = FALSE /\ next = 1
  /\ requested = {} /\ failures = 0 /\ candidates = <<>>

-----------------------------------------------------------------------------
(* The adapter of a source: default_adapter and the trait's methods.       *)

Rejects(src) ==
  CASE src.adapter = "rss"         -> FeedRejects(src.document)
    [] src.adapter = "ics"         -> IcsRejects(src.document)
    [] src.adapter = "html_config" -> ConfigRejects(src.selectors)
    [] src.adapter = "indico"      -> TRUE
    [] OTHER                       -> FALSE

DiscoverIn(src) ==
  CASE src.adapter = "rss"         -> FeedDiscover(src.document)
    [] src.adapter = "ics"         -> IcsDiscover(src.document)
    [] src.adapter = "json_ld"     -> JsonLdDiscover(src.document)
    [] src.adapter = "html_config" -> ConfigDiscover(src.document, src.selectors)
    [] OTHER                       -> GenericDiscover(src.document)

PlanEnrichment(src, stub) ==
  CASE src.adapter = "rss"         -> FeedPlan(stub, src.media_strategy)
    [] src.adapter = "ics"         -> IcsPlan(stub)
    [] src.adapter = "json_ld"     -> JsonLdPlan(stub)
    [] src.adapter = "html_config" -> ConfigPlan(stub)
    [] OTHER                       -> GenericPlan(stub)

EnrichRejects(src, pages) ==
  src.adapter = "html_config" /\ ConfigEnrichRejects(src.selectors, pages)

EnrichWith(src, stub, pages) ==
  CASE src.adapter = "rss"         -> FeedEnrich(stub, src.media_strategy, pages)
    [] src.adapter = "ics"         -> IcsEnrich(stub, pages)
    [] src.adapter = "json_ld"     -> JsonLdEnrich(stub, pages)
    [] src.adapter = "html_config" -> ConfigEnrich(stub, src.selectors, pages)
    [] OTHER                       -> GenericEnrich(stub, pages)

\* The entry document as an enrichment document; a calendar as an HTML parser sees it.
EntryPage(src) == IF src.adapter = "ics" THEN src.document.markup ELSE src.document

-----------------------------------------------------------------------------
(* Steps.                                                                  *)

CheckRobots ==
  /\ stage = "new"
  /\ stage' = IF IsAllowed(ParseRobots(source.robots), source.target) THEN "allowed" ELSE "denied"
  /\ UNCHANGED <<source, stubs, truncated, next, requested, failures, candidates>>

DiscoverRejected ==
  /\ stage = "allowed" /\ Rejects(source)
  /\ stage' = "rejected"
  /\ UNCHANGED <<source, stubs, truncated, next, requested, failures, candidates>>

Discover ==
  /\ stage = "allowed" /\ ~ Rejects(source)
  /\ \E found \in {DiscoverIn(source)} :
       /\ truncated' = (Len(found) > MaxStubs)
       /\ stubs' = IF truncated' THEN SubSeq(found, 1, MaxStubs) ELSE found
  /\ stage' = "enriching"
  /\ UNCHANGED <<source, next, requested, failures, candidates>>

\* Enriching the next stub with the documents `pages`, after `failed` failed requests.
EnrichNext(pages, failed) ==
  /\ IF EnrichRejects(source, pages)
     THEN failures' = failures + failed + 1 /\ UNCHANGED candidates
     ELSE /\ failures' = failures + failed
          /\ candidates' = Append(candidates,
                             [stub |-> next, event |-> EnrichWith(source, stubs[next], pages)])
  /\ next' = next + 1
  /\ UNCHANGED <<source, stage, stubs, truncated>>

Enriching == stage = "enriching" /\ next <= Len(stubs)

Planned == PlanEnrichment(source, stubs[next])

\* Without a plan the entry document stands in for the detail page.
EnrichFromEntry ==
  /\ Enriching /\ Planned = <<>>
  /\ EnrichNext(<<EntryPage(source)>>, 0)
  /\ UNCHANGED requested

EnrichFromPage ==
  /\ Enriching /\ Planned # <<>>
  /\ \E page \in source.pages : EnrichNext(<<page>>, 0)
  /\ requested' = requested \cup {Planned[1].url}

\* A failed request, or one beyond max_depth, leaves no document, not the entry one.
EnrichWithoutPage ==
  /\ Enriching /\ Planned # <<>>
  /\ EnrichNext(<<>>, 1)
  /\ requested' = requested \cup {Planned[1].url}

Finish ==
  /\ stage = "enriching" /\ next > Len(stubs)
  /\ stage' = "done"
  /\ UNCHANGED <<source, stubs, truncated, next, requested, failures, candidates>>

Next ==
  \/ CheckRobots \/ DiscoverRejected \/ Discover
  \/ EnrichFromEntry \/ EnrichFromPage \/ EnrichWithoutPage \/ Finish

Spec == Init /\ [][Next]_vars

-----------------------------------------------------------------------------
(* Properties.                                                             *)

\* A source is asked only for what its robots file allows, read independently of
\* the parser: groups by the lines above a rule, patterns by what their stars may
\* stand for.  A pattern that needs a second try after it was used up is the one
\* case in which the code differs (RobotsAnchored).  [robots.rs: parse_robots_for,
\* is_allowed, glob_match]
AsksAsPublished ==
  stage \in {"allowed", "denied"} =>
    (stage = "allowed" <=> PublishedAllows(source.robots, source.target))

\* "When `anchored_end` is true the entire path must be consumed; `*` matches any
\* sequence": the same for files with a pattern anchored at the end.  [robots.rs:
\* glob_match]
RobotsAnchored ==
  stage = "allowed" => PublishedAllows(source.robots, source.target)

\* What an event is dated is a period: both ends are days of the calendar and the
\* last is not before the first, whatever texts, DTENDs, durations or feed dates
\* it is put together from.  [date.rs, ics.rs, jsonld.rs]
RangesOrdered ==
  \A i \in DOMAIN candidates :
    LET date == candidates[i].event.date
    IN  /\ date.start = None => date.end = None
        /\ date.start # None => IsDate(date.start)
        /\ date.end # None => IsDate(date.end) /\ date.start <= date.end

\* The texts that a configured list gives for the URL of a stub.
ListTexts(stub) ==
  {l.container.date.all : l \in {l \in ToSet(ListLinks(source.document)) :
                                   Join(source.document.url, l.link.href) = stub.url}}

Yearless(text) == \E p \in YearlessPatterns : Matches(text, p)

\* A date without a year on a list page is the next time it comes round: an event
\* that is still running is not moved to next year, one that is over is, unless
\* next year lacks that day.  Texts that run over the turn of the year are not
\* covered: in January the code dates them a year late.  [date.rs:
\* parse_date_with_reference; html_config.rs: first_date_in]
NextOccurrence ==
  source.adapter = "html_config" =>
    \A i \in DOMAIN stubs : \A text \in ListTexts(stubs[i]) :
      LET today == source.document.fetched
          date  == stubs[i].date_hint
      IN  (Yearless(text) /\ ~ TurnsYear(text) /\ date # Unknown) =>
            /\ \/ Latest(date) >= today
               \/ ParseDateInner(text, YearOf(today) + 1) = Unknown
            /\ Latest(ParseDateInner(text, YearOf(date.start) - 1)) < today

\* The facts that a JSON-LD event takes from a document are those of a node about
\* the same event, namesakes in the document or on the event's page notwithstanding;
\* `about` is what the author meant.  (A node without a name, which is taken for the
\* event whose page it stands on, stands on no other event's page.)
\* [jsonld.rs: classify_match, enrich]
OwnFactsOnly ==
  source.adapter = "json_ld" =>
    \A i \in DOMAIN candidates :
      LET event == candidates[i].event
          about == EventNodes(source.document)[candidates[i].stub].about
          own   == UNION {ToSet(EventNodes(d)) : d \in source.pages \cup {source.document}}
      IN  \A n \in own : n.about # about =>
            /\ n.description # Blank => event.description # n.description
            /\ n.location # Blank => event.location # n.location

\* Entries of a calendar or a document that have no URL of their own get one each:
\* no two share an event id, so deduplication does not merge what the source lists
\* apart.  (For a calendar only if it gives no UID twice, as an exception to a
\* recurring event does, nor one that is the number of an entry without a UID.)
\* [ics.rs: synthetic_ics_url; jsonld.rs: discover]
SyntheticUrlsDistinct ==
  source.adapter \in {"ics", "json_ld"} =>
    \A i, j \in DOMAIN stubs :
      (i # j /\ stubs[i].url.eid # NoEid) => stubs[i].url # stubs[j].url

\* A document that was fetched as the entrypoint is not fetched again as a detail
\* page of an event that has no page of its own.  (For a calendar only if its query
\* is written the way that the url crate writes it, and no entry gives the calendar
\* itself as its page.)  [ics.rs: is_synthetic_ics_url;
\* jsonld.rs: urls_match_ignoring_mtr_eid; engine.rs: fetch_source]
EntryNeverRefetched ==
  source.adapter \in {"ics", "json_ld"} =>
    \A url \in requested : ~ UrlsMatchIgnoringEid(url, source.document.url)

=============================================================================

------------------------------ MODULE FeedAdapter ------------------------------
(***************************************************************************)
(* The RSS/Atom adapter.  A feed is [url, wellformed, entries]; an entry   *)
(* has a title (Blank when the element is missing), links in order, two    *)
(* timestamps (None when missing) and an id (Blank when empty).            *)
(***************************************************************************)
EXTENDS HtmlAdapters

CONSTANT NoRel  \* a link without rel attribute

FeedRejects(feed) == ~ feed.wellformed

\* The first link without rel or with rel "alternate", else the first link.
EntryLinks(entry) ==
  SelectSeq(entry.links, LAMBDA l : l.rel \in {NoRel, "alternate"}) \o entry.links

\* The day of publication, or of the last update.
EntryDate(entry) ==
  LET at == IF entry.published # None THEN entry.published ELSE entry.updated
  IN  IF at = None THEN Unknown ELSE OneDay(at)

EntryUsable(feed, entry) ==
  /\ entry.title # Blank /\ entry.links # <<>>
  /\ IsHttpUrl(Join(feed.url, EntryLinks(entry)[1].href))

FeedDiscover(feed) ==
  LET entries == Filtered(feed.entries, LAMBDA e : EntryUsable(feed, e))
  IN  Bound([i \in DOMAIN entries |->
        Stub(entries[i].title, Join(feed.url, EntryLinks(entries[i])[1].href),
             EntryDate(entries[i]), entries[i].id, feed.url, Blank)])

\* The videos of a YouTube channel need no page.
FeedPlan(stub, media_strategy) ==
  IF media_strategy = "youtube_channel" THEN <<>> ELSE Plan(stub.url, "rss_detail")

\* enrich_youtube: the video is the event's one medium, published on the entry's day.
FeedEnrichYoutube(stub) ==
  BuildEvent(stub, stub.title, DetectEventType(<<stub.title>>), "Unknown", stub.date_hint,
             Blank, Blank, <<>>, <<>>,
             << [Medium(stub.url, "Video", stub.source_url) EXCEPT
                   !.platform = "youtube", !.access = "Open",
                   !.published = stub.date_hint.start] >>,
             "Open", "RecordingAvailable")

\* Fields, media and access come from an HTML page only; the page's date wins over
\* the feed's.
FeedEnrich(stub, media_strategy, pages) ==
  LET html   == pages # <<>> /\ pages[1].html
      fields == IF html THEN ExtractHtmlFields(pages[1]) ELSE NoFields
  IN  IF media_strategy = "youtube_channel" THEN FeedEnrichYoutube(stub)
      ELSE BuildEvent(stub, stub.title, DetectEventType(<<stub.title>>), "Unknown",
                      PageDate(stub, fields), fields.location_text, fields.description,
                      <<>>, <<>>,
                      IF html THEN DetectMedia(pages[1], pages[1].url) ELSE <<>>,
                      IF html THEN ClassifyAccess(pages[1].words) ELSE "Unknown", "Unknown")

=============================================================================

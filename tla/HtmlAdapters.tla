----------------------------- MODULE HtmlAdapters -----------------------------
(***************************************************************************)
(* The two HTML adapters.  The configured one reads the elements that a    *)
(* source's CSS selectors find; the generic one promotes links whose text  *)
(* sounds like an event, and reads detail pages by the shared heuristics.  *)
(*                                                                         *)
(* A list page is [url, fetched, containers, anchors]: the day it was      *)
(* fetched, what the list selector finds and all links of the page.  An    *)
(* element is [direct, all], the text of its own text nodes and all of its *)
(* text; a dated one [datetime, direct, all], which are token sequences.   *)
(***************************************************************************)
EXTENDS JsonLdAdapter

CONSTANTS
  YearWords,   \* the phrases that are a year 19xx or 20xx
  NoSelectors  \* a source without selectors

-----------------------------------------------------------------------------
(* Configured.  `selectors` is a record of the fields a source configures, *)
(* each "absent", "present" or "invalid"; required ones are never absent.  *)

\* A field that the code parses with `?` before it looks at the page.
Broken(selectors, fields) == \E f \in fields : selectors[f] = "invalid"

ConfigRejects(selectors) ==
  selectors # NoSelectors => Broken(selectors, {"list", "list_link", "list_title", "list_date"})

\* first_text, first_text_in: the element's own text, else all of its text.
ElementText(element) == FirstText(<<element.direct, element.all>>)

FirstDate(dates) ==
  LET known == SelectInSeq(dates, LAMBDA d : d # Unknown)
  IN  IF known = 0 THEN Unknown ELSE dates[known]

\* first_date, first_date_in: the first date of the datetime attribute, the own text
\* and all text.  `today` is None on a detail page.
ElementDate(element, today) ==
  LET parse(t) == IF today = None THEN ParseDate(t) ELSE ParseWithReference(t, today)
  IN  FirstDate(<<ParseDate(element.datetime), parse(element.direct), parse(element.all)>>)

\* The links of a list page in order, each with its container.
ListLinks(list) ==
  FlattenSeq([c \in DOMAIN list.containers |->
    LET container == list.containers[c]
    IN  [k \in DOMAIN container.links |-> [container |-> container, link |-> container.links[k]]]])

ConfigStub(list, selectors, item) ==
  Stub(IF selectors.list_title = "present" THEN ElementText(item.container.title) ELSE item.link.text,
       Join(list.url, item.link.href),
       IF selectors.list_date = "present"
       THEN ElementDate(item.container.date, list.fetched)
       ELSE Unknown,
       NoNative, list.url, Blank)

\* The first stub of each URL, if it has a title: a URL counts as seen before its
\* title is looked at.
FirstTitled(stubs) ==
  Picked(stubs, {i \in DOMAIN stubs : /\ \A j \in 1..(i - 1) : stubs[j].url # stubs[i].url
                                     /\ stubs[i].title # Blank})

ConfigDiscover(list, selectors) ==
  LET usable == Filtered(ListLinks(list),
                    LAMBDA l : l.link.href.kind # "none" /\ IsHttpUrl(Join(list.url, l.link.href)))
  IN  Bound(FirstTitled([i \in DOMAIN usable |-> ConfigStub(list, selectors, usable[i])]))

ConfigPlan(stub) == Plan(stub.url, "html_config_detail")

\* The selectors that enrichment parses when there is a page.
ConfigEnrichRejects(selectors, pages) ==
  selectors # NoSelectors =>
    /\ pages # <<>>
    /\ Broken(selectors, {"detail_title", "detail_date", "detail_location",
                          "detail_description", "detail_speaker"})

Optional(selected, element) == IF selected = "present" THEN ElementText(element) ELSE Blank

\* The detail page wins over the list; its dates carry their year or none is read.
ConfigEnrich(stub, selectors, pages) ==
  IF pages = <<>> THEN MinimalEvent(stub)
  ELSE LET found == pages[1].selected
           title == FirstText(<<ElementText(found.title), stub.title>>)
           dated == ElementDate(found.date, None)
           names == IF selectors.detail_speaker = "present"
                    THEN SelectSeq(found.speakers, LAMBDA n : n # Blank) ELSE <<>>
       IN  BuildEvent(stub, title, DetectEventType(<<title>>), "Unknown",
                      IF dated # Unknown THEN dated ELSE stub.date_hint,
                      Optional(selectors.detail_location, found.location),
                      Optional(selectors.detail_description, found.description),
                      [i \in DOMAIN names |-> SpeakerHit(names[i])],
                      [i \in DOMAIN names |-> Talk(title, <<names[i]>>)],
                      DetectMedia(pages[1], pages[1].url),
                      ClassifyAccess(pages[1].words), "Unknown")

-----------------------------------------------------------------------------
(* Generic.                                                                *)

NavStopwords ==
  { "home", "about", "contact", "login", "sign in", "register", "sign up", "menu", "navigation",
    "search", "help", "faq", "privacy", "terms", "sitemap", "back", "next", "previous", "more" }

\* is_nav_href: blank, the bare root, a fragment, script, mail or telephone.
IsNavHref(href) == href.kind \in {"blank", "root", "frag", "other"}

EventKeywords ==
  { "conference", "workshop", "seminar", "lecture", "summer school", "winter school",
    "spring school", "colloquium", "panel", "mini course", "minicourse", "short course",
    "research program", "research programme", "thematic program", "award lecture",
    "prize lecture", "memorial", "symposium", "meeting", "school" }

Months == { "january", "february", "march", "april", "may", "june", "july", "august",
            "september", "october", "november", "december" }

ContainsEventKeyword(text) == SaysAny(text, EventKeywords)

\* A month or a year anywhere, within words too.
ContainsDateLike(text) == \E p \in Months \cup YearWords : Mentions(text, p)

\* A link that is promoted to a stub.
IsEventLink(list, anchor) ==
  /\ anchor.href.kind # "none" /\ anchor.text # Blank
  /\ anchor.text \notin NavStopwords /\ ~ IsNavHref(anchor.href)
  /\ ContainsEventKeyword(anchor.text) \/ ContainsDateLike(anchor.text)
  /\ IsHttpUrl(Join(list.url, anchor.href))

GenericDiscover(list) ==
  LET links == Filtered(list.anchors, LAMBDA a : IsEventLink(list, a))
  IN  Bound([i \in DOMAIN links |->
        Stub(links[i].text, Join(list.url, links[i].href), Unknown, NoNative, list.url,
             links[i].text)])

GenericPlan(stub) == Plan(stub.url, "html_generic_detail")

\* A page whose date text is not understood gives an unknown date; the hint stands
\* in only for a page without date text.
PageDate(stub, fields) ==
  IF fields.date_text # <<>> THEN ParseDate(fields.date_text) ELSE stub.date_hint

GenericEnrich(stub, pages) ==
  IF pages = <<>> THEN MinimalEvent(stub)
  ELSE LET fields == ExtractHtmlFields(pages[1])
           title  == FirstText(<<fields.title, stub.title>>)
       IN  BuildEvent(stub, title, DetectEventType(<<title, fields.description>>), "Unknown",
                      PageDate(stub, fields), fields.location_text, fields.description,
                      <<>>, <<>>, DetectMedia(pages[1], pages[1].url),
                      ClassifyAccess(pages[1].words), "Unknown")

=============================================================================

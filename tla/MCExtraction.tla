----------------------------- MODULE MCExtraction -----------------------------
(***************************************************************************)
(* Sources for Extraction: small documents of every kind that differ where *)
(* the adapters decide something.                                          *)
(***************************************************************************)
EXTENDS Extraction, TLC

\* Texts and what occurs in them.
MCTexts == {"", "a", "b", "Untitled", "workshop on a", "home", "may events", "schooling",
            "slides", "about a", "about b", "room", "other room", "v1", "p", "abstracts"}
MCPhrases == {"workshop", "may", "slides", "presentation", "handout", "program", "abstract",
              "school", "no registration required", "registration required", "2026"}
MCBounded == [t \in MCTexts |->
  CASE t = "workshop on a" -> {"workshop"} [] t = "may events" -> {"may"}
    [] t = "slides" -> {"slides"} [] t = "room" -> {"no registration required"}
    [] OTHER -> {}]
MCInside == [t \in MCTexts |->
  CASE t = "schooling" -> {"school"} [] t = "abstracts" -> {"abstract"} [] OTHER -> {}]
MCSpaced == {"no registration required", "registration required"}
MCVideoIds == {"v1"}
MCEventTypes == {"Event", "EducationEvent"}
MCYearWords == {"2026"}

Path(name) == [dir |-> "", name |-> name, ext |-> ""]
Href(kind, host, path) == [kind |-> kind, host |-> host, path |-> path]
NoHref == Href("none", "", Path(""))
Rel(name) == Href("rel", "", Path(name))
Frag(name) == Href("frag", "", Path(name))

Entry == Page("h", Path("entry"))

\* A page on which the heuristics find what is given.
HtmlPage(title, texts, elements, words, selected) ==
  [url |-> Page("h", Path("a")), html |-> TRUE, h1 |-> title, title |-> "", og_title |-> "b",
   description |-> "", og_description |-> "", long_paragraphs |-> <<"about a">>,
   times |-> texts, date_like |-> <<>>, places |-> <<"room">>, words |-> words,
   elements |-> elements, selected |-> selected]

\* Tokens of date texts.
D(n) == [k |-> "D", n |-> n]
Y(n) == [k |-> "Y", n |-> n]
M(n) == [k |-> "M", n |-> n]
I(n) == [k |-> "I", n |-> n]
Dash == [k |-> "-", n |-> 0]
To   == [k |-> "to", n |-> 0]

DateTexts ==
  { <<>>, <<M(3), D(5)>>, <<D(29), M(2)>>, <<M(3), D(5), Dash, D(7)>>,
    <<D(30), M(12), Dash, D(2), M(1)>>, <<M(3), D(7), Dash, D(5)>>, <<M(0), D(5)>>,
    <<M(3), D(30), Dash, M(4), D(2)>>, <<I(20260305), Dash, I(20260301)>>,
    <<M(3), D(5), Y(2026), To, M(3), D(2), Y(2026)>>, <<D(3), Dash, D(5), M(3), Y(2026)>>,
    <<I(20260303)>> }

-----------------------------------------------------------------------------
(* Robots files.                                                           *)

Patterns == { <<>>, <<"/">>, <<"/", "a">>, <<"/", "*", "b">>, <<"/", "a", "$">> }
AnchoredPatterns == { <<"/">>, <<"/", "*", "a", "$">> }
Targets == { <<"/", "a">>, <<"/", "a", "b">>, <<"/", "%61", "%2f", "b">>, <<"/", "a", "/", "a">> }
MCUnescaped == [c \in {"/", "a", "b", "%61", "%2f", "%2F"} |->
                  CASE c = "%61" -> "a" [] c = "%2f" -> "%2F" [] OTHER -> c]
MCCrawler == "math_talk_radar"

Line(field, value) == [field |-> field, value |-> value]
Lines(patterns) ==
  {Line("user-agent", MCCrawler), Line("user-agent", "*"), Line("crawl-delay", <<>>)}
  \cup {Line(f, p) : f \in {"allow", "disallow"}, p \in patterns}
Files(patterns, n) == UNION {[1..k -> Lines(patterns)] : k \in 0..n}

Source(adapter, document, pages) ==
  [adapter |-> adapter, selectors |-> NoSelectors, media_strategy |-> "", robots |-> <<>>,
   target |-> <<"/">>, document |-> document, pages |-> pages]

AskedSources(patterns, n) ==
  {[Source("indico", [url |-> Entry], {}) EXCEPT !.robots = file, !.target = target] :
     file \in Files(patterns, n), target \in Targets}

-----------------------------------------------------------------------------
(* Feeds.                                                                  *)

FeedEntry(title, links, published, id) ==
  [title |-> title, links |-> links, published |-> published, updated |-> 20260101, id |-> id]
Link(rel, href) == [rel |-> rel, href |-> href]

Feeds ==
  { [url |-> Entry, wellformed |-> TRUE, entries |-> <<
       FeedEntry("a", <<Link("self", Rel("b")), Link("alternate", Rel("a"))>>, 20260305, "1"),
       FeedEntry("", <<Link(NoRel, Rel("b"))>>, None, "2"),
       FeedEntry("b", <<Link("self", Rel("v1"))>>, None, "")>>],
    [url |-> Entry, wellformed |-> FALSE, entries |-> <<>>] }

VideoUrl(host, dir) == Href("abs", host, [dir |-> dir, name |-> "v1", ext |-> ""])
Element(tag, srcs, text) == [tag |-> tag, srcs |-> srcs, text |-> text, title |-> ""]
Pdf(name) == Href("rel", "", [dir |-> "", name |-> name, ext |-> "pdf"])

MediaPage ==
  HtmlPage("a", <<<<M(3), D(5), Y(2026)>>>>,
    << Element("iframe", <<VideoUrl("youtube-nocookie.com", "embed")>>, ""),
       Element("a", <<VideoUrl("youtu.be", "")>>, "a"),
       Element("a", <<Pdf("slides")>>, "a"), Element("a", <<Pdf("abstracts")>>, "b"),
       Element("video", <<Rel("b"), Rel("a")>>, ""), Element("audio", <<Rel("b")>>, ""),
       Element("a", <<Href("abs", "notyoutube.com", [dir |-> "watch", name |-> "v1", ext |-> ""])>>, "b") >>,
    "room", [none |-> TRUE])

FeedSources ==
  {[Source("rss", feed, {MediaPage, [MediaPage EXCEPT !.html = FALSE],
                         [MediaPage EXCEPT !.times = <<<<M(0)>>>>]})
      EXCEPT !.media_strategy = strategy] : feed \in Feeds, strategy \in {"", "youtube_channel"}}

-----------------------------------------------------------------------------
(* Calendars.                                                              *)

Instant(d, timed) == [date |-> d, timed |-> timed]
Vevent(summary, url, uid, dtstart, dtend, duration) ==
  [name |-> "VEVENT", summary |-> summary, url |-> url, uid |-> uid, dtstart |-> dtstart,
   dtend |-> dtend, duration |-> duration]

VeventSet ==
  {Vevent("a", url, uid, Instant(20260228, FALSE), dtend, duration) :
     url \in {NoHref, Rel("a")}, uid \in {NoEid, 100},
     dtend \in {NoValue, Instant(20260228, FALSE), Instant(20260303, TRUE), Instant(20260301, FALSE)},
     duration \in {NoDuration, 2}}
  \cup {Vevent("", NoHref, NoEid, NoValue, NoValue, NoDuration),
        Vevent("b", NoHref, 101, Instant(20260231, FALSE), NoValue, 1)}

Calendar(query, depth, components) ==
  [url |-> [Entry EXCEPT !.query = query], depth |-> depth, components |-> components,
   markup |-> NoPage]

CalendarSources ==
  {Source("ics", Calendar(query, 1, <<[first EXCEPT !.uid = IF @ = NoEid THEN NoEid ELSE 102], second>>),
          {MediaPage, NoPage}) :
     query \in {"", "q"}, first \in VeventSet, second \in VeventSet}
  \cup {Source("ics", Calendar("", 9, <<>>), {}),
        Source("ics", [Calendar("", 1, <<Vevent("b", NoHref, NoEid, NoValue, NoValue, NoDuration)>>)
                         EXCEPT !.markup = MediaPage], {MediaPage})}

-----------------------------------------------------------------------------
(* JSON-LD.                                                                *)

NoSubs == [list |-> FALSE, items |-> <<>>]
Node(about, name, url, id, id_text) ==
  [types |-> {"EducationEvent"}, about |-> about, name |-> name, url |-> url, id |-> id,
   id_text |-> id_text, start_date |-> <<I(20260305)>>, end_date |-> <<I(20260303)>>,
   description |-> "about " \o about, location |-> IF about = "a" THEN "room" ELSE "other room",
   performers |-> <<"p">>, subs |-> NoSubs]

\* Nodes of two events that share a name; `a` comes with any kind of identity.
NodeA == { Node("a", "a", NoHref, NoHref, ""), Node("a", "a", Rel("a"), NoHref, ""),
           Node("a", "a", NoHref, Rel("a"), "a"), Node("a", "a", NoHref, Frag("a"), "#a"),
           Node("a", "", Rel("a"), NoHref, "") }
NodeB == { Node("b", "a", Rel("b"), NoHref, ""), Node("b", "a", NoHref, Frag("b"), "#b"),
           [Node("b", "a", Rel("b"), NoHref, "") EXCEPT
              !.subs = [list |-> FALSE, items |-> <<Node("b", "", NoHref, NoHref, "")>>]],
           Node("b", "b", NoHref, NoHref, "") }
Place == [Node("b", "b", NoHref, NoHref, "") EXCEPT !.types = {"Place"}]

Block(kind, items) == [kind |-> kind, items |-> items]
JsonDocument(name, blocks) == [url |-> Page("h", Path(name)), blocks |-> blocks, words |-> "room"]

Anonymous(node) == node.url.kind = "none" /\ node.id_text = ""

\* The pages that detail requests may bring.  A node without an identity is about
\* the event of the page that it stands on, so none of `a` stands on another's.
JsonPages(a, b) ==
  {JsonDocument("a", <<Block("list", <<b, Place>>)>>)}
  \cup {JsonDocument("a", blocks) :
          blocks \in IF Anonymous(a) THEN {}
                     ELSE {<<Block("node", <<a>>)>>, <<Block("list", <<b>>), Block("node", <<a>>)>>}}

JsonSources ==
  {Source("json_ld", JsonDocument("entry", blocks), JsonPages(a, b)) :
     <<a, b, blocks>> \in UNION {{<<x, y, <<Block("node", <<x>>), Block("graph", <<Place, y>>)>>>>,
                                  <<x, y, <<Block("list", <<y, x>>), Block("node", <<Place>>)>>>>} :
                                   x \in NodeA, y \in NodeB}}

-----------------------------------------------------------------------------
(* HTML.                                                                   *)

SelectorFields == {"list", "list_link", "list_title", "list_date", "detail_title", "detail_date",
                   "detail_location", "detail_description", "detail_speaker"}
AllPresent == [f \in SelectorFields |-> "present"]

Text(t) == [direct |-> t, all |-> t]
Dated(t) == [datetime |-> <<>>, direct |-> <<>>, all |-> t]
Container(links, title, date) == [links |-> links, title |-> Text(title), date |-> Dated(date)]
ListPage(fetched, containers, anchors) ==
  [url |-> Entry, fetched |-> fetched, containers |-> containers, anchors |-> anchors]
Anchor(href, text) == [href |-> href, text |-> text]

Selected == [title |-> Text(""), date |-> Dated(<<I(20260303)>>), location |-> Text("room"),
             description |-> Text(""), speakers |-> <<"p", "", "a">>]
ConfigPages == {HtmlPage("a", <<>>, <<>>, "room", Selected),
                HtmlPage("a", <<>>, <<>>, "b", [Selected EXCEPT !.date = Dated(<<M(0)>>)])}

ConfigSources ==
  {[Source("html_config",
      ListPage(fetched, <<Container(<<Anchor(Rel("a"), "a"), Anchor(Rel("a"), "b")>>, title, text)>>, <<>>),
      ConfigPages) EXCEPT !.selectors = AllPresent] :
     fetched \in {20260101, 20260306, 20260308, 20261231, 20270101, 20271231, 20280301},
     text \in DateTexts, title \in {"a", ""}}
  \cup {[Source("html_config",
           ListPage(20260306, <<Container(<<Anchor(Rel("a"), "a"), Anchor(Href("other", "", Path("")), "a"),
                                            Anchor(Rel("b"), "b"), Anchor(Rel("v1"), "a")>>, "", <<>>)>>, <<>>),
           ConfigPages) EXCEPT !.selectors = s] :
          s \in {NoSelectors} \cup {[AllPresent EXCEPT ![f] = v] :
                                      f \in SelectorFields, v \in {"invalid"}}
                \cup {[AllPresent EXCEPT !.list_title = "absent", !.detail_speaker = "absent",
                                         !.list_date = "absent", !.detail_location = "absent"]}}

GenericSources ==
  {Source("html_generic", ListPage(20260306, <<>>,
     <<Anchor(Rel("a"), "workshop on a"), Anchor(Rel("b"), "home"), Anchor(Frag("a"), "may events"),
       Anchor(Rel("b"), "may events"), Anchor(Rel("b"), "schooling"), Anchor(NoHref, "may events")>>),
     {MediaPage, [MediaPage EXCEPT !.times = <<>>, !.h1 = "", !.og_title = ""]})}

-----------------------------------------------------------------------------

MCSources ==
  AskedSources(Patterns, 3) \cup FeedSources \cup CalendarSources \cup JsonSources
  \cup ConfigSources \cup GenericSources

MCAnchoredSources == AskedSources(AnchoredPatterns, 2)

=============================================================================

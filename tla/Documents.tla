------------------------------- MODULE Documents -------------------------------
(***************************************************************************)
(* What the source adapters share: URLs and how a link is resolved, the    *)
(* fields read from an HTML page by heuristics, access and event type from *)
(* keywords, media links, and the event built from all that.               *)
(*                                                                         *)
(* A text is a value of Texts; what matters of it is which phrases occur   *)
(* in it.  A page is the record of what the selectors of the helpers find. *)
(* An absent or blank text is Blank.                                       *)
(***************************************************************************)
EXTENDS Dates, Arrangement

CONSTANTS
  Texts,      \* titles, names, descriptions, path segments
  Phrases,    \* the keywords that the code looks for, and the months and years
  Bounded,    \* Bounded[t]: the phrases that occur in t between word boundaries
  Inside,     \* Inside[t]: the further ones that occur inside longer words
  Spaced,     \* the phrases of several words or with non-ASCII letters
  Blank       \* no text

ASSUME TextAssumption ==
  /\ Blank \in Texts
  /\ Bounded \in [Texts -> SUBSET Phrases]
  /\ Inside \in [Texts -> SUBSET Phrases]
  /\ Spaced \subseteq Phrases
  /\ Bounded[Blank] = {} /\ Inside[Blank] = {}

\* normalize_text, then substring search.
Mentions(text, phrase) == phrase \in Bounded[text] \cup Inside[text]

\* contains_phrase: words are matched between word boundaries, phrases anywhere.
ContainsPhrase(text, phrase) ==
  phrase \in Bounded[text] \/ (phrase \in Spaced /\ phrase \in Inside[text])

SaysAny(text, phrases) == \E p \in phrases : ContainsPhrase(text, p)

\* The first text of a sequence that is not blank.
FirstText(texts) ==
  LET found == SelectSeq(texts, LAMBDA t : t # Blank)
  IN  IF found = <<>> THEN Blank ELSE Head(found)

-----------------------------------------------------------------------------
(* URLs.  `eid` is the value of the query parameter by which an adapter    *)
(* marks an event that has no URL of its own; `query` is the rest of the   *)
(* query: "" for none, "q" in the encoding that rewriting produces, "raw"  *)
(* in another encoding of the same pairs.                                  *)

NoEid == -1

IsUrl(url) == url = [f \in {"http", "host", "path", "query", "frag", "eid"} |-> url[f]]

Page(host, path) == [http |-> TRUE, host |-> host, path |-> path, query |-> "",
                     frag |-> Blank, eid |-> NoEid]
\* A link target is absolute ("abs"), relative to the host ("rel"), a fragment,
\* the bare root, blank, or of a scheme other than http(s) ("other").
Join(base, href) ==
  CASE href.kind = "abs"   -> Page(href.host, href.path)
    [] href.kind \in {"rel", "root"} -> Page(base.host, href.path)
    [] href.kind = "frag"  -> [base EXCEPT !.frag = href.path.name]
    [] href.kind = "blank" -> [base EXCEPT !.frag = Blank]
    [] OTHER               -> [Page(href.host, href.path) EXCEPT !.http = FALSE]

IsHttpUrl(url) == url.http

\* Parsing and writing the query pairs again.
Reencoded(query) == IF query = "raw" THEN "q" ELSE query

WithEid(url, eid) == [url EXCEPT !.eid = eid]

\* canonicalize_url: no fragment, no www., the pairs of the query in one encoding.
\* Tracking parameters and ports are left out of the model.
CanonicalUrl(url) ==
  [url EXCEPT !.frag = Blank, !.query = Reencoded(@),
              !.host = IF @ = "www.youtube.com" THEN "youtube.com" ELSE @]

\* event_id: the title and the canonical URL.
EventId(title, url) == <<title, CanonicalUrl(url)>>

-----------------------------------------------------------------------------
(* Fields of a page: extract_html_fields.                                  *)

\* The first h1, the first title, og:title.
ExtractTitle(page) == FirstText(<<page.h1, page.title, page.og_title>>)

\* The description metas, else the first paragraph longer than 20 characters.
ExtractDescription(page) ==
  FirstText(<<page.description, page.og_description>> \o page.long_paragraphs)

\* time elements, each by attribute then text, else elements that are named like
\* a date; texts of dates are token sequences.
ExtractDateText(page) ==
  LET found == SelectSeq(page.times \o page.date_like, LAMBDA t : t # <<>>)
  IN  IF found = <<>> THEN <<>> ELSE Head(found)

ExtractLocationText(page) == FirstText(page.places)

NoFields == [title |-> Blank, description |-> Blank, date_text |-> <<>>, location_text |-> Blank]

ExtractHtmlFields(page) ==
  [title |-> ExtractTitle(page), description |-> ExtractDescription(page),
   date_text |-> ExtractDateText(page), location_text |-> ExtractLocationText(page)]

-----------------------------------------------------------------------------
(* Keywords.                                                               *)

Paywalled    == {"subscription", "paywall", "paid", "fee required", "purchase required"}
Login        == {"login required", "sign in", "institutional access", "university login", "sso"}
Registration == {"register", "registration required", "sign up", "rsvp"}
Open         == {"free", "open access", "no registration", "public"}
RegistrationNegations ==
  { "no registration required", "no registration needed", "registration not required",
    "registration not necessary", "no sign up required", "no sign up needed",
    "sign up not required" }

\* classify_access: what closes a page wins over what opens it, and a negated
\* registration is no registration.
ClassifyAccess(words) ==
  LET negated == SaysAny(words, RegistrationNegations)
  IN  IF SaysAny(words, Paywalled) THEN "Paywalled"
      ELSE IF SaysAny(words, Login) THEN "InstitutionLogin"
      ELSE IF ~ negated /\ SaysAny(words, Registration) THEN "RegistrationRequired"
      ELSE IF negated \/ SaysAny(words, Open) THEN "Open" ELSE "Unknown"

\* From specific to generic; the first type one of whose keywords occurs.
TypeKeywords ==
  << <<"MemorialConference", {"memorial conference", "memorial meeting"}>>,
     <<"AwardLecture", {"award lecture", "prize lecture", "memorial lecture"}>>,
     <<"SummerSchool", {"summer school", "winter school", "spring school"}>>,
     <<"DistinguishedLecture", {"distinguished lecture", "plenary lecture"}>>,
     <<"PublicLecture", {"public lecture", "public talk"}>>,
     <<"LectureSeries", {"lecture series", "lecture programme"}>>,
     <<"ResearchProgram", {"research program", "research programme", "thematic program",
                           "semester program"}>>,
     <<"MiniCourse", {"mini course", "minicourse", "short course"}>>,
     <<"Workshop", {"workshop"}>>, <<"Colloquium", {"colloquium"}>>, <<"Panel", {"panel"}>>,
     <<"Seminar", {"seminar"}>>, <<"Conference", {"conference", "meeting", "symposium"}>> >>

\* detect_event_type of the concatenation of some texts.
DetectEventType(texts) ==
  LET found == SelectSeq(TypeKeywords,
                 LAMBDA k : \E t \in ToSet(texts), p \in k[2] : Mentions(t, p))
  IN  IF found = <<>> THEN "Unknown" ELSE Head(found)[1]

-----------------------------------------------------------------------------
(* Media links: detect_media.                                              *)

YoutubeHosts == {"youtube.com", "www.youtube.com", "m.youtube.com", "music.youtube.com",
                 "youtube-nocookie.com", "youtu.be"}

\* classify_video_platform searches the whole URL, so a host that merely ends in a
\* platform's name counts.
VideoPlatform(url) ==
  CASE \/ url.host = "youtu.be"
       \/ url.host \in {"youtube.com", "www.youtube.com", "m.youtube.com", "notyoutube.com"}
          /\ url.path.dir \in {"watch", "embed", "shorts"}
       \/ url.host = "youtube-nocookie.com" /\ url.path.dir = "embed" -> "youtube"
    [] url.host = "vimeo.com" -> "vimeo"
    [] url.host = "bilibili.com" /\ url.path.dir = "video" -> "bilibili"
    [] OTHER -> Blank

CONSTANT VideoIds  \* the path segments and v parameters that are 11-character ids

\* canonical_media_url: the watch form of a YouTube URL with a valid id, which is
\* the last segment of a short, embed or shorts path or the v parameter.
CanonicalMediaUrl(url) ==
  IF /\ url.host \in YoutubeHosts /\ url.path.name \in VideoIds
     /\ url.host = "youtu.be" \/ url.path.dir \in {"watch", "embed", "shorts"}
  THEN Page("www.youtube.com", [dir |-> "watch", name |-> url.path.name, ext |-> ""])
  ELSE url

Medium(url, type, base) ==
  [url |-> url, type |-> type, base |-> base,
   platform |-> IF type = "Video" THEN VideoPlatform(url) ELSE Blank,
   access |-> "Unknown", published |-> None]

\* The type of a linked PDF from the link's text, its title and its path.
PdfType(element, url) ==
  LET says(words) == \E t \in {element.text, element.title, url.path.name}, w \in words :
                       Mentions(t, w)
  IN  IF says({"slides", "presentation", "handout"}) THEN "Slides"
      ELSE IF says({"program"}) THEN "ProgramPdf"
      ELSE IF says({"abstract"}) THEN "AbstractPdf" ELSE "Other"

\* What a resolved <a> is, as a sequence of at most one medium.
ClassifyLink(element, url, base) ==
  IF VideoPlatform(url) # Blank THEN <<Medium(url, "Video", base)>>
  ELSE IF url.path.ext = "pdf" THEN <<Medium(url, PdfType(element, url), base)>>
  ELSE IF url.path.ext \in {"mp4", "webm", "mkv", "mov", "avi", "m4v"}
    THEN <<Medium(url, "Video", base)>>
  ELSE IF url.path.ext \in {"mp3", "ogg", "opus", "wav", "m4a", "aac", "flac"}
    THEN <<Medium(url, "Audio", base)>>
  ELSE <<>>

\* The media of one element: `srcs` are its href or src and those of its sources.
MediaOf(element, base) ==
  FlattenSeq([i \in DOMAIN element.srcs |->
    LET url == Join(base, element.srcs[i])
    IN  CASE element.tag = "a" -> ClassifyLink(element, url, base)
          [] element.tag = "iframe" /\ VideoPlatform(url) # Blank -> <<Medium(url, "Video", base)>>
          [] element.tag = "video" -> <<Medium(url, "Video", base)>>
          [] element.tag = "audio" -> <<Medium(url, "Audio", base)>>
          [] OTHER -> <<>>])

\* push_dedup: the first medium of each canonical URL.
FirstOfEach(media) ==
  LET first(i) == \A j \in 1..(i - 1) :
                    CanonicalMediaUrl(media[j].url) # CanonicalMediaUrl(media[i].url)
      kept     == SelectSeq([i \in DOMAIN media |-> i], first)
  IN  [k \in DOMAIN kept |-> media[kept[k]]]

\* Links first, then embedded players, videos and audio.
DetectMedia(page, base) ==
  LET of(tag) == SelectSeq(page.elements, LAMBDA e : e.tag = tag)
      all     == of("a") \o of("iframe") \o of("video") \o of("audio")
  IN  FirstOfEach(FlattenSeq([i \in DOMAIN all |-> MediaOf(all[i], base)]))

-----------------------------------------------------------------------------
(* Stubs, and the events built from them.                                  *)

Stub(title, url, date, native, source_url, evidence) ==
  [title |-> title, url |-> url, date_hint |-> date, native_id |-> native,
   source_url |-> source_url, evidence |-> evidence]

\* A speaker as an adapter finds it, without the registry's tags.
SpeakerHit(name) == [name |-> name, matched |-> name, role |-> "Speaker", tags |-> {}]

Talk(title, names) ==
  [title |-> title, speakers |-> [i \in DOMAIN names |-> SpeakerHit(names[i])],
   abstract |-> Blank, topics |-> <<>>]

Plan(url, reason) == <<[url |-> url, depth |-> 1, reason |-> reason]>>

\* build_event_from_stub
BuildEvent(stub, title, type, status, date, location, description, people, talks, media, access, online) ==
  [id |-> EventId(title, stub.url), title |-> title, url |-> stub.url, event_type |-> type,
   status |-> status, date |-> date, location |-> location, description |-> description,
   topics |-> <<>>, people |-> people, talks |-> talks, media |-> media,
   access |-> access, online |-> online,
   native_id |-> stub.native_id, source_url |-> stub.source_url]

\* The event of a stub without a page.
MinimalEvent(stub) ==
  BuildEvent(stub, stub.title, DetectEventType(<<stub.title>>), "Unknown", stub.date_hint,
             Blank, Blank, <<>>, <<>>, <<>>, "Unknown", "Unknown")

=============================================================================

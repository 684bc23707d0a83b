---------------------------- MODULE MCScanPipeline ----------------------------
(***************************************************************************)
(* Scenarios for ScanPipeline: one set for each part of the command.       *)
(***************************************************************************)
EXTENDS ScanPipeline

\* Texts: titles and names, with what occurs in them.
MCTexts == {"", "zeta day", "number theory day", "on Zagier", "room", "psychoanalysis",
            "Don Zagier", "Zagier", "ZAGIER", "Someone", "Number Theory", "zeta", "Analysis"}
MCPhrases == {"zeta", "number theory", "zagier", "don zagier", "someone", "analysis"}
MCBounded == [t \in MCTexts |->
  CASE t = "zeta day" -> {"zeta"} [] t = "number theory day" -> {"number theory"}
    [] t = "on Zagier" -> {"zagier"} [] OTHER -> {}]
MCInside == [t \in MCTexts |-> IF t = "psychoanalysis" THEN {"analysis"} ELSE {}]
MCSpaced == {"number theory", "don zagier"}
MCFold == [t \in MCTexts |->
  CASE t \in {"Zagier", "ZAGIER"} -> "zagier" [] t = "Don Zagier" -> "don zagier"
    [] t = "Someone" -> "someone" [] t = "Number Theory" -> "number theory"
    [] t = "zeta" -> "zeta" [] t = "Analysis" -> "analysis" [] OTHER -> ""]
MCWidth == [t \in MCTexts |-> IF t = "Don Zagier" THEN 10 ELSE 6]
MCTopics == << [id |-> "nt", name |-> "Number Theory", aliases |-> <<"zeta">>],
               [id |-> "an", name |-> "Analysis", aliases |-> <<>>] >>
MCScholars == << [name |-> "Someone", aliases |-> <<>>, tags |-> {"curated"}],
                 [name |-> "Don Zagier", aliases |-> <<"Zagier">>, tags |-> {"wolf"}] >>

-----------------------------------------------------------------------------
(* Registries and arguments.                                               *)

Spec1(id) ==
  [id |-> id, name |-> id, enabled |-> TRUE, entrypoint |-> "http", allowed_hosts |-> {"h"},
   max_depth |-> 2, request_budget |-> 20, media_strategy |-> "", adapter |-> "rss",
   selectors |-> NoSelectors, tier |-> IF id = "a" THEN "S" ELSE "B"]
MCEmbedded == <<Spec1("a"), Spec1("b")>>

Selectors(list) == [f \in Required |-> IF f = "list" THEN list ELSE "css"]
Registries ==
  { Unreadable, <<>>, MCEmbedded, <<Spec1("a"), Spec1("a")>> }
  \cup {<<[Spec1("a") EXCEPT !.enabled = on, !.entrypoint = at]>> :
          on \in BOOLEAN, at \in {"none", "ftp", "http"}}
  \cup {<<[Spec1("a") EXCEPT !.allowed_hosts = {""}]>>, <<[Spec1("a") EXCEPT !.request_budget = 0]>>}
  \cup {<<[Spec1("a") EXCEPT !.media_strategy = "youtube_channel", !.adapter = adapter]>> :
          adapter \in {"rss", "ics"}}
  \cup {<<[Spec1("a") EXCEPT !.adapter = "html_config", !.selectors = s]>> :
          s \in {NoSelectors, Selectors("css"), Selectors("")}}

Args ==
  [jobs |-> 8, timezone_known |-> TRUE, today_parses |-> TRUE, sources |-> NotGiven,
   interests |-> NotGiven, scholars |-> NotGiven, state |-> NotGiven, no_state |-> TRUE,
   mode |-> "both", today |-> 20260301, before |-> 2, after |-> 31,
   max_events |-> NoCap, max_talks |-> NoCap]

NoFiles == [p \in Paths |-> Absent]
Series(a, runs, f) == [args |-> a, runs |-> runs, files |-> f]
Scenario(a, found, f) == Series(a, {found}, f)
Result(source, status, found) == [source |-> source, status |-> status, events |-> found]

\* An event that a source found; what more there is to it is added below.
Event(source, id, url) ==
  [id |-> id, url |-> url, title |-> "", description |-> "", location |-> "", date |-> Unknown,
   topics |-> <<>>, people |-> <<>>, talks |-> <<>>, media |-> <<>>, online |-> "Unknown",
   sources |-> <<source>>]
Lecture(id, title, names) ==
  [id |-> id, title |-> title, abstract |-> "", topics |-> <<>>, media |-> <<>>,
   speakers |-> [i \in DOMAIN names |-> SpeakerHit(names[i])]]
Recording(type, access) == [url |-> type, type |-> type, access |-> access]

-----------------------------------------------------------------------------
(* Loading: every argument and registry that is refused, and some that are not. *)

Found == <<Result("a", "Ok", <<Event("a", 1, 1)>>)>>

LoadArgs ==
  {[Args EXCEPT !.sources = r] : r \in Registries}
  \cup {[Args EXCEPT !.jobs = 0, !.sources = Unreadable], [Args EXCEPT !.timezone_known = FALSE],
        [Args EXCEPT !.today_parses = FALSE], [Args EXCEPT !.scholars = Unreadable],
        [Args EXCEPT !.interests = Unreadable, !.sources = <<>>], [Args EXCEPT !.interests = Unreadable]}

LoadScenarios == {Scenario(a, Found, NoFiles) : a \in LoadArgs}

-----------------------------------------------------------------------------
(* Results: up to five events of two sources that share some, of which three are *)
(* kept.                                                                   *)

Finds(source) ==
  { <<>>, <<Event(source, 2, 1)>>, <<Event(source, 3, 2), Event(source, 1, 1)>>,
    <<Event(source, 1, 1), Event(source, 2, 2), Event(source, 4, 3)>> }

ResultScenarios ==
  {Scenario([Args EXCEPT !.no_state = FALSE, !.state = "old", !.max_events = 1],
            <<Result("a", s, IF s = "Failed" THEN <<>> ELSE f), Result("b", t, g)>>, NoFiles) :
     s \in {"Ok", "Partial", "Failed"}, t \in {"Ok", "Partial"}, f \in Finds("a"), g \in Finds("b")}
  \cup {Scenario(Args, <<Result("a", "Failed", <<>>), Result("b", "Skipped", <<>>)>>, NoFiles)}

-----------------------------------------------------------------------------
(* Credit: who and what is named where, in two events that may be one.     *)

CreditEvents ==
  {[Event("a", 1, 1) EXCEPT !.title = title, !.description = text, !.people = people, !.talks = talks] :
     title \in {"zeta day", "on Zagier"},
     text \in {"", "number theory day", "psychoanalysis"},
     people \in {<<>>, <<SpeakerHit("ZAGIER"), SpeakerHit("Don Zagier")>>,
                 <<[SpeakerHit("Don Zagier") EXCEPT !.role = "Organizer"]>>},
     talks \in {<<>>, <<Lecture(1, "zeta day", <<>>), Lecture(2, "number theory day", <<"Someone">>)>>}}
CreditOthers ==
  {[Event("b", 2, url) EXCEPT !.title = "zeta day", !.location = "room", !.talks = talks] :
     url \in {1, 2},
     talks \in {<<Lecture(1, "zeta day", <<"Zagier">>)>>, <<Lecture(3, "on Zagier", <<>>)>>}}
CreditScenarios ==
  {Scenario(Args, <<Result("a", "Ok", <<e>>), Result("b", "Ok", <<f>>)>>, NoFiles) :
     e \in CreditEvents, f \in CreditOthers}

-----------------------------------------------------------------------------
(* Output: three events that differ in date, media, talks and rank.        *)

OutputEvents ==
  LET talk(n) == [i \in 1..n |-> Lecture(i, "", <<>>)]
      day(from, to) == [start |-> from, end |-> to, precision |-> "Range"]
  IN  << [Event("b", 1, 1) EXCEPT !.date = day(20260226, 20260227), !.talks = talk(2), !.title = "zeta day"],
         [Event("a", 2, 2) EXCEPT !.media = <<Recording("Video", "Open")>>, !.talks = talk(3)],
         [Event("a", 3, 3) EXCEPT !.date = day(20260401, None), !.talks = talk(1), !.online = "Hybrid",
                                  !.media = <<Recording("Slides", "Unknown")>>] >>
OutputScenarios ==
  {Scenario([Args EXCEPT !.mode = mode, !.max_events = me, !.max_talks = mt, !.interests = i],
            <<Result("b", "Partial", SubSeq(OutputEvents, 1, 1)),
              Result("a", "Partial", SubSeq(OutputEvents, 2, 3))>>, NoFiles) :
     mode \in {"upcoming", "recordings", "both"}, me \in {NoCap, 0, 2},
     mt \in {NoCap, 0, 1, 4}, i \in {NotGiven, ("nt" :> 40), ("nt" :> -5)}}

-----------------------------------------------------------------------------
(* Files: what older and newer versions, other programs and errors left.   *)

Row(form, source, at) == [form |-> form, source |-> source, at |-> at, parses |-> TRUE]
Db(version, h, c) ==
  [version |-> version, events_parse |-> TRUE, rows |-> {}, health |-> h, changes |-> c]
Broken(row) == [row EXCEPT !.parses = FALSE]

Dbs ==
  { Db(1, {Row("bare", "a", NoTime), Row("bare", "b", 1)}, {}),
    Db(2, {Row("bare", "a", 1), Broken(Row("bare", "b", 1))}, {}),
    Db(3, {Row("variable", "a", 1), Row("variable", "a", 2), Row("bare", "b", NoTime)},
          {Row("variable", "added", 1), Row("variable", "added", 2)}),
    Db(3, {Row("variable", "a", 1), Row("bare", "a", 1)}, {}),
    Db(3, {Row("variable", "a", 1)}, {Broken(Row("variable", "added", 1))}),
    Db(4, {Row("fixed", "a", 1)}, {Row("fixed", "added", 1)}),
    [Db(4, {Row("fixed", "a", 1)}, {}) EXCEPT !.events_parse = FALSE],
    Db(4, {Broken(Row("fixed", "a", 1))}, {}),
    Db(5, {Row("fixed", "a", 1)}, {}) }

FileScenarios ==
  {Scenario([Args EXCEPT !.no_state = FALSE, !.state = path], Found, ("old" :> old @@ "new" :> new)) :
     path \in {NotGiven, "new"},
     old \in {Absent, Directory, Garbage} \cup {Database(e, db) : e \in {"legacy", "current"}, db \in Dbs},
     new \in {Absent, Link, Database("current", Db(4, {Row("fixed", "b", 1)}, {}))}}

-----------------------------------------------------------------------------
(* Series: a laureate's lecture that one run finds and the next one may miss. *)

Zagiers == Lecture(1, "zeta day", <<"Zagier">>)
Others  == Lecture(1, "zeta day", <<"Someone">>)

\* What a source may give of the event: with the lecture, with the same one by someone
\* else, without it, or nothing.
Gives(source, id) ==
  {Result(source, status, <<[Event(source, id, 1) EXCEPT !.talks = talks]>>) :
     status \in {"Ok", "Partial"}, talks \in {<<>>, <<Zagiers>>}}
  \cup {Result(source, "Ok", <<[Event(source, id, 1) EXCEPT !.talks = <<Others>>]>>),
         Result(source, "Failed", <<>>)}

Stored(source, id, talks) ==
  EnrichScholars(EnrichTopics([Event(source, id, 1) EXCEPT !.talks = talks]))

\* The second source's event has the lesser id, so that rows change their ids, too.
SeriesScenarios ==
  {Series([Args EXCEPT !.no_state = FALSE, !.state = "new"],
          {<<f, g>> : f \in Gives("a", 2), g \in Gives("b", 1)},
          ("old" :> Absent @@ "new" :> file)) :
     file \in {Absent,
               Database("current", [Db(4, {}, {}) EXCEPT
                 !.rows = {Stored("b", 1, <<Others>>),
                           Stored("a", 2, <<Zagiers, Lecture(2, "on Zagier", <<"ZAGIER">>)>>)}])}}

MCScenarios ==
  SeriesScenarios \cup LoadScenarios \cup ResultScenarios \cup CreditScenarios \cup OutputScenarios \cup FileScenarios

=============================================================================

------------------------------- MODULE Registry -------------------------------
(***************************************************************************)
(* The source registry and the arguments of a scan: what is refused before *)
(* any request is sent or the state is opened, and with which exit code.   *)
(*                                                                         *)
(* A file that an argument names is its contents, or Unreadable: missing,  *)
(* not TOML, or with a field of the wrong type.  A registry is a sequence  *)
(* of source records.                                                      *)
(***************************************************************************)
EXTENDS Integers, Sequences, SequencesExt

CONSTANTS
  Unreadable,   \* a file that cannot be read or parsed
  NotGiven,     \* an argument that is absent
  NoSelectors,  \* a source without a table of selectors
  Embedded      \* the registry shipped with the binary

Empty == ""  \* a string without a visible character

\* Required selectors of a configured HTML page.
Required == {"list", "list_link", "detail_title", "detail_date"}

EntrypointOk(source) == source.enabled => source.entrypoint = "http"

\* Only the video strategy of feeds is supported.
StrategyOk(source) ==
  source.media_strategy # Empty => source.media_strategy = "youtube_channel" /\ source.adapter = "rss"

SelectorsOk(source) ==
  source.adapter = "html_config" =>
    /\ source.selectors # NoSelectors
    /\ \A field \in Required : source.selectors[field] # Empty

ValidSource(source) ==
  /\ source.id # Empty /\ source.name # Empty
  /\ EntrypointOk(source)
  /\ Empty \notin source.allowed_hosts
  /\ source.max_depth >= 1 /\ source.request_budget >= 1
  /\ StrategyOk(source)
  /\ SelectorsOk(source)

\* SourcesConfig::validate; which fault comes first only changes the message.
Validate(registry) ==
  /\ \A i, j \in DOMAIN registry : registry[i].id = registry[j].id => i = j
  /\ \A i \in DOMAIN registry : ValidSource(registry[i])

\* The registry, or Unreadable if it is refused.
LoadSources(file) ==
  LET registry == IF file = NotGiven THEN Embedded ELSE file
  IN  IF registry = Unreadable THEN Unreadable
      ELSE IF Validate(registry) THEN registry ELSE Unreadable

Enabled(registry) == SelectSeq(registry, LAMBDA s : s.enabled)

Tiers(registry) ==
  [id \in {registry[i].id : i \in DOMAIN registry} |->
     registry[SelectInSeq(registry, LAMBDA s : s.id = id)].tier]

\* context::load: 0, or the exit code of the first thing that is wrong.
LoadExit(args) ==
  LET registry == LoadSources(args.sources)
  IN  IF args.jobs = 0 THEN 2
      ELSE IF ~ args.timezone_known \/ ~ args.today_parses \/ registry = Unreadable THEN 3
      ELSE IF Enabled(registry) = <<>> THEN 4
      ELSE IF args.interests = Unreadable \/ args.scholars = Unreadable THEN 3
      ELSE 0

=============================================================================

------------------------------ MODULE Enrichment ------------------------------
(***************************************************************************)
(* What radar-core adds to the candidates of a scan: topics and scholars   *)
(* of the curated registries, and the union of the events that are one.    *)
(*                                                                         *)
(* An event has the fields that Documents gives it, a sequence of sources, *)
(* and an id; ids are numbered in the order of the strings, and what a     *)
(* source found is under one key, the URL's.  A talk has an id too.        *)
(***************************************************************************)
EXTENDS Documents

EventFields ==
  { "id", "url", "title", "description", "location", "date", "topics", "people", "talks",
    "media", "online", "sources" }
TalkFields == {"id", "title", "abstract", "topics", "media", "speakers"}
PersonFields == {"name", "matched", "role", "tags"}

CONSTANTS
  Topics,    \* the topic registry, a sequence of [id, name, aliases]
  Scholars,  \* the scholar registry, a sequence of [name, aliases, tags]
  Fold,      \* Fold[t]: the phrase normalize_name makes of a name; Blank of a blank one
  Width      \* Width[t]: the length of a name as it is written

ASSUME RegistryAssumption ==
  /\ Topics \in Seq(ToSet(Topics))
  /\ \A t \in ToSet(Topics) : t.aliases \in Seq(ToSet(t.aliases))
  /\ Scholars \in Seq(ToSet(Scholars))
  /\ \A s \in ToSet(Scholars) : s.aliases \in Seq(ToSet(s.aliases))
  /\ Fold \in [Texts -> Phrases \cup {Blank}]
  /\ Width \in [Texts -> Nat]

\* A candidate of a registry entry occurs in the text.
Named(text, surface) == Fold[surface] # Blank /\ ContainsPhrase(text, Fold[surface])

Surfaces(entry) == <<entry.name>> \o entry.aliases

-----------------------------------------------------------------------------
(* Topics.  Confidence is in tenths.                                       *)

\* The best match of one topic: its name, else its first alias that occurs.
BestMatch(text, topic) ==
  LET first == SelectInSeq(Surfaces(topic), LAMBDA s : Named(text, s))
  IN  IF first = 0 THEN <<>>
      ELSE <<[topic |-> topic.id, matched |-> Surfaces(topic)[first],
              confidence |-> IF Named(text, topic.name) THEN 10 ELSE 8]>>

\* Fault: the first match of a topic stays, however weak.
MergeTopicFirst(target, match) ==
  IF \E i \in DOMAIN target : target[i].topic = match.topic THEN target
  ELSE Append(target, match)

\* A topic is in the list once; a match replaces a weaker one in its place.
MergeTopic(target, match) ==
  LET same == SelectInSeq(target, LAMBDA t : t.topic = match.topic)
  IN  IF same = 0 THEN Append(target, match)
      ELSE IF match.confidence > target[same].confidence THEN [target EXCEPT ![same] = match]
      ELSE target

MergeTopics(target, matches) == FoldLeft(MergeTopic, target, matches)

MatchTopics(text) ==
  MergeTopics(<<>>, FlattenSeq([i \in DOMAIN Topics |-> BestMatch(text, Topics[i])]))

\* A talk keeps its own topics and gains those of its title and abstract.
TalkTopics(talk) ==
  MergeTopics(talk.topics, MergeTopics(MatchTopics(talk.title), MatchTopics(talk.abstract)))

\* enrich_event_topics: the event's own texts, then what its talks are about.
EnrichTopics(event) ==
  LET own    == MergeTopics(MatchTopics(event.title), MatchTopics(event.description))
      talks  == [i \in DOMAIN event.talks |->
                   [event.talks[i] EXCEPT !.topics = TalkTopics(event.talks[i])]]
      rollup == FlattenSeq([i \in DOMAIN talks |-> talks[i].topics])
  IN  IF Topics = <<>> THEN event
      ELSE [event EXCEPT !.talks = talks,
              !.topics = MergeTopics(MergeTopics(event.topics, own), MergeTopics(<<>>, rollup))]

-----------------------------------------------------------------------------
(* Scholars.                                                               *)

\* matches_normalized
GoesBy(scholar, name) == \E s \in ToSet(Surfaces(scholar)) : Fold[s] = Fold[name]

\* enrich_person_from_registry: a person without tags gets those of the first
\* scholar who goes by the name, and the canonical name.
EnrichPerson(person) ==
  LET found == SelectInSeq(Scholars, LAMBDA s : GoesBy(s, person.name))
  IN  IF person.tags # {} \/ found = 0 THEN person
      ELSE [person EXCEPT !.tags = Scholars[found].tags, !.name = Scholars[found].name]

EnrichPeople(people) == [i \in DOMAIN people |-> EnrichPerson(people[i])]

\* The last of the longest names that occur.
LongestNamed(text, scholar) ==
  LET found == SelectSeq(Surfaces(scholar), LAMBDA s : Named(text, s))
  IN  Last(SelectSeq(found, LAMBDA s : \A t \in ToSet(found) : Width[t] <= Width[s]))

\* match_scholars_normalized of a title, the context in which the scan calls it.  A name
\* of several words is found inside longer ones, too (ContainsPhrase, Spaced).
TitleHits(text) ==
  LET hit == Filtered(Scholars, LAMBDA s : \E n \in ToSet(Surfaces(s)) : Named(text, n))
  IN  [i \in DOMAIN hit |-> [name |-> hit[i].name, matched |-> LongestNamed(text, hit[i]),
                             role |-> "TitleMention", tags |-> hit[i].tags]]

\* A hit is added unless a person of that name is there.
AddHit(people, hit) ==
  IF \E i \in DOMAIN people : Fold[people[i].name] = Fold[hit.name] THEN people
  ELSE Append(people, hit)

\* enrich_event_scholars
EnrichScholars(event) ==
  LET talks == [i \in DOMAIN event.talks |->
                  [event.talks[i] EXCEPT !.speakers = EnrichPeople(@)]]
  IN  IF Scholars = <<>> THEN event
      ELSE [event EXCEPT !.talks = talks,
              !.people = FoldLeft(AddHit, EnrichPeople(event.people), TitleHits(event.title))]

-----------------------------------------------------------------------------
(* Union of two events: merge_in_place.                                    *)

\* The elements of b whose key is new are added to a, as each comes.
UnionBy(Key(_), a, b) ==
  FoldLeft(LAMBDA all, x : IF \E i \in DOMAIN all : Key(all[i]) = Key(x) THEN all
                           ELSE Append(all, x), a, b)

UnionPeople(a, b) == UnionBy(LAMBDA p : <<p.name, p.role>>, a, b)
UnionMedia(a, b)  == UnionBy(LAMBDA m : m.url, a, b)
UnionTopics(a, b) == UnionBy(LAMBDA t : t.topic, a, b)

MergeTalk(keep, other) ==
  [keep EXCEPT !.speakers = UnionPeople(@, other.speakers), !.media = UnionMedia(@, other.media),
     !.topics = UnionTopics(@, other.topics),
     !.abstract = IF @ = Blank THEN other.abstract ELSE @]

AddTalk(talks, talk) ==
  LET same == SelectInSeq(talks, LAMBDA t : t.id = talk.id)
  IN  IF same = 0 THEN Append(talks, talk) ELSE [talks EXCEPT ![same] = MergeTalk(@, talk)]

\* The one with the lesser id keeps its fields; the other one fills the gaps.
MergeEvents(a, b) ==
  LET keep  == IF a.id <= b.id THEN a ELSE b
      other == IF a.id <= b.id THEN b ELSE a
  IN  [keep EXCEPT
         !.sources = UnionBy(LAMBDA s : s, @, other.sources),
         !.media = UnionMedia(@, other.media),
         !.talks = FoldLeft(AddTalk, @, other.talks),
         !.people = UnionPeople(@, other.people),
         !.topics = UnionTopics(@, other.topics),
         !.location = IF @ = Blank THEN other.location ELSE @,
         !.description = IF @ = Blank THEN other.description ELSE @,
         !.date = IF @.start = None THEN other.date ELSE @]

=============================================================================

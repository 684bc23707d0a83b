----------------------------- MODULE Presentation -----------------------------
(***************************************************************************)
(* What a scan shows of the events it stored: the score, the order, and    *)
(* the cut to the mode, the window and the two caps.                       *)
(***************************************************************************)
EXTENDS Enrichment, TLC

CONSTANTS
  NoCap,     \* a cap that the command line does not give
  Neutral    \* an interest weight that is missing or not finite

-----------------------------------------------------------------------------
(* score_event.  Interest weights are in percent.                          *)

\* InterestWeights::weight
Weight(interests, topic) ==
  LET w == IF topic \in DOMAIN interests THEN interests[topic] ELSE Neutral
  IN  IF w = Neutral THEN 100 ELSE IF w < 0 THEN 0 ELSE IF w > 100 THEN 100 ELSE w

\* 15 * (0.5 + 0.5 w), rounded half up.
Contribution(weight) == (15 * (100 + weight) + 100) \div 200

AtMost(cap, n) == IF n <= cap THEN n ELSE cap

Highest(numbers) == Max(numbers \cup {0})

TopicScore(event, interests) ==
  AtMost(30, Total([i \in DOMAIN event.topics |->
                      Contribution(Weight(interests, event.topics[i].topic))], Len(event.topics)))

MediaSignal(medium) ==
  CASE medium.type = "Video" /\ medium.access = "Open" -> 25
    [] medium.type = "Video" /\ medium.access = "RegistrationRequired" -> 18
    [] medium.type = "Audio" /\ medium.access = "Open" -> 15
    [] medium.type \in {"Slides", "LectureNotes"} -> 10
    [] OTHER -> 0

AccessSignal(online) ==
  CASE online = "Livestream" -> 15 [] online = "Hybrid" -> 12
    [] online = "RecordingExpected" -> 10 [] OTHER -> 0

TierSignal(tiers, source) ==
  IF source \notin DOMAIN tiers THEN 0
  ELSE CASE tiers[source] = "S" -> 10 [] tiers[source] = "A" -> 7 [] tiers[source] = "B" -> 4
         [] OTHER -> 0

Laureate(person) == person.tags \cap {"fields", "abel", "wolf", "crafoord"} # {}

\* A mention in a title is worth nothing.
PersonSignal(person) ==
  CASE person.role \in {"TitleMention", "Unknown"} -> 0
    [] person.role \in {"Speaker", "Lecturer"} /\ Laureate(person) -> 10
    [] person.role \in {"Organizer", "Panelist"} /\ Laureate(person) -> 5
    [] OTHER -> 3

\* The media and the people of an event and of its talks.
AllMedia(event) ==
  ToSet(event.media) \cup UNION {ToSet(event.talks[i].media) : i \in DOMAIN event.talks}

AllPeople(event) ==
  ToSet(event.people) \cup UNION {ToSet(event.talks[i].speakers) : i \in DOMAIN event.talks}

CompletenessScore(event) ==
    (IF event.description # Blank THEN 3 ELSE 0)
  + (IF \E i \in DOMAIN event.talks : event.talks[i].abstract # Blank THEN 3 ELSE 0)
  + (IF event.location # Blank THEN 2 ELSE 0)
  + (IF Len(event.talks) >= 3 THEN 2 ELSE 0)

ScoreComponents(event, tiers, interests) ==
  [topic        |-> TopicScore(event, interests),
   media        |-> Highest({MediaSignal(m) : m \in AllMedia(event)}),
   access       |-> AccessSignal(event.online),
   source_tier  |-> Highest({TierSignal(tiers, s) : s \in ToSet(event.sources)}),
   people       |-> Highest({PersonSignal(p) : p \in AllPeople(event)}),
   completeness |-> CompletenessScore(event)]

ScoreEvent(event, tiers, interests) ==
  LET c == ScoreComponents(event, tiers, interests)
  IN  c.topic + c.media + c.access + c.source_tier + c.people + c.completeness

-----------------------------------------------------------------------------
(* Order, window, caps.                                                    *)

\* By score, highest first, then by id.
Ranked(events, tiers, interests) ==
  LET score  == [i \in DOMAIN events |-> ScoreEvent(events[i], tiers, interests)]
      before == {p \in (DOMAIN events) \X (DOMAIN events) :
                   \/ score[p[1]] > score[p[2]]
                   \/ score[p[1]] = score[p[2]] /\ Sooner(events, p)}
      at     == Arranged(DOMAIN events, before)
  IN  [n \in DOMAIN events |-> events[at[n]]]

\* The day n days before or after.
DaysFrom(date, n, Step(_)) == FoldLeft(LAMBDA d, i : Step(d), date, [i \in 1..n |-> i])

\* matches_mode_and_window
MatchesModeAndWindow(event, args) ==
  LET dated  == event.date.start # None
      mode   == args.mode
      inside == IntervalOverlap(event.date, DaysFrom(args.today, args.before, PreviousDay),
                                DaysFrom(args.today, args.after, NextDay))
      media  == event.media # <<>>
  IN  CASE mode = "recordings" -> media /\ (dated => inside)
        [] mode = "upcoming"   -> dated /\ inside
        [] OTHER               -> IF dated THEN inside ELSE media

FirstOf(events, cap) == IF cap = NoCap THEN events ELSE SubSeq(events, 1, AtMost(Len(events), cap))

TalksBefore(events, i) == Total([k \in DOMAIN events |-> Len(events[k].talks)], i - 1)

\* Fault: every event may show the whole budget of talks.
CutTalksEach(events, budget) ==
  [i \in DOMAIN events |->
     [events[i] EXCEPT !.talks = SubSeq(@, 1, AtMost(Len(@), budget))]]

\* The talk budget: spent from the top, and an event that finds nothing left of it
\* ends the list, unless there is none to begin with.
CutTalks(events, budget) ==
  LET left(i) == Highest({budget - TalksBefore(events, i)})
      kept    == {i \in DOMAIN events : left(i) > 0 \/ budget = 0}
  IN  [i \in 1..Cardinality(kept) |->
         [events[i] EXCEPT !.talks = SubSeq(@, 1, AtMost(Len(@), left(i)))]]

Matching(events, args) == Picked(events, {i \in DOMAIN events : MatchesModeAndWindow(events[i], args)})

TalkBudget(args) == IF args.max_talks = NoCap THEN 300 ELSE args.max_talks

\* filter_output
FilterOutput(events, args) ==
  CutTalks(FirstOf(Matching(events, args), args.max_events), TalkBudget(args))

=============================================================================

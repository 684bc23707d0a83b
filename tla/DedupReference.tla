---------------------------- MODULE DedupReference ----------------------------
(***************************************************************************)
(* What deduplication promises: events are taken in canonical order, and   *)
(* each is merged into the first cluster whose representative shares an    *)
(* identity key with it, or founds a cluster of its own.  The search is    *)
(* the linear one of reference_dedup_events.                               *)
(*                                                                         *)
(* An event is what identity and order depend on.  Its URL and its title   *)
(* are numbers in the order of the strings, ids are hashes in the order of *)
(* ids; dates, places and organizers are the keys that start_date,         *)
(* location_key and normalize_name make of them.  An evidence is one       *)
(* source's record of an event: the page it was found on, its domain and a *)
(* native id if it has one; evidences are numbered in the order in which   *)
(* canonical_cmp compares them.                                            *)
(***************************************************************************)
EXTENDS Naturals, Sequences, FiniteSets, FiniteSetsExt

CONSTANTS
  Evidence,      \* evidences, numbered in canonical order
  PageOf,        \* source and URL of an evidence, one number for both
  NativeOf,      \* source and native id of an evidence, or None
  DomainOf,      \* registrable domain of an evidence, or None
  Url,           \* URLs
  CanonicalUrl,  \* their canonical forms: no fragment, no tracking, ...
  Title,         \* titles
  Normalized,    \* their normal forms: case and white space do not count
  Inputs,        \* the events that a pass may be given
  MaxEvents      \* bound: events of one pass

None == 0

Event == [id : Nat, title : Title, url : Url \cup {None}, date : Nat, place : Nat, organizer : Nat,
          sources : Seq(Evidence)]

Representative == {e \in Event : e.sources # <<>>}

\* The scalar keys there are: none has a missing date, organizer or place.
ScalarKey ==
  LET Present == Nat \ {None}
  IN  ({"Url"} \X Nat) \cup ({"Organizer", "Location"} \X Nat \X Present \X Present)

\* An extracted event has one source.
ASSUME DedupAssumption ==
  /\ Evidence \subseteq Nat
  /\ PageOf \in [Evidence -> Nat]
  /\ NativeOf \in [Evidence -> Nat]
  /\ DomainOf \in [Evidence -> Nat]
  /\ Url \subseteq Nat /\ CanonicalUrl \in [Url -> Nat]
  /\ Title \subseteq Nat /\ Normalized \in [Title -> Nat]
  /\ Inputs \subseteq Event
  /\ \A e \in Inputs : Len(e.sources) = 1
  /\ MaxEvents \in Nat

VARIABLES
  taken,     \* the events taken so far, in canonical order (the sorted input)
  clusters   \* the representatives

refVars == <<taken, clusters>>

-----------------------------------------------------------------------------
(* Identity.                                                               *)

\* The first organizer, or the domain of the first source.
OrganizerOf(e) == IF e.organizer # None THEN e.organizer ELSE DomainOf[e.sources[1]]

ScalarKeys(e) ==
  {<<"Url", CanonicalUrl[u]>> : u \in {e.url} \ {None}}
  \cup {<<"Organizer", Normalized[e.title], d, o>> :
          d \in {e.date} \ {None}, o \in {OrganizerOf(e)} \ {None}}
  \cup {<<"Location", Normalized[e.title], d, p>> : d \in {e.date} \ {None}, p \in {e.place} \ {None}}

\* The native keys of the sources at the given places of e's list.
NativeKeysAt(e, places) ==
  {<<"Native", n>> : n \in {NativeOf[e.sources[i]] : i \in places} \ {None}}

NativeKeys(e) == NativeKeysAt(e, 1..Len(e.sources))

\* Fault: a native id is taken to say all.
IdentityKeysOfStrongest(e) == IF NativeKeys(e) = {} THEN ScalarKeys(e) ELSE NativeKeys(e)

IdentityKeys(e) == ScalarKeys(e) \cup NativeKeys(e)

-----------------------------------------------------------------------------
(* Canonical order.                                                        *)

\* Sources s come after t: lexicographically, a prefix first.
SourcesAfter(s, t) ==
  \E i \in 1..Len(s) :
    /\ \A j \in 1..(i - 1) : j <= Len(t) /\ s[j] = t[j]
    /\ i <= Len(t) => s[i] > t[i]

\* canonical_cmp(a, b).is_gt(), the descriptions left out.
After(a, b) ==
  \/ a.id > b.id
  \/ /\ a.id = b.id
     /\ \/ a.url > b.url
        \/ a.url = b.url /\ SourcesAfter(a.sources, b.sources)
        \/ a.url = b.url /\ a.sources = b.sources /\ a.title > b.title

\* Fault: events are taken as the sources answered.
AnyOrder(e) == TRUE

\* The input is sorted: no event comes before one already taken.
InOrder(e) == taken # <<>> => ~ After(taken[Len(taken)], e)

-----------------------------------------------------------------------------
(* Merging.                                                                *)

Or(a, b) == IF a # None THEN a ELSE b

\* keep with its gaps filled from other.
Filled(keep, other, sources) ==
  [keep EXCEPT !.url = Or(@, other.url), !.date = Or(@, other.date),
               !.place = Or(@, other.place), !.organizer = Or(@, other.organizer),
               !.sources = sources]

HasPage(sources, page) == \E i \in 1..Len(sources) : PageOf[sources[i]] = page

\* Sources without the one of the given page; a cluster has at most one.
WithoutPage(sources, page) ==
  IF HasPage(sources, page)
  THEN LET i == CHOOSE n \in 1..Len(sources) : PageOf[sources[n]] = page
       IN  SubSeq(sources, 1, i - 1) \o SubSeq(sources, i + 1, Len(sources))
  ELSE sources

\* A page is listed once: the first evidence of it counts.
Merged(keep, e) ==
  LET new  == e.sources[1]
      page == PageOf[new]
  IN  IF After(keep, e)
      THEN Filled(e, keep, <<new>> \o WithoutPage(keep.sources, page))
      ELSE Filled(keep, e, IF HasPage(keep.sources, page) THEN keep.sources
                           ELSE Append(keep.sources, new))

-----------------------------------------------------------------------------

RefInit == taken = <<>> /\ clusters = <<>>

\* The clusters that e duplicates.
Matches(e) ==
  {p \in 1..Len(clusters) : IdentityKeys(clusters[p]) \cap IdentityKeys(e) # {}}

Found(e) == clusters' = Append(clusters, e)

MergeInto(p, e) == clusters' = [clusters EXCEPT ![p] = Merged(@, e)]

Take(e) ==
  /\ Len(taken) < MaxEvents
  /\ InOrder(e)
  /\ taken' = Append(taken, e)

RefTake(e) ==
  /\ Take(e)
  /\ IF Matches(e) = {} THEN Found(e) ELSE MergeInto(Min(Matches(e)), e)

RefNext == \E e \in Inputs : RefTake(e)

RefSpec == RefInit /\ [][RefNext]_refVars

=============================================================================

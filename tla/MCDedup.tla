-------------------------------- MODULE MCDedup --------------------------------
(* Two evidences of one page with different native ids, and one of another *)
(* page that shares the native id of the first; only the latter has a      *)
(* place, or an organizer, who goes by the domain of the others.  URLs 1   *)
(* and 2 are one page, titles 1 and 2 one title in two spellings.          *)
EXTENDS Dedup

MCEvidence == 1..3
MCPageOf == <<1, 1, 2>>
MCNativeOf == <<1, 2, 1>>
MCDomainOf == <<1, 1, None>>

MCUrl == 1..3
MCCanonicalUrl == <<1, 1, 2>>
MCTitle == 1..2
MCNormalized == <<1, 1>>

\* Events as adapters build them, the id that of the URL, and others, which have
\* no URL but may have any id.
MCInputs ==
  {e \in [id : 1..2, title : MCTitle, url : MCUrl \cup {None}, date : 0..1, place : 0..1,
          organizer : 0..1, sources : {<<s>> : s \in MCEvidence}] :
     /\ e.place # None => e.date # None /\ e.sources = <<3>>
     /\ e.organizer # None => e.date # None /\ e.sources = <<3>> /\ e.place = None
     /\ e.url # None => e.id = MCCanonicalUrl[e.url]
     /\ e.title = 2 <=> e.url = 2}

=============================================================================

----------------------------- MODULE JsonLdAdapter -----------------------------
(***************************************************************************)
(* The JSON-LD adapter.  A document is [url, blocks, words]: the parsed    *)
(* ld+json scripts of a page in order (malformed ones are skipped by the   *)
(* parser and left out) and the page's words.  A block is a node ("node"), *)
(* an array of nodes ("list"), or an object whose @graph is a node or an   *)
(* array ("graph").  The fields of a node are Blank, a date <<>> and a     *)
(* link of kind "none", when they are missing or not strings; `id_text` is *)
(* the @id as written and `id` the same as a link.                         *)
(***************************************************************************)
EXTENDS IcsAdapter

CONSTANTS EventTypes  \* the @type values that are "Event" or end in it

NoNative == Blank

IsEventType(node) == \E t \in node.types : t \in EventTypes

\* find_events
FindEvents(block) ==
  IF block.kind = "node" /\ IsEventType(block.items[1]) THEN <<block.items[1]>>
  ELSE IF block.kind = "list" THEN Filtered(block.items, IsEventType)
  ELSE IF block.kind = "graph" THEN Filtered(block.items, IsEventType)
  ELSE <<>>

EventNodes(document) ==
  FlattenSeq([b \in DOMAIN document.blocks |-> FindEvents(document.blocks[b])])

\* resolve_jsonld_locator: blank and fragment-only values locate nothing.
Locates(base, href) ==
  /\ href.kind \notin {"none", "blank", "frag"}
  /\ IsHttpUrl(Join(base, href))

\* parse_jsonld_date_range: an end before the start is ignored.
ParseJsonLdDateRange(node) ==
  LET start == ParseDate(node.start_date)
      end   == ParseDate(node.end_date)
  IN  IF start # Unknown /\ end # Unknown /\ end.start >= start.start
      THEN [start EXCEPT !.end = end.start] ELSE start

\* The URL of a node is its url, else its @id, else the document's marked with the
\* ordinal of the node over all blocks.
JsonLdStub(document, i) ==
  LET node == EventNodes(document)[i]
      url  == IF Locates(document.url, node.url) THEN Join(document.url, node.url)
              ELSE IF Locates(document.url, node.id) THEN Join(document.url, node.id)
              ELSE WithEid(document.url, i - 1)
  IN  Stub(IF node.name = Blank THEN "Untitled" ELSE node.name, url,
           ParseJsonLdDateRange(node), node.id_text, document.url, Blank)

JsonLdDiscover(document) ==
  Bound([i \in DOMAIN EventNodes(document) |-> JsonLdStub(document, i)])

\* urls_match_ignoring_mtr_eid
UrlsMatchIgnoringEid(a, b) ==
  \/ a = b
  \/ [a EXCEPT !.eid = NoEid, !.query = Reencoded(@)]
       = [b EXCEPT !.eid = NoEid, !.query = Reencoded(@)]

JsonLdPlan(stub) ==
  IF UrlsMatchIgnoringEid(stub.url, stub.source_url) THEN <<>> ELSE Plan(stub.url, "jsonld_detail")

-----------------------------------------------------------------------------
(* Enrichment.                                                             *)

\* The node names the stub: by url or @id resolved, or by @id as written.
IsIdentity(node, stub, base) ==
  \/ Locates(base, node.url) /\ Join(base, node.url) = stub.url
  \/ node.id_text # Blank /\ node.id_text = stub.native_id
  \/ Locates(base, node.id) /\ Join(base, node.id) = stub.url

\* Fault: a node that names another event may match by its name.
IsNameMatchOfAny(node, stub) == node.name # Blank /\ node.name = stub.title

\* A node that carries no identity matches by its name.
IsNameMatch(node, stub) ==
  /\ node.url.kind \in {"none", "blank"} /\ node.id_text = Blank
  /\ node.name # Blank /\ node.name = stub.title

\* The nodes whose facts the event takes: those that name it, else the only one of
\* its name.
Resolved(document, stub) ==
  LET named  == SelectSeq(EventNodes(document), LAMBDA n : IsIdentity(n, stub, document.url))
      titled == SelectSeq(EventNodes(document),
                  LAMBDA n : ~ IsIdentity(n, stub, document.url) /\ IsNameMatch(n, stub))
  IN  IF named # <<>> THEN named ELSE IF Len(titled) = 1 THEN titled ELSE <<>>

\* A talk is made only for performers.
TalkOf(title, performers) == IF performers = <<>> THEN <<>> ELSE <<Talk(title, performers)>>

\* iter_subevents: an array is taken as it is, a single one must be an event.
SubEvents(node) ==
  IF node.subs.list THEN node.subs.items ELSE SelectSeq(node.subs.items, IsEventType)

\* One talk of all performers, and one of each subevent with performers.
TalksOf(node, stub) ==
  TalkOf(stub.title, node.performers)
  \o FlattenSeq([i \in DOMAIN SubEvents(node) |->
       LET sub == SubEvents(node)[i]
       IN  TalkOf(IF sub.name = Blank THEN stub.title ELSE sub.name, sub.performers)])

\* `documents` holds the detail page or, without a plan, the listing.
JsonLdEnrich(stub, documents) ==
  LET nodes == IF documents = <<>> THEN <<>> ELSE Resolved(documents[1], stub)
  IN  BuildEvent(stub, stub.title, DetectEventType(<<stub.title>>), "Unknown", stub.date_hint,
                 FirstText([i \in DOMAIN nodes |-> nodes[i].location]),
                 FirstText([i \in DOMAIN nodes |-> nodes[i].description]),
                 <<>>,
                 FlattenSeq([i \in DOMAIN nodes |-> TalksOf(nodes[i], stub)]),
                 <<>>,
                 IF documents = <<>> THEN "Unknown" ELSE ClassifyAccess(documents[1].words),
                 "Unknown")

=============================================================================

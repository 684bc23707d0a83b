--------------------------------- MODULE Dedup ---------------------------------
(***************************************************************************)
(* dedup_indexed: deduplication with a blocking index from identity keys   *)
(* to clusters, kept up to date key by key as representatives change, and  *)
(* the aliases that the state repository gets.  One step is one pass of    *)
(* the loop.                                                               *)
(***************************************************************************)
EXTENDS DedupReference

VARIABLES
  index,         \* which keys lead to which clusters: pairs of a key and a place
  cluster_keys,  \* the scalar keys under which each cluster is in the index
  id_aliases     \* ids replaced by that of their cluster: a function

dedupVars == <<taken, clusters, index, cluster_keys, id_aliases>>

DedupTypeOK ==
  /\ taken \in Seq(Inputs)
  /\ clusters \in Seq(Representative)
  /\ cluster_keys \in Seq(SUBSET ScalarKey)
  /\ DOMAIN id_aliases \subseteq Nat
  /\ \A i \in DOMAIN id_aliases : id_aliases[i] \in Nat

DedupInit ==
  /\ RefInit
  /\ index = {} /\ cluster_keys = <<>> /\ id_aliases = <<>>

-----------------------------------------------------------------------------

Entries(keys, p) == {<<k, p>> : k \in keys}

Candidates(keys) == {p \in 1..Len(clusters) : \E k \in keys : <<k, p>> \in index}

\* Fault: the strongest key decides, not the earliest cluster.
FirstMatchOfStrongestKey(e) ==
  LET byUrl == Candidates({k \in IdentityKeys(e) : k[1] = "Url"})
  IN  IF byUrl # {} THEN Min(byUrl) ELSE Min(Candidates(IdentityKeys(e)))

\* The earliest cluster over all keys of e.
FirstMatch(e) == Min(Candidates(IdentityKeys(e)))

\* No key of e is in the index: it founds a cluster.
FoundCluster(e) ==
  /\ Take(e)
  /\ Candidates(IdentityKeys(e)) = {}
  /\ Found(e)
  /\ index' = index \cup Entries(IdentityKeys(e), Len(clusters) + 1)
  /\ cluster_keys' = Append(cluster_keys, ScalarKeys(e))
  /\ UNCHANGED id_aliases

\* The aliases once e has joined the cluster of keep.
AliasesWith(keep, e) ==
  IF e.id = keep.id THEN id_aliases
  ELSE [i \in DOMAIN id_aliases \cup {e.id} |-> IF i = e.id THEN keep.id ELSE id_aliases[i]]

\* Fault: native ids that a replaced representative loses stay in the index.
StaleNativeKept(p, keep, e) == {}

\* The native entries that go with a replaced representative.
StaleNative(p, keep, e) == IF After(keep, e) THEN Entries(NativeKeys(keep), p) ELSE {}

\* The native entries of the sources that came with e: all of them, if the
\* representative was replaced.
NewNative(p, keep, e) ==
  LET start == IF After(keep, e) THEN 0 ELSE Len(keep.sources)
      rep   == Merged(keep, e)
  IN  Entries(NativeKeysAt(rep, (start + 1)..Len(rep.sources)), p)

NewScalar(p, keep, e) == Entries(ScalarKeys(Merged(keep, e)) \ cluster_keys[p], p)

StaleScalar(p, keep, e) == Entries(cluster_keys[p] \ ScalarKeys(Merged(keep, e)), p)

MergeCluster(e) ==
  /\ Take(e)
  /\ Candidates(IdentityKeys(e)) # {}
  /\ LET p    == FirstMatch(e)
         keep == clusters[p]
     IN  /\ MergeInto(p, e)
         /\ id_aliases' = AliasesWith(keep, e)
         /\ index' = ((index \ StaleNative(p, keep, e)) \ StaleScalar(p, keep, e))
                     \cup NewScalar(p, keep, e) \cup NewNative(p, keep, e)
         /\ cluster_keys' = [cluster_keys EXCEPT ![p] = ScalarKeys(Merged(keep, e))]

DedupNext == \E e \in Inputs : FoundCluster(e) \/ MergeCluster(e)

DedupSpec == DedupInit /\ [][DedupNext]_dedupVars

-----------------------------------------------------------------------------
(* Properties.                                                             *)

\* The index is exact: a key leads to a cluster if and only if its
\* representative has that key now, whatever fields and sources it gained, and
\* whatever it lost when another event replaced it.
IndexExact ==
  index = UNION {Entries(IdentityKeys(clusters[p]), p) : p \in 1..Len(clusters)}

\* The indexed pass yields the clusters of the linear reference, step by step.
MatchesReference == RefSpec

ClusterIds == {clusters[p].id : p \in 1..Len(clusters)}

\* What the store is handed can be followed: an alias leads to the id of a
\* cluster, a smaller one than its own, and every event's id is either that of a
\* cluster or has an alias.  Representatives never change their id.
AliasesResolve ==
  /\ \A i \in DOMAIN id_aliases : id_aliases[i] \in ClusterIds /\ id_aliases[i] < i
  /\ \A n \in 1..Len(taken) : taken[n].id \in ClusterIds \cup DOMAIN id_aliases

\* Events as build_event_from_stub makes them: with a URL, whose canonical form
\* and the normalized title are what the id is a hash of.
AdapterBuilt ==
  \A m, n \in 1..Len(taken) :
    /\ taken[n].url # None
    /\ taken[m].id = taken[n].id => CanonicalUrl[taken[m].url] = CanonicalUrl[taken[n].url]

\* Of the events that adapters build, no two representatives share an id: the
\* store may key its rows by it.
UniqueIds ==
  AdapterBuilt =>
    \A p, q \in 1..Len(clusters) : clusters[p].id = clusters[q].id => p = q

=============================================================================

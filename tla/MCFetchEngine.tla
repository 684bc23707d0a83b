---------------------------- MODULE MCFetchEngine ----------------------------
(* Two sources on two hosts, sharing one allowlist. *)
EXTENDS FetchEngine, TLC

CONSTANTS f1, f2, a, b, h1, h2, p

MCHostOf == (a :> h1) @@ (b :> h2)
MCAllowed == (f1 :> {h1, h2}) @@ (f2 :> {h1, h2})
MCOrder == <<f1, f2>>
MCEntrypoint == (f1 :> [origin |-> a, path |-> p]) @@ (f2 :> [origin |-> b, path |-> p])

=============================================================================

-------------------------- MODULE MCFetchTransaction --------------------------
(* Two sources; an http origin a and an https origin c on host h1, an http  *)
(* origin b on host h2.  The second source may only talk to h2, the first    *)
(* may be redirected anywhere but from https to http.                        *)
EXTENDS FetchTransaction, TLC

CONSTANTS f1, f2, a, b, c, h1, h2, p, q

MCHostOf == (a :> h1) @@ (b :> h2) @@ (c :> h1)
MCOneHost == a :> h1
MCOneAllowed == f1 :> {h1}
MCAllowed == (f1 :> {h1, h2}) @@ (f2 :> {h2})

=============================================================================

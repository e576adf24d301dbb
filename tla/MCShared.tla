------------------------------- MODULE MCShared -------------------------------
(* Small instances of Admin and NonceCache, which have no state in common: a
   behaviour is one of the administration face or of the cache. *)
EXTENDS Admin, NonceCache, TLC

CONSTANTS r1, r2, l1, l2, l3, pa, pb, bad, p1, c1, c2, c3, c4, n1, n2

\* Two admissions, one per carrier, against two valid reloads and a malformed
\* one, under one health probe.
MCRequests   == {r1, r2}
MCVia        == r1 :> "server" @@ r2 :> "http"
MCReloads    == {l1, l2, l3}
MCOffered    == l1 :> pa @@ l2 :> pb @@ l3 :> bad
MCPolicies   == {pa, pb, bad}
MCWellFormed == {pa, pb}
MCProbes     == {p1}

\* c1 and c2 carry the same DA nonce, c3 carries it too but is issued after
\* c1's entry may have been swept, c4 has a nonce of its own.
MCCerts     == {c1, c2, c3, c4}
MCDANonces  == {n1, n2}
MCNonceOf   == c1 :> n1 @@ c2 :> n1 @@ c3 :> n1 @@ c4 :> n2
MCNotBefore == c1 :> 0 @@ c2 :> 0 @@ c3 :> 3 @@ c4 :> 1
MCNotAfter  == c1 :> 2 @@ c2 :> 2 @@ c3 :> 5 @@ c4 :> 3

SharedInit == Init /\ CacheInit
SharedNext ==
  \/ CacheInit /\ Next /\ UNCHANGED cacheVars
  \/ Init /\ CacheNext /\ UNCHANGED vars
SharedSpec == SharedInit /\ [][SharedNext]_<<vars, cacheVars>>
===============================================================================

----------------------------- MODULE MCReplayStore -----------------------------
(* Four requests share four tokens: a representative token whose DA nonce  *)
(* is checked too, two authorize-mode tokens, the second issued after the   *)
(* first one's markers have lapsed, so that a store of two markers fills,   *)
(* purges and refuses, and a token without a jti.                           *)
EXTENDS ReplayStore, TLC

CONSTANTS r1, r2, r3, r4, ta, tb, tc, tj, na, nd, nb, nc

MCRequests == {r1, r2, r3, r4}
MCTokens   == {ta, tb, tc, tj}
MCNonces   == {na, nd, nb, nc}
MCJti      == ta :> na @@ tb :> nb @@ tc :> nc @@ tj :> NoNonce
MCDaNonce  == ta :> nd @@ tb :> NoNonce @@ tc :> NoNonce @@ tj :> NoNonce
MCIat      == ta :> 0 @@ tb :> 0 @@ tc :> 4 @@ tj :> 0
MCExp      == ta :> 2 @@ tb :> 2 @@ tc :> 5 @@ tj :> 2
MCSymmetry == Permutations({r1, r2, r3, r4})
===============================================================================

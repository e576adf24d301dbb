----------------------------- MODULE MCRevocation -----------------------------
(* Two callers that check repeatedly and four instants, in deployments that     *)
(* vary one concern each.                                                       *)
EXTENDS Revocation

CONSTANTS c1, c2

MCChecks == {c1, c2}

Deny == [url |-> TRUE, issuer |-> TRUE, fallback |-> "deny", checker |-> FALSE]
ByCRL == [Deny EXCEPT !.fallback = "crl", !.checker = TRUE]
OnlyOCSP == [crl |-> FALSE, ocsp |-> TRUE, name |-> "same"]
Both == [OnlyOCSP EXCEPT !.crl = TRUE]

\* The deployments considered: OCSP side and pipeline side.
MCDeployments ==
  {<<ByCRL, OnlyOCSP>>, <<[ByCRL EXCEPT !.checker = FALSE], OnlyOCSP>>,
   <<[ByCRL EXCEPT !.issuer = FALSE], OnlyOCSP>>,
   <<[Deny EXCEPT !.fallback = "allow"], OnlyOCSP>>, <<[ByCRL EXCEPT !.url = FALSE], Both>>,
   <<Deny, [OnlyOCSP EXCEPT !.name = "other"]>>,
   <<Deny, [crl |-> TRUE, ocsp |-> FALSE, name |-> "reordered"]>>}

\* Revoked as the process starts, after the oldest statements; or never.
MCInit == Init /\ <<ocfg, rcfg>> \in MCDeployments /\ revokedAt \in {2, Never}
MCSpec == MCInit /\ [][Next]_vars /\ Fairness
===============================================================================

------------------------------ MODULE Revocation ------------------------------
(***************************************************************************)
(* checkRevocation: the CRL first, then OCSP, whose fallback may consult   *)
(* the CRL again; composed of CRLCache and OCSPCache on one clock and one  *)
(* revocation.                                                             *)
(***************************************************************************)
EXTENDS CRLCache, OCSPCache

VARIABLES
  rcfg,     \* the pipeline's caches and how the certificate spells its issuer
  reported, \* some caller has been told "revoked" by the CRL
  warned    \* warned[c]: that was so when c began

RevocationConfig == [crl : BOOLEAN, ocsp : BOOLEAN, name : {"same", "reordered", "other"}]

vars == <<now, revokedAt, crlVars, ocspVars, rcfg, reported, warned>>

Init ==
  /\ AuthorityInit /\ CRLInit /\ OCSPInit
  /\ rcfg \in RevocationConfig
  /\ reported = FALSE
  /\ warned = [c \in Checks |-> FALSE]

\* checkRevocation up to OCSPCache.Check; a caller checks again and again.
Begin(c) ==
  /\ pc[c] \in {"idle", "done"}
  /\ warned' = [warned EXCEPT ![c] = reported]
  /\ LET answer == IF rcfg.crl THEN IsRevokedCert(rcfg.name) ELSE "no"
     IN /\ reported' = (reported \/ answer = "revoked")
        /\ \/ /\ answer # "no"
              /\ Decide(c, "refused")
              /\ Goto(c, "done")
           \/ /\ answer = "no" /\ rcfg.ocsp
              /\ Goto(c, "lookup")
              /\ verdict' = [verdict EXCEPT ![c] = "none"]
              /\ at' = [at EXCEPT ![c] = Zero]
           \/ /\ answer = "no" /\ ~rcfg.ocsp
              /\ Decide(c, "ok")
              /\ Goto(c, "done")
  /\ UNCHANGED <<now, revokedAt, crlVars, ocfg, entry, inflight, waitsFor, got, rcfg>>

CheckStep(c) ==
  /\ OCSPStep(c) \/ Fallback(c, IsRevoked(rcfg.name))
  /\ UNCHANGED <<now, revokedAt, crlVars, rcfg, reported, warned>>

\* Only a deployment that uses the CRL has a cache to refresh.
RefreshStep ==
  /\ rcfg.crl \/ ocfg.checker
  /\ CRLStep
  /\ UNCHANGED <<now, revokedAt, ocspVars, rcfg, reported, warned>>

FlushCache == Flush /\ UNCHANGED <<now, revokedAt, crlVars, rcfg, reported, warned>>

Tick == Advance /\ UNCHANGED <<revokedAt, crlVars, ocspVars, rcfg, reported, warned>>

Next ==
  \/ \E c \in Checks : Begin(c) \/ CheckStep(c)
  \/ RefreshStep \/ FlushCache \/ Tick

\* A goroutine that can go on does; the responder answers or the client times out.
Fairness == \A c \in Checks : WF_vars(CheckStep(c))

Spec == Init /\ [][Next]_vars /\ Fairness

(***************************************************************************)
(* Properties.                                                             *)
(***************************************************************************)
\* The sources asked know the certificate: OCSP does, its CRL fallback only under
\* the issuer's own spelling, the CRL of checkRevocation under either order.
Covered ==
  IF rcfg.ocsp THEN ocfg.fallback = "crl" /\ ocfg.checker => rcfg.name = "same"
               ELSE rcfg.name # "other"

Longest == IF TTL > Validity THEN TTL ELSE Validity

\* Bounded staleness: unless the deployment chose to allow,
\* no check accepts the certificate once its revocation is older than the longest
\* life of a statement, whoever fetched, waited, flushed or refreshed meanwhile.
RevocationTakesEffect ==
  \A c \in Checks :
    verdict[c] = "ok" /\ (rcfg.crl \/ rcfg.ocsp)
      /\ (rcfg.ocsp => ocfg.fallback # "allow") /\ Covered
      => at[c] < revokedAt + Longest

\* A certificate one caller was told the CRL revokes is never accepted by a check
\* that begins later: an older list never comes back, an expired one refuses.
NeverUnrevoked == \A c \in Checks : warned[c] => verdict[c] # "ok"

\* The coalescing registers exactly the caller that is fetching, and at most one:
\* whoever fetches is registered, whoever is registered is still at it.
SingleFlight ==
  \A c \in Checks :
    /\ pc[c] \in {"fetch", "store", "release"} => inflight = c
    /\ inflight = c => pc[c] \in {"fetch", "fallback", "store", "release"}

\* No caller is left waiting: every Check returns, whatever the fetcher met.
EveryCheckReturns == \A c \in Checks : pc[c] = "lookup" ~> pc[c] = "done"
===============================================================================

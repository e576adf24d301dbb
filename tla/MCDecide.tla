------------------------------- MODULE MCDecide -------------------------------
(***************************************************************************)
(* Deployments and requests small enough for TLC.  A CA pool is loaded only *)
(* in the modes that accept certificates and a bearer verifier only in      *)
(* those that accept tokens (newAuthenticator), so other combinations are   *)
(* not deployments.                                                         *)
(***************************************************************************)
EXTENDS Decide, TLC

CONSTANTS r1, r2

\* A deployment with everything configured.
Full == [mode |-> "either", cas |-> TRUE, verifier |-> TRUE, evidence |-> TRUE,
         noDecision |-> FALSE, strict |-> TRUE, emitOutcome |-> TRUE,
         outcomeSink |-> TRUE, onError |-> TRUE, audit |-> TRUE,
         requirement |-> TRUE, requester |-> TRUE, proxy |-> TRUE]

\* How credentials are accepted; the rest fully configured.
CredentialConfigs ==
  {c \in {[Full EXCEPT !.mode = m, !.cas = p, !.verifier = v] :
            m \in {"mtls", "bearer", "either"}, p, v \in BOOLEAN} :
     (c.cas => c.mode # "bearer") /\ (c.verifier => c.mode # "mtls")}

\* How evidence is kept and who else decides.
EvidenceConfigs ==
  {[Full EXCEPT !.evidence = e, !.noDecision = n, !.strict = s, !.onError = o,
                !.outcomeSink = k, !.requirement = q, !.requester = a, !.proxy = x] :
     e, n, s, o, k, q, a, x \in BOOLEAN}

GateConfigs == CredentialConfigs \cup EvidenceConfigs

\* Strict or not, behind the proxy or a handler.
PairConfigs ==
  {[Full EXCEPT !.strict = s, !.proxy = x, !.requirement = FALSE] : s, x \in BOOLEAN}

\* Every view that can arrive: only a direct caller hands over a verified
\* certificate, and a chain arrives only over TLS.
AllViews == {v \in ViewType : (v.verified => v.carrier = "direct")
                              /\ (v.chain # "none" => v.secure)}

HTTPView == [carrier |-> "http", verified |-> FALSE, chain |-> "good",
             token |-> "none", secure |-> TRUE]
Anonymous == [HTTPView EXCEPT !.carrier = "direct", !.chain = "none"]

One(v) == r1 :> v @@ r2 :> Anonymous
Pair == [r \in {r1, r2} |-> HTTPView]

\* Every view under every deployment, beside a request without a credential;
\* and two identical requests at once.
AllScenarios ==
  {[cfg |-> c, view |-> One(v)] : c \in GateConfigs, v \in AllViews}
    \cup {[cfg |-> c, view |-> Pair] : c \in PairConfigs}

=============================================================================

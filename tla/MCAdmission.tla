------------------------------ MODULE MCAdmission ------------------------------
(* Two requests over seven kinds of certificate, under families of           *)
(* deployments that vary one concern each.                                   *)
EXTENDS Admission, TLC

CONSTANTS r1, r2, alice, bob

MCRequests   == {r1, r2}
MCSymmetry   == Permutations(MCRequests)
MCPrincipals == {alice, bob}

\* Names of one letter: d for a database, r to read, w to write.

Cap(id)  == [scheme |-> NoScheme, id |-> id]
Read     == Cap(<<"d", ":", "r">>)
Write    == Cap(<<"d", ":", "w">>)
AnyDb    == Cap(<<"d", ":", "*">>)
SchemeRead == [scheme |-> <<"d">>, id |-> <<"r">>]

Grant(caps, rep) == [grants |-> caps, rep |-> rep]

Agt(name, mode, caps, own) ==
  [name |-> name, mode |-> mode, caps |-> caps, pa |-> own, key |-> Agent,
   keyHash |-> alice, signer |-> alice, nonce |-> "n1"]

MCCertificates ==
  { Agt("rep", "representative", {Read, Write}, Grant({Read, Write}, TRUE)),
    Agt("wild", "representative", {AnyDb, SchemeRead}, Grant({Read}, TRUE)),
    [Agt("forged", "authorize", {Read, Write}, None) EXCEPT !.signer = bob],
    [Agt("nohash", "authorize", {Read}, None) EXCEPT !.keyHash = None, !.nonce = None],
    [Agt("self", "authorize", {Read}, Grant({}, FALSE)) EXCEPT !.key = alice, !.nonce = "n2"],
    [Agt("human", "none", {}, Grant({Read, SchemeRead}, FALSE))
       EXCEPT !.keyHash = None, !.signer = None, !.nonce = None],
    [Agt("bare", "none", {}, None)
       EXCEPT !.keyHash = None, !.signer = None, !.nonce = None] }

Plain ==
  [requireAIC |-> FALSE, requireUserPermission |-> FALSE, required |-> {},
   operations |-> 0, freshContext |-> FALSE, evaluator |-> FALSE,
   disallowRepresentative |-> FALSE, rejectOverflow |-> FALSE,
   skipDA |-> FALSE, nonceCache |-> TRUE, userCert |-> alice, bundle |-> None,
   resolver |-> FALSE, principalPA |-> [x \in {alice, bob} |-> None],
   plugins |-> FALSE, served |-> {}]

\* Where the principal's certificate comes from.
Identity == {[Plain EXCEPT !.userCert = u, !.bundle = b, !.resolver = s, !.skipDA = k] :
               u \in {None, alice, bob}, b \in {None, alice}, s \in BOOLEAN, k \in BOOLEAN}
\* Principals whose current certificate grants less, and the gates on grants.
Grants   == {[Plain EXCEPT !.principalPA = [x \in {alice, bob} |-> Grant({Read}, m)],
                           !.rejectOverflow = o, !.disallowRepresentative = d,
                           !.requireUserPermission = n, !.requireAIC = n] :
               m \in BOOLEAN, o \in BOOLEAN, d \in BOOLEAN, n \in BOOLEAN}
\* Required capabilities, with plugins for some schemes.
Required == {[Plain EXCEPT !.required = need, !.plugins = TRUE, !.served = v,
                           !.principalPA = [x \in {alice, bob} |-> Grant({Read}, TRUE)]] :
               need \in {{Read.id}, {Write.id}},
               v \in {{}, {NoScheme}, {<<"d">>}}}
Deployments == Identity \cup Grants \cup Required

\* One operation, or two, under every rule of the operation layer.
Operations == {[Plain EXCEPT !.operations = n, !.freshContext = f, !.evaluator = e] :
                 n \in 1 .. 2, f \in BOOLEAN, e \in BOOLEAN}

MCConfigs == Deployments \cup Operations
================================================================================

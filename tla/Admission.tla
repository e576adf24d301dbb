------------------------------- MODULE Admission -------------------------------
(***************************************************************************)
(* The access pipeline (pipeline.go RunAccessPipeline) with the admission  *)
(* rules it calls (decision.go CheckAdmission) and the operation layer     *)
(* (clc.go evaluateCLCOperations): the ordered gates one request passes,   *)
(* each of which may refuse it, while other requests pass the same gates   *)
(* and share the cache of delegation nonces.                               *)
(*                                                                         *)
(* A gate whose answer depends on nothing the later gates read (validity,  *)
(* revocation, roles, SPIFFE, constraints, plugins) answers freely; what   *)
(* the certificate says of delegation, capabilities and principal is data. *)
(***************************************************************************)
EXTENDS Capabilities

CONSTANTS
  Requests,      \* admissions in flight
  Principals,    \* holders of principal certificates, named by their keys
  Agent,         \* a key that belongs to no principal
  Nonces,        \* DelegationAuthorization nonces
  None,          \* an absent certificate, key hash, nonce, scope or extension
  Certificates,  \* the leaf certificates presented, see Certificate
  Configs,       \* the deployments considered, see Config
  MaxOperations  \* bound on cfg.Operations

\* A PrincipalAuthorization: its grants and whether it allows representation.
PA == [grants : SUBSET Capability, rep : BOOLEAN]

\* What the gates read of a leaf certificate; its name stands for issuer/serial.
Certificate ==
  [name : STRING, mode : {"none", "authorize", "representative"},
   caps : SUBSET Capability, pa : PA \cup {None},
   key : Principals \cup {Agent},        \* the certificate's own SPKI
   keyHash : Principals \cup {None},     \* AIC.PrincipalUid.KeyHash
   signer : Principals \cup {None},      \* who signed the DA, None for no signature
   nonce : Nonces \cup {None}]

\* What they read of PipelineConfig, and the principals' current certificates.
Config ==
  [requireAIC : BOOLEAN, requireUserPermission : BOOLEAN,
   required : SUBSET Ids, operations : 0 .. MaxOperations,
   freshContext : BOOLEAN, evaluator : BOOLEAN,
   disallowRepresentative : BOOLEAN, rejectOverflow : BOOLEAN,
   skipDA : BOOLEAN, nonceCache : BOOLEAN,
   userCert : Principals \cup {None}, bundle : Principals \cup {None},
   resolver : BOOLEAN, principalPA : [Principals -> PA \cup {None}],
   plugins : BOOLEAN, served : SUBSET (Ids \cup {NoScheme})]

ASSUME AdmissionAssumption ==
  /\ Agent \notin Principals /\ None \notin Principals \cup Nonces
  /\ MaxOperations \in Nat
  /\ \A c \in Certificates : c \in Certificate
  /\ \A c \in Certificates : c.name # None
  /\ \A c, d \in Certificates : c.name = d.name => c = d
  /\ \A f \in Configs : f \in Config

VARIABLES
  cfg,        \* the deployment, fixed for a behaviour
  cert,       \* cert[r]: chain[0]
  gate,       \* gate[r]: the next gate, or the answer
  pa,         \* pa[r]: result.PrincipalAuthorization
  decisions,  \* decisions[r]: result.OperationDecisions so far
  carried,    \* carried[r]: the OperationDecisions of the PipelineResult
  effective,  \* effective[r]: EffectiveCaps
  verified,   \* verified[r]: the DA signature was verified for this request
  why,        \* why[r]: the gate that refused, "" for none
  signalled,  \* signalled[r]: a risk violation was recorded
  cache       \* NonceCache: the scope that holds each nonce

vars == <<cfg, cert, gate, pa, decisions, carried, effective, verified, why,
          signalled, cache>>

Gates == {"chain", "roles", "spiffe", "offline", "aic", "pa", "constraints",
          "capabilities", "operations", "mode", "da", "nonce", "intersect",
          "parameters", "registry", "plugins"}

Verdicts == {"allow", "deny", "unresolved"}
NoDecision == "absent"

Scopes == {c.name : c \in Certificates}

Init ==
  /\ cfg \in Configs
  /\ cert \in [Requests -> Certificates]
  /\ gate = [r \in Requests |-> "chain"]
  /\ pa = [r \in Requests |-> cert[r].pa]
  /\ decisions = [r \in Requests |-> <<>>]
  /\ carried = [r \in Requests |-> <<>>]
  /\ effective = [r \in Requests |-> {}]
  /\ verified = [r \in Requests |-> FALSE]
  /\ why = [r \in Requests |-> ""]
  /\ signalled = [r \in Requests |-> FALSE]
  /\ cache = [n \in Nonces |-> None]

HasAIC(r) == cert[r].mode # "none"

\* On to the next gate, with nothing else changed but what the caller changes.
Goto(r, g) == gate' = [gate EXCEPT ![r] = g] /\ UNCHANGED <<cfg, cert, carried, why>>

\* Plausible bug: the nonce is claimed before the signature is verified.
MutantAfter(g) ==
  CASE g = "mode" -> "nonce" [] g = "nonce" -> "da" [] g = "da" -> "intersect"

\* The order of CheckAdmission's last gates: the signature, then the nonce.
After(g) ==
  CASE g = "mode" -> "da" [] g = "da" -> "nonce" [] g = "nonce" -> "intersect"

\* deny: a PipelineResult with a reason and the decisions ds.
DenyWith(r, ds) ==
  /\ gate' = [gate EXCEPT ![r] = "denied"]
  /\ why' = [why EXCEPT ![r] = gate[r]]
  /\ carried' = [carried EXCEPT ![r] = ds]
  /\ UNCHANGED <<cfg, cert>>

Deny(r) == DenyWith(r, <<>>)

\* A check of data that no other gate reads: it passes, or it refuses.
Ask(r, g, next) ==
  /\ gate[r] = g
  /\ Goto(r, next) \/ Deny(r)
  /\ UNCHANGED <<pa, decisions, effective, verified, signalled, cache>>

(***************************************************************************)
(* RunAccessPipeline before CheckAdmission.                                *)
(***************************************************************************)
\* Validity, CRL and OCSP, of the leaf or of every element of the chain.
CheckChain(r) == Ask(r, "chain", "roles")
CheckRoles(r) == Ask(r, "roles", "spiffe")
CheckSPIFFE(r) == Ask(r, "spiffe", "offline")
CheckOfflineLifetime(r) == Ask(r, "offline", "aic")

(***************************************************************************)
(* CheckAdmission.                                                         *)
(***************************************************************************)
\* ParseAIC, RequireAIC, ValidateAIC and the two size rules.
CheckAIC(r) ==
  /\ gate[r] = "aic"
  /\ \/ (cfg.requireAIC => HasAIC(r)) /\ Goto(r, "pa")
     \/ Deny(r)
  /\ UNCHANGED <<pa, decisions, effective, verified, signalled, cache>>

CurrentPrincipalCert == IF cfg.userCert # None THEN cfg.userCert ELSE cfg.bundle

\* VerifyPrincipalKeyHash: principal p is the one the certificate's AIC names.
PrincipalKeyHashMatches(c, p) == c.mode # "none" /\ c.keyHash # None /\ p = c.keyHash

\* Plausible bug: the certificate's own extension always stands.
MutantRefreshedPA(c) == c.pa

\* The current principal certificate's grants replace the certificate's own.
RefreshedPA(c) ==
  LET p == CurrentPrincipalCert
  IN IF p # None /\ cfg.principalPA[p] # None /\ PrincipalKeyHashMatches(c, p)
       THEN cfg.principalPA[p]
       ELSE c.pa

\* Parse, refresh and require the PrincipalAuthorization: the requirement looks
\* at the certificate's own extension.
CheckPA(r) ==
  /\ gate[r] = "pa"
  /\ \/ /\ cfg.requireUserPermission => cert[r].pa # None
        /\ pa' = [pa EXCEPT ![r] = RefreshedPA(cert[r])]
        /\ Goto(r, "constraints")
     \/ UNCHANGED pa /\ Deny(r)
  /\ UNCHANGED <<decisions, effective, verified, signalled, cache>>

\* PA and AIC constraints, RequiredProtocol and RequiredRuleId.
CheckConstraints(r) == Ask(r, "constraints", "capabilities")

\* RequiredCapabilities, over the declarations, or the grants without an AIC.
Declared(r) ==
  IF HasAIC(r) THEN cert[r].caps ELSE IF pa[r] # None THEN pa[r].grants ELSE {}

CheckRequiredCapabilities(r) ==
  /\ gate[r] = "capabilities"
  /\ IF \A req \in cfg.required : AicCapabilityMatches(Declared(r), req)
       THEN Goto(r, "operations")
       ELSE Deny(r)
  /\ UNCHANGED <<pa, decisions, effective, verified, signalled, cache>>

\* Plausible bug: the AIC's verdict alone stands.
MutantCombineDecisions(a, p) == a

\* combineDecisions: deny wins, obligations unite, allow only when both allow.
CombineDecisions(a, p) ==
  CASE "deny" \in {a, p} -> "deny"
    [] a = "allow" /\ p = "allow" -> "allow"
    [] OTHER -> "unresolved"

\* AuthorizeOperation: each source present decides, the verdicts are combined.
SourceAnswers(present) == IF present THEN Verdicts ELSE {NoDecision}

Authorize(a, p) ==
  CASE a = NoDecision -> p
    [] p = NoDecision -> a
    [] OTHER -> CombineDecisions(a, p)

TurnsLeft(r) == Len(decisions[r]) < cfg.operations

\* An operation without any source, or one that cannot be parsed: the refusal
\* carries no decision.
OperationError(r) ==
  /\ gate[r] = "operations"
  /\ TurnsLeft(r)
  /\ Deny(r)
  /\ UNCHANGED <<pa, decisions, effective, verified, signalled, cache>>

\* The verdicts evaluateCLCOperations may let through: allow, and unresolved
\* once the deployment's evaluator confirmed the obligations.
Releases(verdict) == verdict = "allow" \/ (verdict = "unresolved" /\ cfg.evaluator)

\* One turn of the loop: decide, record, and either go on or refuse with the
\* decisions made so far.  A decision goes on with a fresh context when one is
\* required; discharge, the evaluator or the context may still refuse.
DecideOperation(r) ==
  /\ gate[r] = "operations"
  /\ TurnsLeft(r)
  /\ HasAIC(r) \/ pa[r] # None
  /\ \E a \in SourceAnswers(HasAIC(r)), p \in SourceAnswers(pa[r] # None),
        fresh \in IF cfg.freshContext THEN BOOLEAN ELSE {TRUE} :
       LET v  == Authorize(a, p)
           od == [verdict |-> v, aic |-> a, pa |-> p, fresh |-> fresh,
                  released |-> v = "unresolved"]
       IN \/ /\ Releases(v)
             /\ cfg.freshContext => fresh
             /\ decisions' = [decisions EXCEPT ![r] = Append(@, od)]
             /\ Goto(r, "operations")
          \/ /\ v = "allow" => cfg.freshContext /\ ~fresh
             /\ decisions' = [decisions EXCEPT ![r] =
                                Append(@, [od EXCEPT !.released = FALSE])]
             /\ DenyWith(r, decisions'[r])
  /\ UNCHANGED <<pa, effective, verified, signalled, cache>>

OperationsDone(r) ==
  /\ gate[r] = "operations"
  /\ Len(decisions[r]) = cfg.operations
  /\ Goto(r, "mode")
  /\ UNCHANGED <<pa, decisions, effective, verified, signalled, cache>>

\* Representative mode: allowed here, and by the principal's authorization.
CheckDelegationMode(r) ==
  /\ gate[r] = "mode"
  /\ IF cert[r].mode = "representative" =>
          ~cfg.disallowRepresentative /\ pa[r] # None /\ pa[r].rep
       THEN Goto(r, After("mode"))
       ELSE Deny(r)
  /\ UNCHANGED <<pa, decisions, effective, verified, signalled, cache>>

\* Whose certificate verifies the DA: the configured one, the bundle's if it is
\* the named principal's, the resolver's, or the peer's own if it is the
\* principal.  None: the gate refuses.
UserCertOf(c, resolved) ==
  CASE cfg.userCert # None -> cfg.userCert
    [] cfg.userCert = None /\ cfg.bundle # None ->
         IF PrincipalKeyHashMatches(c, cfg.bundle) THEN cfg.bundle ELSE None
    [] cfg.userCert = None /\ cfg.bundle = None /\ cfg.resolver
         /\ c.keyHash # None /\ resolved # None -> resolved
    [] OTHER -> IF c.keyHash # None /\ c.key = c.keyHash THEN c.key ELSE None

\* Plausible bug: no cross-check of the signer against the key hash.
MutantVerifyDelegationAuth(c, userCert) == userCert # None /\ c.signer = userCert

\* VerifyDelegationAuthWithAgent: the signature is the user's, and the user is
\* the principal the AIC names.
VerifyDelegationAuth(c, userCert) ==
  /\ userCert # None
  /\ c.signer = userCert
  /\ c.keyHash # None => userCert = c.keyHash

\* A DA too old is refused as well.
CheckDelegationAuth(r) ==
  /\ gate[r] = "da"
  /\ \/ /\ ~HasAIC(r) \/ cfg.skipDA
        /\ Goto(r, After("da"))
        /\ UNCHANGED verified
     \/ /\ HasAIC(r) /\ ~cfg.skipDA
        /\ \E resolved \in Principals \cup {None} :
             /\ VerifyDelegationAuth(cert[r], UserCertOf(cert[r], resolved))
             /\ Goto(r, After("da"))
             /\ verified' = [verified EXCEPT ![r] = TRUE]
     \/ /\ HasAIC(r) /\ ~cfg.skipDA
        /\ Deny(r)
        /\ UNCHANGED verified
  /\ UNCHANGED <<pa, decisions, effective, signalled, cache>>

\* NonceCache.CheckAndAdd, in the order of the gates: after the signature.
CheckNonce(r) ==
  /\ gate[r] = "nonce"
  /\ LET n == cert[r].nonce
     IN IF ~(HasAIC(r) /\ n # None /\ cfg.nonceCache)
          THEN Goto(r, After("nonce")) /\ UNCHANGED cache
          ELSE IF cache[n] \in {None, cert[r].name}
            THEN /\ cache' = [cache EXCEPT ![n] = cert[r].name]
                 /\ Goto(r, After("nonce"))
            ELSE Deny(r) /\ UNCHANGED cache
  /\ UNCHANGED <<pa, decisions, effective, verified, signalled>>

\* pki-types' intersection, of which only the size is used: the declarations
\* that hit a grant.
IntersectPermissions(c, p) == EffectiveCapabilities(c.caps, GrantIds(p.grants))

\* The effective capabilities: P /\ C for a representative, what the AIC
\* declares otherwise, and the grants for a certificate without an AIC.
Intersect(r) ==
  /\ gate[r] = "intersect"
  /\ LET c == cert[r]
         hit == IntersectPermissions(c, pa[r])
     IN \/ /\ c.mode = "representative"
           /\ IF \/ c.caps # {} /\ hit = {}
                 \/ cfg.rejectOverflow /\ hit # c.caps
                THEN Deny(r) /\ UNCHANGED effective
                ELSE /\ Goto(r, "parameters")
                     /\ effective' = [effective EXCEPT ![r] =
                          EffectiveCapabilities(c.caps, GrantIds(pa[r].grants))]
        \/ /\ c.mode # "representative"
           /\ Goto(r, "parameters")
           /\ effective' = [effective EXCEPT ![r] = Declared(r)]
  /\ UNCHANGED <<pa, decisions, verified, signalled, cache>>

(***************************************************************************)
(* RunAccessPipeline after CheckAdmission: its refusals carry no decisions. *)
(***************************************************************************)
\* A declared parameter beyond the grant it hits.
CheckParameters(r) ==
  /\ gate[r] = "parameters"
  /\ \/ Goto(r, "registry") /\ UNCHANGED signalled
     \/ /\ HasAIC(r) /\ pa[r] # None
        /\ EffectiveCapabilities(effective[r], GrantIds(pa[r].grants)) # {}
        /\ Deny(r)
        /\ signalled' = [signalled EXCEPT ![r] = TRUE]
  /\ UNCHANGED <<pa, decisions, effective, verified, cache>>

\* An effective capability the registry does not know.
CheckRegistered(r) ==
  /\ gate[r] = "registry"
  /\ \/ Goto(r, "plugins") /\ UNCHANGED signalled
     \/ /\ effective[r] # {}
        /\ Deny(r)
        /\ signalled' = [signalled EXCEPT ![r] = TRUE]
  /\ UNCHANGED <<pa, decisions, effective, verified, cache>>

\* requiredCapUnserved: a required capability in a scheme without a plugin.
RequiredUnserved(r) ==
  \E c \in effective[r] :
    c.scheme \notin cfg.served /\ \E req \in cfg.required : AicCapabilityMatches({c}, req)

ServedCaps(r) == {c \in effective[r] : c.scheme \in cfg.served}

\* The plugin of each effective capability's scheme allows, denies (a risk
\* signal) or fails; an unserved scheme is ignored unless it is required.
CheckPlugins(r) ==
  /\ gate[r] = "plugins"
  /\ \/ /\ cfg.plugins => ~RequiredUnserved(r)
        /\ gate' = [gate EXCEPT ![r] = "granted"]
        /\ carried' = [carried EXCEPT ![r] = decisions[r]]
        /\ UNCHANGED <<cfg, cert, why, signalled>>
     \/ /\ cfg.plugins /\ (RequiredUnserved(r) \/ ServedCaps(r) # {})
        /\ Deny(r)
        /\ UNCHANGED signalled
     \/ /\ cfg.plugins /\ ServedCaps(r) # {}
        /\ Deny(r)
        /\ signalled' = [signalled EXCEPT ![r] = TRUE]
  /\ UNCHANGED <<pa, decisions, effective, verified, cache>>

Step(r) ==
  \/ CheckChain(r) \/ CheckRoles(r) \/ CheckSPIFFE(r) \/ CheckOfflineLifetime(r)
  \/ CheckAIC(r) \/ CheckPA(r) \/ CheckConstraints(r)
  \/ CheckRequiredCapabilities(r)
  \/ OperationError(r) \/ DecideOperation(r) \/ OperationsDone(r)
  \/ CheckDelegationMode(r) \/ CheckDelegationAuth(r) \/ CheckNonce(r)
  \/ Intersect(r)
  \/ CheckParameters(r) \/ CheckRegistered(r) \/ CheckPlugins(r)

\* Every request has its answer.
Finished ==
  /\ \A r \in Requests : gate[r] \in {"granted", "denied"}
  /\ UNCHANGED vars

Next == (\E r \in Requests : Step(r)) \/ Finished

Spec == Init /\ [][Next]_vars

(***************************************************************************)
(* Properties.                                                             *)
(***************************************************************************)
\* The grants in force: those of the current principal certificate if it is the
\* one the AIC names and carries any, else the certificate's own.
GrantsInForce(r) ==
  LET p == IF cfg.userCert # None THEN cfg.userCert ELSE cfg.bundle
      current == IF HasAIC(r) /\ p # None /\ p = cert[r].keyHash THEN cfg.principalPA[p] ELSE None
  IN IF current # None THEN current.grants
     ELSE IF cert[r].pa # None THEN cert[r].pa.grants ELSE {}

\* "Permission downgrades take effect without reissuing the agent's AIC"
\* (CheckAdmission's refresh): a representative ends up only with declared
\* capabilities that hit a grant in force, and rejectOverflow with all of them.
DowngradeTakesEffect ==
  \A r \in Requests :
    gate[r] = "granted" /\ cert[r].mode = "representative" =>
      /\ effective[r] \subseteq cert[r].caps
      /\ \A c \in effective[r] : \E g \in GrantsInForce(r) : AicCapabilityMatches({c}, g.id)
      /\ cfg.rejectOverflow => effective[r] = cert[r].caps

\* The DA is signed by the principal the AIC names, if it names one.
Genuine(c) == c.signer # None /\ (c.keyHash # None => c.signer = c.keyHash)

\* Whichever way the user certificate was found, no agent is admitted under a
\* delegation its named principal did not sign (the mandatory DA verification).
DelegationGenuine ==
  \A r \in Requests :
    gate[r] = "granted" /\ HasAIC(r) /\ ~cfg.skipDA => Genuine(cert[r])

\* A replay refusal always has a culprit: another certificate, itself with a
\* genuine delegation, holds the nonce.  A certificate whose delegation does not
\* verify never keeps the owner of a nonce out.
ReplayHasCulprit ==
  \A r \in Requests :
    why[r] = "nonce" =>
      \E c \in Certificates :
        /\ c # cert[r]
        /\ c.nonce = cert[r].nonce
        /\ cache[c.nonce] = c.name
        /\ cfg.skipDA \/ Genuine(c)

\* A granted request had every operation decided, neither source denied it,
\* residual obligations only passed through the evaluator, and a required
\* context was fresh (evaluateCLCOperations' fail-closed rule); the granted
\* result carries all of it.
OperationsSound ==
  \A r \in Requests :
    gate[r] = "granted" =>
      /\ Len(carried[r]) = cfg.operations
      /\ \A k \in DOMAIN carried[r] :
           LET d == carried[r][k]
           IN /\ "deny" \notin {d.aic, d.pa}
              /\ "unresolved" \in {d.aic, d.pa} => d.released /\ cfg.evaluator
              /\ cfg.freshContext => d.fresh

===============================================================================

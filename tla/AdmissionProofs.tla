---------------------------- MODULE AdmissionProofs ----------------------------
(***************************************************************************)
(* Theorems about Admission for any certificates, principals, deployments  *)
(* and number of requests: what the order of CheckAdmission's last gates   *)
(* gives to delegations and to the nonce cache.  Then NonceCache itself,   *)
(* with its sweeper, for any certificates and any clock.                   *)
(***************************************************************************)
EXTENDS Admission, NonceCache, TLAPS

\* The gates a request reaches only after the signature gate.
PastDA == {"nonce", "intersect", "parameters", "registry", "plugins", "granted"}

Control ==
  /\ cfg \in Configs
  /\ cert \in [Requests -> Certificates]
  /\ gate \in [Requests -> Gates \cup {"granted", "denied"}]
  /\ why \in [Requests -> Gates \cup {""}]
  /\ cache \in [Nonces -> Scopes \cup {None}]

\* Past the signature gate a delegation is genuine, unless it is not looked at.
SignatureInv ==
  \A r \in Requests :
    gate[r] \in PastDA => ~HasAIC(r) \/ cfg.skipDA \/ Genuine(cert[r])

\* Every nonce held is held by a certificate that carries it and passed the gate.
CacheInv ==
  \A n \in Nonces :
    cache[n] # None =>
      \E c \in Certificates :
        c.name = cache[n] /\ c.nonce = n /\ (cfg.skipDA \/ Genuine(c))

\* A request refused as a replay met a nonce that another certificate holds, and
\* still holds.
HeldInv ==
  \A r \in Requests :
    why[r] = "nonce" =>
      cert[r].nonce \in Nonces /\ cache[cert[r].nonce] \notin {None, cert[r].name}

IInv == Control /\ SignatureInv /\ CacheInv /\ HeldInv

\* No request has passed a gate and no nonce is held at first.
LEMMA InitIInv == Init => IInv
  <1> SUFFICES ASSUME Init PROVE IInv
    OBVIOUS
  <1>1. /\ \A r \in Requests : gate[r] = "chain" /\ why[r] = ""
        /\ \A n \in Nonces : cache[n] = None
    BY DEF Init
  <1>2. Control
    BY DEF Init, Control, Gates
  <1>3. SignatureInv
    BY <1>1 DEF SignatureInv, PastDA
  <1>4. CacheInv /\ HeldInv
    BY <1>1 DEF CacheInv, HeldInv
  <1>5. QED
    BY <1>2, <1>3, <1>4 DEF IInv

\* A step of a gate other than the last two of interest: it moves one request on,
\* into PastDA only from within, or refuses it, and leaves the cache alone.
LEMMA QuietStep ==
  ASSUME IInv, NEW r \in Requests, NEW g,
         g \in Gates \cup {"granted", "denied"},
         g \in PastDA => gate[r] \in PastDA,
         gate' = [gate EXCEPT ![r] = g],
         \/ why' = why
         \/ gate[r] \in Gates \ {"nonce"} /\ why' = [why EXCEPT ![r] = gate[r]],
         UNCHANGED <<cfg, cert, cache>>
  PROVE  IInv'
  <1>1. Control'
    BY DEF IInv, Control, Scopes
  <1>2. SignatureInv'
    BY DEF IInv, Control, SignatureInv, HasAIC, Genuine
  <1>3. CacheInv'
    BY DEF IInv, CacheInv, Genuine
  <1>4. HeldInv'
    <2> SUFFICES ASSUME NEW s \in Requests, why'[s] = "nonce"
                 PROVE  why[s] = "nonce"
      BY DEF IInv, HeldInv
    <2>1. QED
      BY DEF IInv, Control
  <1>5. QED
    BY <1>1, <1>2, <1>3, <1>4 DEF IInv

\* The same, for a gate that goes on or refuses.
LEMMA QuietGate ==
  ASSUME IInv, NEW r \in Requests, NEW g \in Gates, NEW ds,
         gate[r] \in Gates \ {"nonce"},
         g \in PastDA => gate[r] \in PastDA,
         Goto(r, g) \/ DenyWith(r, ds),
         UNCHANGED cache
  PROVE  IInv'
  <1>1. CASE Goto(r, g)
    BY <1>1, QuietStep DEF Goto
  <1>2. CASE DenyWith(r, ds)
    <2>1. "denied" \notin PastDA
      BY DEF PastDA
    <2>2. QED
      BY <1>2, <2>1, QuietStep DEF DenyWith
  <1>3. QED
    BY <1>1, <1>2

\* The signature gate: it lets a delegation through only if it is genuine.
LEMMA DelegationAuthStep ==
  ASSUME IInv, NEW r \in Requests, CheckDelegationAuth(r)
  PROVE  IInv'
  <1>1. /\ gate[r] = "da" /\ UNCHANGED cache
        /\ \/ Goto(r, "nonce") /\ (~HasAIC(r) \/ cfg.skipDA \/ Genuine(cert[r]))
           \/ Deny(r)
    BY DEF CheckDelegationAuth, After, VerifyDelegationAuth, Genuine
  <1>2. CASE Deny(r)
    BY <1>1, <1>2, QuietGate DEF Deny, Gates
  <1>3. CASE Goto(r, "nonce") /\ (~HasAIC(r) \/ cfg.skipDA \/ Genuine(cert[r]))
    <2>1. /\ gate' = [gate EXCEPT ![r] = "nonce"]
          /\ UNCHANGED <<cfg, cert, why, cache>>
      BY <1>1, <1>3 DEF Goto
    <2>2. Control'
      BY <2>1 DEF IInv, Control, Gates, Scopes
    <2>3. SignatureInv'
      BY <1>3, <2>1 DEF IInv, Control, SignatureInv, HasAIC, Genuine
    <2>4. CacheInv' /\ HeldInv'
      BY <2>1 DEF IInv, CacheInv, HeldInv, Genuine
    <2>5. QED
      BY <2>2, <2>3, <2>4 DEF IInv
  <1>4. QED
    BY <1>1, <1>2, <1>3

\* CheckAndAdd: a free nonce is claimed by a certificate that passed the
\* signature gate, a nonce that is held stays with its holder.
LEMMA NonceStep ==
  ASSUME IInv, NEW r \in Requests, CheckNonce(r)
  PROVE  IInv'
  <1> DEFINE n == cert[r].nonce
  <1>1. gate[r] = "nonce" /\ cert[r] \in Certificates
    BY DEF CheckNonce, IInv, Control
  <1>2. n \in Nonces \cup {None}
    BY <1>1, AdmissionAssumption DEF Certificate
  <1>3. CASE UNCHANGED cache /\ Goto(r, "intersect")
    BY <1>1, <1>3, QuietStep DEF Goto, Gates, PastDA
  <1>4. CASE /\ HasAIC(r) /\ n # None /\ cache[n] \in {None, cert[r].name}
             /\ cache' = [cache EXCEPT ![n] = cert[r].name]
             /\ Goto(r, "intersect")
    <2>1. /\ gate' = [gate EXCEPT ![r] = "intersect"]
          /\ UNCHANGED <<cfg, cert, why>>
      BY <1>4 DEF Goto
    <2>2. n \in Nonces /\ cert[r].name \in Scopes /\ cert[r].name # None
      BY <1>1, <1>2, <1>4, AdmissionAssumption DEF Scopes
    <2>3. cfg.skipDA \/ Genuine(cert[r])
      BY <1>1, <1>4 DEF IInv, SignatureInv, PastDA
    <2>4. Control'
      BY <1>4, <2>1, <2>2 DEF IInv, Control, Gates, Scopes
    <2>5. SignatureInv'
      BY <1>1, <2>1 DEF IInv, Control, SignatureInv, HasAIC, Genuine, PastDA
    <2>6. CacheInv'
      <3> SUFFICES ASSUME NEW k \in Nonces, cache'[k] # None
                   PROVE  \E c \in Certificates :
                            c.name = cache'[k] /\ c.nonce = k /\ (cfg.skipDA \/ Genuine(c))
        BY <2>1 DEF CacheInv, Genuine
      <3>1. CASE k = n
        BY <1>1, <1>4, <2>2, <2>3, <3>1 DEF IInv, Control
      <3>2. CASE k # n
        <4>1. cache'[k] = cache[k]
          BY <1>4, <3>2 DEF IInv, Control
        <4>2. QED
          BY <4>1 DEF IInv, CacheInv
      <3>3. QED
        BY <3>1, <3>2
    <2>7. HeldInv'
      <3> SUFFICES ASSUME NEW s \in Requests, why[s] = "nonce"
                   PROVE  cert[s].nonce \in Nonces /\ cache'[cert[s].nonce] \notin {None, cert[s].name}
        BY <2>1 DEF HeldInv
      <3>1. cert[s].nonce \in Nonces /\ cache[cert[s].nonce] \notin {None, cert[s].name}
        BY DEF IInv, HeldInv
      <3>2. cache'[cert[s].nonce] = cache[cert[s].nonce]
        BY <1>4, <3>1 DEF IInv, Control
      <3>3. QED
        BY <3>1, <3>2
    <2>8. QED
      BY <2>4, <2>5, <2>6, <2>7 DEF IInv
  <1>5. CASE /\ n # None /\ cache[n] \notin {None, cert[r].name}
             /\ Deny(r) /\ UNCHANGED cache
    <2>1. /\ gate' = [gate EXCEPT ![r] = "denied"]
          /\ why' = [why EXCEPT ![r] = "nonce"]
          /\ UNCHANGED <<cfg, cert, cache>>
      BY <1>1, <1>5 DEF Deny, DenyWith
    <2>2. Control'
      BY <2>1 DEF IInv, Control, Gates, Scopes
    <2>3. SignatureInv'
      BY <2>1 DEF IInv, Control, SignatureInv, HasAIC, Genuine, PastDA
    <2>4. CacheInv'
      BY <2>1 DEF IInv, CacheInv, Genuine
    <2>5. HeldInv'
      <3> SUFFICES ASSUME NEW s \in Requests, why'[s] = "nonce"
                   PROVE  cert[s].nonce \in Nonces /\ cache[cert[s].nonce] \notin {None, cert[s].name}
        BY <2>1 DEF HeldInv
      <3>1. CASE s = r
        BY <1>2, <1>5, <3>1
      <3>2. CASE s # r
        BY <2>1, <3>2 DEF IInv, Control, HeldInv
      <3>3. QED
        BY <3>1, <3>2
    <2>6. QED
      BY <2>2, <2>3, <2>4, <2>5 DEF IInv
  <1>6. QED
    BY <1>3, <1>4, <1>5 DEF CheckNonce, After

\* Every other gate only moves its request on or refuses it.
LEMMA OtherGates ==
  ASSUME IInv, NEW r \in Requests,
         Step(r), ~CheckDelegationAuth(r), ~CheckNonce(r)
  PROVE  IInv'
  <1> USE DEF Gates, PastDA
  <1>1. ASSUME NEW g \in Gates, NEW h \in Gates, g # "nonce", g # "da",
               h \in PastDA => g \in PastDA, Ask(r, g, h)
        PROVE  IInv'
    BY <1>1, QuietGate DEF Ask, Deny
  <1>2. CASE CheckChain(r) \/ CheckRoles(r) \/ CheckSPIFFE(r) \/ CheckOfflineLifetime(r)
               \/ CheckConstraints(r)
    BY <1>1, <1>2 DEF CheckChain, CheckRoles, CheckSPIFFE, CheckOfflineLifetime, CheckConstraints
  <1>3. CASE CheckAIC(r)
    BY <1>3, QuietGate DEF CheckAIC, Deny
  <1>4. CASE CheckPA(r)
    BY <1>4, QuietGate DEF CheckPA, Deny
  <1>5. CASE CheckRequiredCapabilities(r)
    BY <1>5, QuietGate DEF CheckRequiredCapabilities, Deny
  <1>6. CASE OperationError(r)
    <2>1. gate[r] = "operations" /\ DenyWith(r, <<>>) /\ UNCHANGED cache
      BY <1>6 DEF OperationError, Deny
    <2>2. QED
      BY <2>1, QuietGate
  <1>7. CASE DecideOperation(r)
    <2>1. /\ gate[r] = "operations" /\ UNCHANGED cache
          /\ Goto(r, "operations") \/ DenyWith(r, decisions'[r])
      BY <1>7 DEF DecideOperation
    <2>2. QED
      BY <2>1, QuietGate
  <1>8. CASE OperationsDone(r)
    BY <1>8, QuietGate DEF OperationsDone
  <1>9. CASE CheckDelegationMode(r)
    <2>1. /\ gate[r] = "mode" /\ UNCHANGED cache
          /\ Goto(r, "da") \/ DenyWith(r, <<>>)
      BY <1>9 DEF CheckDelegationMode, After, Deny
    <2>2. QED
      BY <2>1, QuietGate
  <1>10. CASE Intersect(r)
    <2>1. /\ gate[r] = "intersect" /\ UNCHANGED cache
          /\ Goto(r, "parameters") \/ DenyWith(r, <<>>)
      BY <1>10 DEF Intersect, Deny
    <2>2. QED
      BY <2>1, QuietGate
  <1>11. CASE CheckParameters(r)
    <2>1. /\ gate[r] = "parameters" /\ UNCHANGED cache
          /\ Goto(r, "registry") \/ DenyWith(r, <<>>)
      BY <1>11 DEF CheckParameters, Deny
    <2>2. QED
      BY <2>1, QuietGate
  <1>12. CASE CheckRegistered(r)
    <2>1. /\ gate[r] = "registry" /\ UNCHANGED cache
          /\ Goto(r, "plugins") \/ DenyWith(r, <<>>)
      BY <1>12 DEF CheckRegistered, Deny
    <2>2. QED
      BY <2>1, QuietGate
  <1>13. CASE CheckPlugins(r)
    <2>1. /\ gate[r] = "plugins" /\ UNCHANGED cache
          /\ \/ gate' = [gate EXCEPT ![r] = "granted"] /\ UNCHANGED <<cfg, cert, why>>
             \/ DenyWith(r, <<>>)
      BY <1>13 DEF CheckPlugins, Deny
    <2>2. CASE gate' = [gate EXCEPT ![r] = "granted"] /\ UNCHANGED <<cfg, cert, why>>
      BY <2>1, <2>2, QuietStep
    <2>3. CASE DenyWith(r, <<>>)
      BY <2>1, <2>3, QuietGate
    <2>4. QED
      BY <2>1, <2>2, <2>3
  <1>14. QED
    BY <1>2, <1>3, <1>4, <1>5, <1>6, <1>7, <1>8, <1>9, <1>10, <1>11, <1>12, <1>13 DEF Step

\* The invariant is inductive and holds of every reachable state.
THEOREM Inductive == Spec => []IInv
  <1>1. IInv /\ [Next]_vars => IInv'
    <2> SUFFICES ASSUME IInv, [Next]_vars PROVE IInv'
      OBVIOUS
    <2>1. CASE UNCHANGED vars
      BY <2>1 DEF vars, IInv, Control, SignatureInv, CacheInv, HeldInv, HasAIC, Genuine
    <2>2. ASSUME NEW r \in Requests, Step(r) PROVE IInv'
      BY <2>2, DelegationAuthStep, NonceStep, OtherGates
    <2>3. QED
      BY <2>1, <2>2 DEF Next, Finished
  <1>2. QED
    BY <1>1, InitIInv, PTL DEF Spec

\* No agent is admitted under a delegation its named principal did not sign.
THEOREM DelegationGenuineHolds == Spec => []DelegationGenuine
  <1>1. IInv => DelegationGenuine
    BY DEF IInv, SignatureInv, DelegationGenuine, PastDA
  <1>2. QED
    BY <1>1, Inductive, PTL

\* A replay refusal always has a culprit, itself with a genuine delegation.
THEOREM ReplayHasCulpritHolds == Spec => []ReplayHasCulprit
  <1>1. IInv => ReplayHasCulprit
    <2> SUFFICES ASSUME IInv, NEW r \in Requests, why[r] = "nonce"
                 PROVE  \E c \in Certificates :
                          /\ c # cert[r]
                          /\ c.nonce = cert[r].nonce
                          /\ cache[c.nonce] = c.name
                          /\ cfg.skipDA \/ Genuine(c)
      BY DEF ReplayHasCulprit
    <2>1. cert[r].nonce \in Nonces /\ cache[cert[r].nonce] \notin {None, cert[r].name}
      BY DEF IInv, HeldInv
    <2>2. PICK c \in Certificates : /\ c.name = cache[cert[r].nonce]
                                    /\ c.nonce = cert[r].nonce
                                    /\ cfg.skipDA \/ Genuine(c)
      BY <2>1 DEF IInv, CacheInv
    <2>3. QED
      BY <2>1, <2>2
  <1>2. QED
    BY <1>1, Inductive, PTL

(***************************************************************************)
(* What a request has behind it, by the gates it has passed: the grants in *)
(* force from CheckPA on, one decision per operation from the operation    *)
(* layer on, an authorization to represent from the mode gate on, and the  *)
(* effective capabilities from the intersection on.                        *)
(***************************************************************************)
PastIntersect == {"parameters", "registry", "plugins", "granted"}
PastMode == {"da", "nonce", "intersect"} \cup PastIntersect
PastOperations == {"mode"} \cup PastMode
PastPA == {"constraints", "capabilities", "operations"} \cup PastOperations

Answers == Verdicts \cup {NoDecision}
Decision == [verdict : Answers, aic : Answers, pa : Answers, fresh : BOOLEAN, released : BOOLEAN]

Data ==
  /\ pa \in [Requests -> PA \cup {None}]
  /\ decisions \in [Requests -> Seq(Decision)]
  /\ carried \in [Requests -> Seq(Decision)]
  /\ effective \in [Requests -> SUBSET Capability]

\* No source denied, obligations passed through the evaluator, context fresh.
Sound(d) ==
  /\ "deny" \notin {d.aic, d.pa}
  /\ "unresolved" \in {d.aic, d.pa} => d.released /\ cfg.evaluator
  /\ cfg.freshContext => d.fresh

\* The representative's capabilities: declared, and hitting a grant in force.
Curtailed(r) ==
  /\ effective[r] \subseteq cert[r].caps
  /\ \A c \in effective[r] : \E g \in GrantsInForce(r) : AicCapabilityMatches({c}, g.id)
  /\ cfg.rejectOverflow => effective[r] = cert[r].caps

OperationsInv(r) ==
  /\ gate[r] # "denied" => \A k \in DOMAIN decisions[r] : Sound(decisions[r][k])
  /\ gate[r] \in PastOperations => Len(decisions[r]) = cfg.operations
  /\ gate[r] = "granted" => carried[r] = decisions[r]

GrantsInv(r) ==
  /\ gate[r] \in PastPA => pa[r] = RefreshedPA(cert[r])
  /\ gate[r] \in PastMode /\ cert[r].mode = "representative" => pa[r] # None
  /\ gate[r] \in PastIntersect /\ cert[r].mode = "representative" => Curtailed(r)

DInv == Data /\ \A r \in Requests : OperationsInv(r) /\ GrantsInv(r)

\* What CheckPA puts in place is the authorization the grants in force come from.
LEMMA RefreshedGrants ==
  ASSUME Control, NEW r \in Requests
  PROVE  /\ RefreshedPA(cert[r]) \in PA \cup {None}
         /\ RefreshedPA(cert[r]) # None => GrantsInForce(r) = RefreshedPA(cert[r]).grants
  <1>1. cert[r] \in Certificate /\ cfg \in Config
    BY AdmissionAssumption DEF Control
  <1> DEFINE p == CurrentPrincipalCert
  <1>2. p \in Principals \cup {None} /\ p = IF cfg.userCert # None THEN cfg.userCert ELSE cfg.bundle
    BY <1>1 DEF Config, CurrentPrincipalCert
  <1>3. /\ cert[r].pa \in PA \cup {None}
        /\ \A q \in Principals : cfg.principalPA[q] \in PA \cup {None}
    BY <1>1 DEF Config, Certificate
  <1> HIDE DEF p
  <1>4. RefreshedPA(cert[r]) =
          IF p # None /\ cfg.principalPA[p] # None /\ PrincipalKeyHashMatches(cert[r], p)
            THEN cfg.principalPA[p] ELSE cert[r].pa
    BY DEF RefreshedPA, p
  <1>5. PrincipalKeyHashMatches(cert[r], p) <=> HasAIC(r) /\ cert[r].keyHash # None /\ p = cert[r].keyHash
    BY DEF PrincipalKeyHashMatches, HasAIC
  <1>6. RefreshedPA(cert[r]) \in PA \cup {None}
    BY <1>2, <1>3, <1>4
  <1>7. RefreshedPA(cert[r]) # None => GrantsInForce(r) = RefreshedPA(cert[r]).grants
    BY <1>2, <1>4, <1>5 DEF GrantsInForce
  <1>8. QED
    BY <1>6, <1>7

\* What AuthorizeOperation lets through had no denial and an evaluator for
\* every residual obligation.
LEMMA ReleasedIsSound ==
  ASSUME NEW a \in Answers, NEW b \in Answers, Releases(Authorize(a, b))
  PROVE  /\ "deny" \notin {a, b}
         /\ "unresolved" \in {a, b} => Authorize(a, b) = "unresolved" /\ cfg.evaluator
  <1>1. \A x \in Answers : x \in {"allow", "deny", "unresolved", "absent"}
    BY DEF Answers, Verdicts, NoDecision
  <1>2. CASE a = "absent"
    BY <1>1, <1>2 DEF Authorize, Releases, NoDecision
  <1>3. CASE a # "absent" /\ b = "absent"
    BY <1>1, <1>3 DEF Authorize, Releases, NoDecision
  <1>4. CASE a # "absent" /\ b # "absent"
    <2>1. Authorize(a, b) = CombineDecisions(a, b)
      BY <1>4 DEF Authorize, NoDecision
    <2>2. QED
      BY <1>1, <1>4, <2>1 DEF CombineDecisions, Releases
  <1>5. QED
    BY <1>2, <1>3, <1>4

\* A verdict is one of the answers.
LEMMA AuthorizeType ==
  ASSUME NEW a \in Answers, NEW b \in Answers
  PROVE  Authorize(a, b) \in Answers
  <1>1. CombineDecisions(a, b) \in Answers
    BY DEF Answers, Verdicts, CombineDecisions
  <1>2. Authorize(a, b) \in {a, b, CombineDecisions(a, b)}
    BY DEF Authorize
  <1>3. QED
    BY <1>1, <1>2

\* A step of one request leaves what the others have behind them.
LEMMA OthersData ==
  ASSUME Control, DInv, NEW r \in Requests, Step(r), NEW s \in Requests, s # r
  PROVE  OperationsInv(s)' /\ GrantsInv(s)'
  <1> USE DEF Control, DInv, Data
  <1>1. /\ UNCHANGED <<cfg, cert>> /\ gate'[s] = gate[s] /\ carried'[s] = carried[s]
    <2>1. UNCHANGED <<cfg, cert>>
      BY DEF Step, CheckChain, CheckRoles, CheckSPIFFE, CheckOfflineLifetime, Ask, CheckAIC,
             CheckPA, CheckConstraints, CheckRequiredCapabilities, OperationError,
             DecideOperation, OperationsDone, CheckDelegationMode, CheckDelegationAuth,
             CheckNonce, Intersect, CheckParameters, CheckRegistered, CheckPlugins,
             Goto, Deny, DenyWith
    <2>2. gate'[s] = gate[s]
      BY DEF Step, CheckChain, CheckRoles, CheckSPIFFE, CheckOfflineLifetime, Ask, CheckAIC,
             CheckPA, CheckConstraints, CheckRequiredCapabilities, OperationError,
             DecideOperation, OperationsDone, CheckDelegationMode, CheckDelegationAuth,
             CheckNonce, Intersect, CheckParameters, CheckRegistered, CheckPlugins,
             Goto, Deny, DenyWith
    <2>3. carried'[s] = carried[s]
      BY DEF Step, CheckChain, CheckRoles, CheckSPIFFE, CheckOfflineLifetime, Ask, CheckAIC,
             CheckPA, CheckConstraints, CheckRequiredCapabilities, OperationError,
             DecideOperation, OperationsDone, CheckDelegationMode, CheckDelegationAuth,
             CheckNonce, Intersect, CheckParameters, CheckRegistered, CheckPlugins,
             Goto, Deny, DenyWith
    <2>4. QED
      BY <2>1, <2>2, <2>3
  <1>2. pa'[s] = pa[s]
    BY DEF Step, CheckChain, CheckRoles, CheckSPIFFE, CheckOfflineLifetime, Ask, CheckAIC,
           CheckPA, CheckConstraints, CheckRequiredCapabilities, OperationError,
           DecideOperation, OperationsDone, CheckDelegationMode, CheckDelegationAuth,
           CheckNonce, Intersect, CheckParameters, CheckRegistered, CheckPlugins
  <1>3. decisions'[s] = decisions[s]
    BY DEF Step, CheckChain, CheckRoles, CheckSPIFFE, CheckOfflineLifetime, Ask, CheckAIC,
           CheckPA, CheckConstraints, CheckRequiredCapabilities, OperationError,
           DecideOperation, OperationsDone, CheckDelegationMode, CheckDelegationAuth,
           CheckNonce, Intersect, CheckParameters, CheckRegistered, CheckPlugins
  <1>4. effective'[s] = effective[s]
    BY DEF Step, CheckChain, CheckRoles, CheckSPIFFE, CheckOfflineLifetime, Ask, CheckAIC,
           CheckPA, CheckConstraints, CheckRequiredCapabilities, OperationError,
           DecideOperation, OperationsDone, CheckDelegationMode, CheckDelegationAuth,
           CheckNonce, Intersect, CheckParameters, CheckRegistered, CheckPlugins
  <1>5. /\ GrantsInForce(s)' = GrantsInForce(s) /\ RefreshedPA(cert[s])' = RefreshedPA(cert[s])
        /\ \A d : Sound(d)' <=> Sound(d)
    BY <1>1 DEF GrantsInForce, HasAIC, RefreshedPA, CurrentPrincipalCert,
                PrincipalKeyHashMatches, Sound
  <1>6. QED
    BY <1>1, <1>2, <1>3, <1>4, <1>5 DEF OperationsInv, GrantsInv, Curtailed

\* A gate that changes neither grants, decisions nor capabilities.
LEMMA QuietData ==
  ASSUME Control, DInv, NEW r \in Requests, NEW g \in Gates, NEW ds \in Seq(Decision),
         gate[r] # "denied",
         g \in PastPA => gate[r] \in PastPA,
         g \in PastOperations => gate[r] \in PastOperations,
         g \in PastMode => gate[r] \in PastMode,
         g \in PastIntersect => gate[r] \in PastIntersect,
         Goto(r, g) \/ DenyWith(r, ds),
         UNCHANGED <<pa, decisions, effective>>
  PROVE  Data' /\ OperationsInv(r)' /\ GrantsInv(r)'
  <1>1. /\ UNCHANGED <<cfg, cert>>
        /\ \/ gate'[r] = g /\ carried' = carried
           \/ gate'[r] = "denied" /\ carried' = [carried EXCEPT ![r] = ds]
    BY DEF Goto, DenyWith, Control
  <1>2. Data'
    BY <1>1 DEF DInv, Data
  <1>3. /\ GrantsInForce(r)' = GrantsInForce(r) /\ RefreshedPA(cert[r])' = RefreshedPA(cert[r])
        /\ \A d : Sound(d)' <=> Sound(d)
    BY <1>1 DEF GrantsInForce, HasAIC, RefreshedPA, CurrentPrincipalCert,
                PrincipalKeyHashMatches, Sound
  <1>4. gate'[r] # "granted"
    BY <1>1 DEF Gates
  <1>5. CASE gate'[r] = "denied"
    BY <1>2, <1>5 DEF OperationsInv, GrantsInv, PastPA, PastOperations, PastMode, PastIntersect
  <1>6. CASE gate'[r] = g
    BY <1>1, <1>2, <1>3, <1>4, <1>6 DEF DInv, OperationsInv, GrantsInv, Curtailed
  <1>7. QED
    BY <1>1, <1>5, <1>6

\* CheckPA puts the grants in force in place.
LEMMA PAData ==
  ASSUME Control, DInv, NEW r \in Requests, CheckPA(r)
  PROVE  Data' /\ OperationsInv(r)' /\ GrantsInv(r)'
  <1> USE DEF PastPA, PastOperations, PastMode, PastIntersect
  <1>1. gate[r] = "pa" /\ UNCHANGED <<decisions, effective>>
    BY DEF CheckPA
  <1>2. CASE UNCHANGED pa /\ Deny(r)
    <2>1. <<>> \in Seq(Decision) /\ "pa" \in Gates
      BY DEF Gates
    <2>2. QED
      BY <1>1, <1>2, <2>1, QuietData DEF Deny
  <1>3. CASE pa' = [pa EXCEPT ![r] = RefreshedPA(cert[r])] /\ Goto(r, "constraints")
    <2>1. UNCHANGED <<cfg, cert, carried>> /\ gate'[r] = "constraints"
      BY <1>3 DEF Goto, Control
    <2>2. RefreshedPA(cert[r])' = RefreshedPA(cert[r]) /\ \A d : Sound(d)' <=> Sound(d)
      BY <2>1 DEF RefreshedPA, CurrentPrincipalCert, PrincipalKeyHashMatches, Sound
    <2>3. Data' /\ pa'[r] = RefreshedPA(cert[r])
      BY <1>1, <1>3, <2>1, RefreshedGrants DEF DInv, Data
    <2>4. QED
      BY <1>1, <2>1, <2>2, <2>3 DEF DInv, OperationsInv, GrantsInv
  <1>4. QED
    BY <1>2, <1>3 DEF CheckPA

\* A turn of the operation loop that goes on has appended a sound decision.
LEMMA OperationData ==
  ASSUME Control, DInv, NEW r \in Requests, DecideOperation(r)
  PROVE  Data' /\ OperationsInv(r)' /\ GrantsInv(r)'
  <1> USE DEF PastPA, PastOperations, PastMode, PastIntersect
  <1>1. gate[r] = "operations" /\ UNCHANGED <<pa, effective>>
    BY DEF DecideOperation
  <1>2. cfg.freshContext \in BOOLEAN
    BY AdmissionAssumption DEF Control, Config
  <1>3. PICK a \in SourceAnswers(HasAIC(r)), b \in SourceAnswers(pa[r] # None),
             fresh \in IF cfg.freshContext THEN BOOLEAN ELSE {TRUE} :
          LET v  == Authorize(a, b)
              od == [verdict |-> v, aic |-> a, pa |-> b, fresh |-> fresh,
                     released |-> v = "unresolved"]
          IN \/ /\ Releases(v)
                /\ cfg.freshContext => fresh
                /\ decisions' = [decisions EXCEPT ![r] = Append(@, od)]
                /\ Goto(r, "operations")
             \/ /\ v = "allow" => cfg.freshContext /\ ~fresh
                /\ decisions' = [decisions EXCEPT ![r] =
                                   Append(@, [od EXCEPT !.released = FALSE])]
                /\ DenyWith(r, decisions'[r])
    BY Zenon DEF DecideOperation
  <1> DEFINE v == Authorize(a, b)
             od == [verdict |-> v, aic |-> a, pa |-> b, fresh |-> fresh,
                    released |-> v = "unresolved"]
             no == [od EXCEPT !.released = FALSE]
  <1>4. a \in Answers /\ b \in Answers /\ fresh \in BOOLEAN
    BY <1>2, <1>3 DEF SourceAnswers, Answers
  <1>5. v \in Answers /\ (v = "unresolved") \in BOOLEAN
    BY <1>4, AuthorizeType
  <1>6. /\ od \in Decision /\ no \in Decision
        /\ od.aic = a /\ od.pa = b /\ od.fresh = fresh /\ (od.released <=> v = "unresolved")
    BY <1>4, <1>5 DEF Decision
  <1>7. UNCHANGED <<cfg, cert>> /\ gate'[r] \in {"operations", "denied"}
    BY <1>3 DEF Goto, DenyWith, Control
  <1>8. RefreshedPA(cert[r])' = RefreshedPA(cert[r]) /\ \A d : Sound(d)' <=> Sound(d)
    BY <1>7 DEF RefreshedPA, CurrentPrincipalCert, PrincipalKeyHashMatches, Sound
  <1>9. GrantsInv(r)'
    BY <1>1, <1>7, <1>8 DEF DInv, GrantsInv
  <1>10. CASE /\ Releases(v) /\ (cfg.freshContext => fresh)
              /\ decisions' = [decisions EXCEPT ![r] = Append(@, od)]
              /\ Goto(r, "operations")
    <2>1. Sound(od)
      BY <1>4, <1>6, <1>10, ReleasedIsSound DEF Sound
    <2>2. gate'[r] = "operations" /\ carried' = carried
      BY <1>10 DEF Goto, Control
    <2> HIDE DEF od
    <2>3. /\ decisions'[r] = Append(decisions[r], od) /\ decisions[r] \in Seq(Decision)
          /\ decisions' \in [Requests -> Seq(Decision)]
      BY <1>6, <1>10 DEF DInv, Data
    <2>4. \A k \in DOMAIN decisions'[r] : Sound(decisions'[r][k])
      <3> SUFFICES ASSUME NEW k \in DOMAIN decisions'[r] PROVE Sound(decisions'[r][k])
        OBVIOUS
      <3>1. \A j \in DOMAIN decisions[r] : Sound(decisions[r][j])
        BY <1>1 DEF DInv, OperationsInv
      <3>2. \/ k \in DOMAIN decisions[r] /\ decisions'[r][k] = decisions[r][k]
            \/ decisions'[r][k] = od
        BY <1>6, <2>3
      <3>3. QED
        BY <2>1, <3>1, <3>2
    <2>5. QED
      BY <1>1, <1>8, <1>9, <2>2, <2>3, <2>4 DEF DInv, Data, OperationsInv
  <1>11. CASE /\ decisions' = [decisions EXCEPT ![r] = Append(@, no)]
              /\ DenyWith(r, decisions'[r])
    <2> HIDE DEF od, no
    <2>1. /\ decisions' \in [Requests -> Seq(Decision)]
      BY <1>6, <1>11 DEF DInv, Data
    <2>2. carried' \in [Requests -> Seq(Decision)] /\ gate'[r] = "denied"
      BY <1>11, <2>1 DEF DenyWith, DInv, Data, Control
    <2>3. QED
      BY <1>1, <1>9, <2>1, <2>2 DEF DInv, Data, OperationsInv
  <1>12. QED
    BY <1>3, <1>10, <1>11

\* The intersection leaves a representative the declarations that hit a grant.
LEMMA IntersectData ==
  ASSUME Control, DInv, NEW r \in Requests, Intersect(r)
  PROVE  Data' /\ OperationsInv(r)' /\ GrantsInv(r)'
  <1> USE DEF PastPA, PastOperations, PastMode, PastIntersect
  <1> DEFINE c == cert[r]
             hit == EffectiveCapabilities(c.caps, GrantIds(pa[r].grants))
  <1>1. gate[r] = "intersect" /\ UNCHANGED <<pa, decisions>>
    BY DEF Intersect
  <1>2. c.caps \subseteq Capability /\ pa[r] \in PA \cup {None}
    <2>1. c \in Certificate
      BY AdmissionAssumption DEF Control
    <2>2. c.caps \subseteq Capability
      BY <2>1 DEF Certificate
    <2>3. QED
      BY <2>2 DEF DInv, Data
  <1>3. CASE Deny(r) /\ UNCHANGED effective
    <2>1. <<>> \in Seq(Decision) /\ "intersect" \in Gates
      BY DEF Gates
    <2>2. QED
      BY <1>1, <1>3, <2>1, QuietData DEF Deny
  <1>4. CASE Goto(r, "parameters")
    <2>1. gate'[r] = "parameters" /\ UNCHANGED <<cfg, cert, carried>>
      BY <1>4 DEF Goto, Control
    <2>2. /\ GrantsInForce(r)' = GrantsInForce(r) /\ RefreshedPA(cert[r])' = RefreshedPA(cert[r])
          /\ \A d : Sound(d)' <=> Sound(d)
      BY <2>1 DEF GrantsInForce, HasAIC, RefreshedPA, CurrentPrincipalCert,
                  PrincipalKeyHashMatches, Sound
    <2>3. OperationsInv(r)'
      BY <1>1, <2>1, <2>2 DEF DInv, OperationsInv
    <2>4. CASE c.mode = "representative"
      <3>1. /\ effective' = [effective EXCEPT ![r] = hit]
            /\ cfg.rejectOverflow => hit = c.caps
        BY <1>4, <2>4 DEF Intersect, IntersectPermissions, Goto, Deny, DenyWith, Control
      <3>2. pa[r] # None /\ pa[r] = RefreshedPA(cert[r])
        BY <1>1, <2>4 DEF DInv, GrantsInv
      <3>3. GrantsInForce(r) = pa[r].grants
        BY <3>2, RefreshedGrants
      <3>4. /\ hit \subseteq c.caps
            /\ \A x \in hit : \E g \in pa[r].grants : AicCapabilityMatches({x}, g.id)
        BY DEF EffectiveCapabilities, GrantIds
      <3> HIDE DEF hit
      <3>5. effective' \in [Requests -> SUBSET Capability] /\ effective'[r] = hit
        BY <1>2, <3>1, <3>4 DEF DInv, Data
      <3>6. Curtailed(r)'
        BY <2>1, <2>2, <3>1, <3>3, <3>4, <3>5 DEF Curtailed
      <3>7. QED
        BY <1>1, <2>1, <2>2, <2>3, <3>2, <3>5, <3>6 DEF DInv, Data, GrantsInv
    <2>5. CASE c.mode # "representative"
      <3>1. effective' = [effective EXCEPT ![r] = Declared(r)]
        BY <2>5 DEF Intersect
      <3>2. Declared(r) \subseteq Capability
        BY <1>2 DEF Declared, PA
      <3>3. effective' \in [Requests -> SUBSET Capability]
        BY <3>1, <3>2 DEF DInv, Data
      <3>4. QED
        BY <1>1, <2>1, <2>2, <2>3, <2>5, <3>3 DEF DInv, Data, GrantsInv
    <2>6. QED
      BY <2>4, <2>5
  <1>5. QED
    BY <1>3, <1>4 DEF Intersect

\* The last gate grants with all the decisions made.
LEMMA PluginsData ==
  ASSUME Control, DInv, NEW r \in Requests, CheckPlugins(r)
  PROVE  Data' /\ OperationsInv(r)' /\ GrantsInv(r)'
  <1> USE DEF PastPA, PastOperations, PastMode, PastIntersect
  <1>1. gate[r] = "plugins" /\ UNCHANGED <<pa, decisions, effective>>
    BY DEF CheckPlugins
  <1>2. CASE Deny(r)
    <2>1. <<>> \in Seq(Decision) /\ "plugins" \in Gates
      BY DEF Gates
    <2>2. QED
      BY <1>1, <1>2, <2>1, QuietData DEF Deny
  <1>3. CASE /\ gate' = [gate EXCEPT ![r] = "granted"]
             /\ carried' = [carried EXCEPT ![r] = decisions[r]]
             /\ UNCHANGED <<cfg, cert>>
    <2>1. gate'[r] = "granted" /\ carried'[r] = decisions[r] /\ Data'
      BY <1>1, <1>3 DEF Control, DInv, Data
    <2>2. /\ GrantsInForce(r)' = GrantsInForce(r) /\ RefreshedPA(cert[r])' = RefreshedPA(cert[r])
          /\ \A d : Sound(d)' <=> Sound(d)
      BY <1>3 DEF GrantsInForce, HasAIC, RefreshedPA, CurrentPrincipalCert,
                  PrincipalKeyHashMatches, Sound
    <2>3. QED
      BY <1>1, <1>3, <2>1, <2>2 DEF DInv, OperationsInv, GrantsInv, Curtailed
  <1>4. QED
    BY <1>2, <1>3 DEF CheckPlugins

\* Every gate keeps what its own request has behind it.
LEMMA OwnData ==
  ASSUME Control, DInv, NEW r \in Requests, Step(r)
  PROVE  Data' /\ OperationsInv(r)' /\ GrantsInv(r)'
  <1> USE DEF Gates, PastPA, PastOperations, PastMode, PastIntersect
  <1>1. <<>> \in Seq(Decision)
    OBVIOUS
  <1>2. CASE CheckChain(r) \/ CheckRoles(r) \/ CheckSPIFFE(r) \/ CheckOfflineLifetime(r)
               \/ CheckAIC(r)
    <2>1. /\ gate[r] \in {"chain", "roles", "spiffe", "offline", "aic"}
          /\ UNCHANGED <<pa, decisions, effective>>
          /\ \E g \in {"roles", "spiffe", "offline", "aic", "pa"} : Goto(r, g) \/ DenyWith(r, <<>>)
      BY <1>2 DEF CheckChain, CheckRoles, CheckSPIFFE, CheckOfflineLifetime, CheckAIC, Ask, Deny
    <2>2. QED
      BY <1>1, <2>1, QuietData
  <1>3. CASE CheckPA(r)
    BY <1>3, PAData
  <1>4. CASE CheckConstraints(r)
    <2>1. /\ gate[r] = "constraints" /\ UNCHANGED <<pa, decisions, effective>>
          /\ Goto(r, "capabilities") \/ DenyWith(r, <<>>)
      BY <1>4 DEF CheckConstraints, Ask, Deny
    <2>2. QED
      BY <1>1, <2>1, QuietData
  <1>5. CASE CheckRequiredCapabilities(r)
    <2>1. /\ gate[r] = "capabilities" /\ UNCHANGED <<pa, decisions, effective>>
          /\ Goto(r, "operations") \/ DenyWith(r, <<>>)
      BY <1>5 DEF CheckRequiredCapabilities, Deny
    <2>2. QED
      BY <1>1, <2>1, QuietData
  <1>6. CASE OperationError(r)
    <2>1. /\ gate[r] = "operations" /\ UNCHANGED <<pa, decisions, effective>>
          /\ DenyWith(r, <<>>)
      BY <1>6 DEF OperationError, Deny
    <2>2. QED
      BY <1>1, <2>1, QuietData
  <1>7. CASE DecideOperation(r)
    BY <1>7, OperationData
  <1>8. CASE OperationsDone(r)
    <2>1. /\ gate[r] = "operations" /\ UNCHANGED <<pa, decisions, effective, cfg, cert, carried>>
          /\ Len(decisions[r]) = cfg.operations /\ gate'[r] = "mode"
      BY <1>8 DEF OperationsDone, Goto, Control
    <2>2. RefreshedPA(cert[r])' = RefreshedPA(cert[r]) /\ \A d : Sound(d)' <=> Sound(d)
      BY <2>1 DEF RefreshedPA, CurrentPrincipalCert, PrincipalKeyHashMatches, Sound
    <2>3. QED
      BY <2>1, <2>2 DEF DInv, Data, OperationsInv, GrantsInv
  <1>9. CASE CheckDelegationMode(r)
    <2>1. gate[r] = "mode" /\ UNCHANGED <<pa, decisions, effective>>
      BY <1>9 DEF CheckDelegationMode
    <2>2. CASE DenyWith(r, <<>>)
      BY <1>1, <2>1, <2>2, QuietData
    <2>3. CASE Goto(r, "da") /\ (cert[r].mode = "representative" => pa[r] # None)
      <3>1. gate'[r] = "da" /\ UNCHANGED <<cfg, cert, carried>>
        BY <2>3 DEF Goto, Control
      <3>2. RefreshedPA(cert[r])' = RefreshedPA(cert[r]) /\ \A d : Sound(d)' <=> Sound(d)
        BY <3>1 DEF RefreshedPA, CurrentPrincipalCert, PrincipalKeyHashMatches, Sound
      <3>3. QED
        BY <2>1, <2>3, <3>1, <3>2 DEF DInv, Data, OperationsInv, GrantsInv
    <2>4. QED
      BY <1>9, <2>2, <2>3 DEF CheckDelegationMode, After, Deny
  <1>10. CASE CheckDelegationAuth(r)
    <2>1. /\ gate[r] = "da" /\ UNCHANGED <<pa, decisions, effective>>
          /\ Goto(r, "nonce") \/ DenyWith(r, <<>>)
      BY <1>10 DEF CheckDelegationAuth, After, Deny
    <2>2. QED
      BY <1>1, <2>1, QuietData
  <1>11. CASE CheckNonce(r)
    <2>1. /\ gate[r] = "nonce" /\ UNCHANGED <<pa, decisions, effective>>
          /\ Goto(r, "intersect") \/ DenyWith(r, <<>>)
      BY <1>11 DEF CheckNonce, After, Deny
    <2>2. QED
      BY <1>1, <2>1, QuietData
  <1>12. CASE Intersect(r)
    BY <1>12, IntersectData
  <1>13. CASE CheckParameters(r)
    <2>1. /\ gate[r] = "parameters" /\ UNCHANGED <<pa, decisions, effective>>
          /\ Goto(r, "registry") \/ DenyWith(r, <<>>)
      BY <1>13 DEF CheckParameters, Deny
    <2>2. QED
      BY <1>1, <2>1, QuietData
  <1>14. CASE CheckRegistered(r)
    <2>1. /\ gate[r] = "registry" /\ UNCHANGED <<pa, decisions, effective>>
          /\ Goto(r, "plugins") \/ DenyWith(r, <<>>)
      BY <1>14 DEF CheckRegistered, Deny
    <2>2. QED
      BY <1>1, <2>1, QuietData
  <1>15. CASE CheckPlugins(r)
    BY <1>15, PluginsData
  <1>16. QED
    BY <1>2, <1>3, <1>4, <1>5, <1>6, <1>7, <1>8, <1>9, <1>10, <1>11, <1>12, <1>13, <1>14, <1>15
       DEF Step

\* What each request has behind it holds throughout.
THEOREM DataInductive == Spec => []DInv
  <1>1. Init => DInv
    <2> SUFFICES ASSUME Init PROVE DInv
      OBVIOUS
    <2>1. /\ cert \in [Requests -> Certificates] /\ \A c \in Certificates : c.pa \in PA \cup {None}
      BY AdmissionAssumption DEF Init, Certificate
    <2>2. pa \in [Requests -> PA \cup {None}]
      BY <2>1 DEF Init
    <2>3. /\ <<>> \in Seq(Decision) /\ {} \in SUBSET Capability
      OBVIOUS
    <2>4. /\ decisions \in [Requests -> Seq(Decision)] /\ carried \in [Requests -> Seq(Decision)]
          /\ effective \in [Requests -> SUBSET Capability]
      BY <2>3 DEF Init
    <2>5. \A r \in Requests : gate[r] = "chain" /\ decisions[r] = <<>>
      BY DEF Init
    <2>6. \A r \in Requests : OperationsInv(r) /\ GrantsInv(r)
      BY <2>5 DEF OperationsInv, GrantsInv, PastPA, PastOperations, PastMode, PastIntersect
    <2>7. QED
      BY <2>2, <2>4, <2>6 DEF DInv, Data
  <1>2. IInv /\ DInv /\ [Next]_vars => DInv'
    <2> SUFFICES ASSUME Control, DInv, [Next]_vars PROVE DInv'
      BY DEF IInv
    <2>1. CASE UNCHANGED vars
      <3>1. \A s \in Requests :
              /\ GrantsInForce(s)' = GrantsInForce(s)
              /\ RefreshedPA(cert[s])' = RefreshedPA(cert[s])
              /\ \A d : Sound(d)' <=> Sound(d)
        BY <2>1 DEF vars, GrantsInForce, HasAIC, RefreshedPA, CurrentPrincipalCert,
                    PrincipalKeyHashMatches, Sound
      <3>2. /\ Data'
            /\ UNCHANGED <<cfg, cert, gate, pa, decisions, carried, effective>>
        BY <2>1 DEF vars, DInv, Data
      <3>3. ASSUME NEW s \in Requests PROVE OperationsInv(s)' /\ GrantsInv(s)'
        <4>1. OperationsInv(s)'
          BY <3>1, <3>2 DEF DInv, OperationsInv
        <4>2. GrantsInv(s)'
          BY <3>1, <3>2 DEF DInv, GrantsInv, Curtailed
        <4>3. QED
          BY <4>1, <4>2
      <3>4. QED
        BY <3>2, <3>3 DEF DInv
    <2>2. ASSUME NEW r \in Requests, Step(r) PROVE DInv'
      BY <2>2, OwnData, OthersData DEF DInv
    <2>3. QED
      BY <2>1, <2>2 DEF Next, Finished
  <1>3. QED
    BY <1>1, <1>2, Inductive, PTL DEF Spec

\* Every operation of a granted request was decided, nothing denied it, and
\* obligations and context were settled: evaluateCLCOperations fails closed.
THEOREM OperationsSoundHolds == Spec => []OperationsSound
  <1>1. DInv => OperationsSound
    BY DEF DInv, OperationsInv, OperationsSound, Sound, PastOperations, PastMode, PastIntersect
  <1>2. QED
    BY <1>1, DataInductive, PTL

\* A representative ends up only with what the grants in force allow, whatever
\* its certificate carries.
THEOREM DowngradeTakesEffectHolds == Spec => []DowngradeTakesEffect
  <1>1. DInv => DowngradeTakesEffect
    BY DEF DInv, GrantsInv, Curtailed, DowngradeTakesEffect, PastIntersect
  <1>2. QED
    BY <1>1, DataInductive, PTL

-------------------------------------------------------------------------------
(* NonceCache: the cache behind CheckNonce, with its sweeper *)

\* Every entry names a certificate that carries its nonce and had begun to be
\* valid when it was seen; a sweep only forgets what is older than the retention.
EntriesInv ==
  /\ now \in Nat /\ deadline \in Nat /\ allowed \subseteq Certs
  /\ sweep => deadline + Retention <= now
  /\ \A n \in DOMAIN m :
       /\ m[n].scope \in Certs /\ NonceOf[m[n].scope] = n
       /\ m[n].seen \in Nat /\ NotBefore[m[n].scope] <= m[n].seen

\* Whoever was allowed holds its nonce until it has expired.
OwnedInv ==
  \A d \in allowed :
    NotAfter[d] < now \/ (NonceOf[d] \in DOMAIN m /\ m[NonceOf[d]].scope = d)

NonceInv == EntriesInv /\ OwnedInv

\* The invariant holds of the empty cache.
LEMMA NonceInvInit == CacheInit => NonceInv
BY DEF CacheInit, NonceInv, EntriesInv, OwnedInv

\* Admissions, the sweep between any two of its deletions, and time keep it.
LEMMA NonceInvNext ==
  ASSUME WithinRetention, NonceInv, [CacheNext]_cacheVars
  PROVE  NonceInv'
<1> USE DEF NonceInv
<1>1. Retention \in Nat /\ \A c \in Certs : NotBefore[c] \in Nat /\ NotAfter[c] \in Nat
  BY NonceCacheAssumption
<1>2. ASSUME NEW c \in Certs, CheckAndAdd(c)
      PROVE  NonceInv'
  <2> DEFINE n == NonceOf[c]
  <2>1. Valid(c) /\ UNCHANGED <<now, sweep, deadline>>
    BY <1>2 DEF CheckAndAdd
  <2>2. CASE /\ n \notin DOMAIN m
             /\ m' = [k \in DOMAIN m \cup {n} |->
                        IF k = n THEN [scope |-> c, seen |-> now] ELSE m[k]]
             /\ allowed' = allowed \cup {c}
    <3>1. DOMAIN m' = DOMAIN m \cup {n} /\ m'[n].scope = c /\ m'[n].seen = now
      BY <2>2
    <3>2. \A k \in DOMAIN m : m'[k] = m[k] /\ k # n
      BY <2>2
    <3>3. NotBefore[c] <= now
      BY <2>1 DEF Valid
    <3>4. EntriesInv'
      BY <2>1, <2>2, <3>1, <3>2, <3>3 DEF EntriesInv
    <3>5. OwnedInv'
      BY <2>1, <2>2, <3>1, <3>2 DEF OwnedInv
    <3>6. QED
      BY <3>4, <3>5
  <2>3. CASE n \in DOMAIN m /\ m[n].scope = c /\ allowed' = allowed \cup {c} /\ UNCHANGED m
    BY <2>1, <2>3 DEF EntriesInv, OwnedInv
  <2>4. CASE UNCHANGED <<m, allowed>>
    BY <2>1, <2>4 DEF EntriesInv, OwnedInv
  <2>5. QED
    BY <1>2, <2>2, <2>3, <2>4 DEF CheckAndAdd
<1>3. ASSUME NEW n \in DANonces, SweepKey(n)
      PROVE  NonceInv'
  <2>1. sweep /\ UNCHANGED <<now, sweep, deadline, allowed>>
    BY <1>3 DEF SweepKey
  <2>2. CASE UNCHANGED m
    BY <2>1, <2>2 DEF EntriesInv, OwnedInv
  <2>3. CASE n \in DOMAIN m /\ m[n].seen < deadline /\ m' = [k \in DOMAIN m \ {n} |-> m[k]]
    <3>1. DOMAIN m' = DOMAIN m \ {n} /\ \A k \in DOMAIN m' : m'[k] = m[k]
      BY <2>3
    <3>2. EntriesInv'
      BY <2>1, <3>1 DEF EntriesInv
    <3>3. NotAfter[m[n].scope] < now
      BY <1>1, <2>1, <2>3 DEF EntriesInv, WithinRetention
    <3>4. OwnedInv'
      BY <2>1, <3>1, <3>3 DEF OwnedInv
    <3>5. QED
      BY <3>2, <3>4
  <2>4. QED
    BY <1>3, <2>2, <2>3 DEF SweepKey
<1>4. CASE SweepStart
  BY <1>1, <1>4 DEF SweepStart, EntriesInv, OwnedInv
<1>5. CASE Tick
  <2>1. now' = now + 1 /\ now \in Nat /\ deadline \in Nat
    BY <1>5 DEF Tick, EntriesInv
  <2>2. UNCHANGED <<m, sweep, deadline, allowed>>
    BY <1>5 DEF Tick
  <2>3. EntriesInv'
    BY <1>1, <2>1, <2>2 DEF EntriesInv
  <2>4. OwnedInv'
    BY <1>1, <2>1, <2>2 DEF OwnedInv, EntriesInv
  <2>5. QED
    BY <2>3, <2>4
<1>6. CASE SweepEnd \/ Stop \/ UNCHANGED cacheVars
  BY <1>6 DEF SweepEnd, Stop, cacheVars, EntriesInv, OwnedInv
<1>7. QED
  BY <1>2, <1>3, <1>4, <1>5, <1>6 DEF CacheNext

\* A nonce is allowed for a second certificate only when the first has expired.
LEMMA AllowedStep ==
  ASSUME NonceInv, CacheNext, NEW c \in Certs, c \notin allowed, c \in allowed',
         NEW d \in allowed, NonceOf[d] = NonceOf[c]
  PROVE  NotAfter[d] < now
<1>1. PICK e \in Certs : CheckAndAdd(e)
  BY DEF CacheNext, SweepKey, SweepStart, SweepEnd, Stop, Tick
<1>2. e = c
  BY <1>1 DEF CheckAndAdd
<1>3. NonceOf[c] \notin DOMAIN m \/ m[NonceOf[c]].scope = c
  BY <1>1, <1>2 DEF CheckAndAdd
<1>4. QED
  BY <1>3 DEF NonceInv, OwnedInv

\* Only a certificate that was never allowed is refused.
LEMMA RefusedStep ==
  ASSUME NonceInv, CacheNext, NEW c \in Certs, c \notin refused, c \in refused'
  PROVE  c \notin allowed
<1>1. PICK e \in Certs : CheckAndAdd(e)
  BY DEF CacheNext, SweepKey, SweepStart, SweepEnd, Stop, Tick
<1>2. e = c /\ Valid(c) /\ m[NonceOf[c]].scope # c
  BY <1>1 DEF CheckAndAdd
<1>3. now <= NotAfter[c] /\ now \in Nat /\ NotAfter[c] \in Nat
  BY <1>2, NonceCacheAssumption DEF Valid, NonceInv, EntriesInv
<1>4. QED
  BY <1>2, <1>3 DEF NonceInv, OwnedInv

\* NonceCache (nonce_cache.go:70-95): when no certificate outlives the cache's
\* retention, copied DA evidence is refused as long as the certificate it was
\* first used with is valid, whatever the sweeper deletes in between.
THEOREM OneLiveScopePerNonceHolds ==
  ASSUME WithinRetention
  PROVE  CacheSpec => OneLiveScopePerNonce
<1>1. NonceInv /\ [CacheNext]_cacheVars =>
        [\A c \in Certs : (c \notin allowed /\ c \in allowed') =>
           \A d \in allowed : NonceOf[d] = NonceOf[c] => NotAfter[d] < now]_cacheVars
  BY AllowedStep
<1>2. NonceInv /\ [CacheNext]_cacheVars => NonceInv'
  BY NonceInvNext
<1>3. QED
  BY <1>1, <1>2, NonceInvInit, PTL DEF CacheSpec, OneLiveScopePerNonce

\* A certificate that was once allowed with its nonce is never refused it.
THEOREM OwnerNeverRefusedHolds ==
  ASSUME WithinRetention
  PROVE  CacheSpec => OwnerNeverRefused
<1>1. NonceInv /\ [CacheNext]_cacheVars =>
        [\A c \in Certs : (c \notin refused /\ c \in refused') => c \notin allowed]_cacheVars
  BY RefusedStep
<1>2. NonceInv /\ [CacheNext]_cacheVars => NonceInv'
  BY NonceInvNext
<1>3. QED
  BY <1>1, <1>2, NonceInvInit, PTL DEF CacheSpec, OwnerNeverRefused
===============================================================================

---------------------------- MODULE DelegationChain ----------------------------
(***************************************************************************)
(* Multi-level delegation (delegation_chain.go, DelegationChainVerifier in *)
(* decision.go): VerifyDelegationChainWithCaps on a chain of certificates, *)
(* chain[1] delegated by the principal and every other by the one before.  *)
(* Key holders sign delegations at any time, for any capabilities; a       *)
(* certificate carries the delegation it was issued for or a copy of one.  *)
(***************************************************************************)
EXTENDS Capabilities, Integers

CONSTANTS
  Keys, Principal,        \* keys; the principal's key
  PrincipalCaps,          \* P: the ids the principal holds
  Serials,                \* certificate serials
  Unbound,                \* a version 1 delegation names no agent key
  Delegations,            \* the delegations that may be signed
  Chains,                 \* the chains that may be presented
  MaxDepth,               \* set by the principal
  MaxChainLength,         \* the verifier's own bound
  DefaultMaxChainLength   \* used for a bound that is not positive

Delegation == [by : Keys, caps : SUBSET Ids, key : Keys \cup {Unbound}]
Certificate == [serial : Serials, key : Keys, caps : SUBSET Ids,
                version : 0 .. 3, aic : BOOLEAN]

ASSUME DelegationChainAssumption ==
  /\ Principal \in Keys /\ Unbound \notin Keys
  /\ PrincipalCaps \subseteq Ids
  /\ Delegations \subseteq Delegation
  /\ Chains \subseteq Seq(Certificate)
  /\ MaxDepth \in Int /\ MaxChainLength \in Int /\ DefaultMaxChainLength \in Nat

VARIABLES
  signed,   \* the delegations that have been signed
  chain,    \* the chain under verification
  phase,    \* "idle", "structure", "signatures", "capabilities", "accepted", "rejected"
  level,    \* the level to be looked at next
  eff       \* C_eff so far

delegationVars == <<signed, chain, phase, level, eff>>

DelegationInit ==
  /\ signed = {} /\ chain = <<>> /\ phase = "idle" /\ level = 0 /\ eff = {}

-------------------------------------------------------------------------------
(* Capabilities *)

NoStar(id) == \A k \in 1 .. Len(id) : id[k] # "*"

\* Plausible bug: the two sides are swapped.
MutantCapabilityCovered(leaf, ancestor) ==
  \/ MatchCapability(ancestor, leaf)
  \/ NoStar(leaf) /\ HasPrefix(ancestor, Append(leaf, ":"))

\* Equal, matched as a glob, or a path below an ancestor without "*".
CapabilityCovered(leaf, ancestor) ==
  \/ MatchCapability(leaf, ancestor)
  \/ NoStar(ancestor) /\ HasPrefix(leaf, Append(ancestor, ":"))

CapabilitySubset(subset, superset) ==
  \A s \in subset : \E p \in superset : CapabilityCovered(s, p)
FilterCovered(leaf, ancestor) ==
  {l \in leaf : \E a \in ancestor : CapabilityCovered(l, a)}

-------------------------------------------------------------------------------
(* Verification *)

Sign(d) ==
  /\ d \notin signed
  /\ signed' = signed \cup {d}
  /\ UNCHANGED <<chain, phase, level, eff>>

Present(c) ==
  /\ phase = "idle"
  /\ chain' = c
  /\ phase' = "structure"
  /\ UNCHANGED <<signed, level, eff>>

Reject == phase' = "rejected" /\ UNCHANGED <<signed, chain, level, eff>>

\* Not empty, not too deep, not too long, no serial twice.
LengthLimit == IF MaxChainLength <= 0 THEN DefaultMaxChainLength ELSE MaxChainLength
StructureOK ==
  /\ chain # <<>>
  /\ Len(chain) <= MaxDepth
  /\ Len(chain) <= LengthLimit
  /\ \A i, j \in 1 .. Len(chain) : i # j => chain[i].serial # chain[j].serial

CheckStructure ==
  /\ phase = "structure"
  /\ \/ /\ StructureOK
        /\ phase' = "signatures"
        /\ level' = Len(chain)
        /\ UNCHANGED <<signed, chain, eff>>
     \/ ~StructureOK /\ Reject

Signer(i) == IF i = 1 THEN Principal ELSE chain[i - 1].key

\* VerifyDelegationAuthWithAgent: version 2 binds the agent's key, version 1
\* does not, version 0 is tried as both; any other version is refused.
DelegationVerifies(cert, signer) ==
  /\ cert.aic
  /\ \E key \in (IF cert.version \in {0, 2} THEN {cert.key} ELSE {})
                \cup (IF cert.version \in {0, 1} THEN {Unbound} ELSE {}) :
       [by |-> signer, caps |-> cert.caps, key |-> key] \in signed

\* Signatures from the bottom up.
VerifyLevel ==
  /\ phase = "signatures"
  /\ \/ /\ level > 0
        /\ DelegationVerifies(chain[level], Signer(level))
        /\ level' = level - 1
        /\ UNCHANGED <<signed, chain, phase, eff>>
     \/ /\ level > 0
        /\ ~DelegationVerifies(chain[level], Signer(level))
        /\ Reject
     \/ /\ level = 0
        /\ phase' = "capabilities"
        /\ level' = 1
        /\ eff' = PrincipalCaps
        /\ UNCHANGED <<signed, chain>>

\* Capabilities from the top down: a subset of what is effective so far, and
\* something must be left.
EffectiveLevel ==
  /\ phase = "capabilities"
  /\ \/ /\ level <= Len(chain)
        /\ CapabilitySubset(chain[level].caps, eff)
        /\ FilterCovered(chain[level].caps, eff) # {}
        /\ eff' = FilterCovered(chain[level].caps, eff)
        /\ level' = level + 1
        /\ UNCHANGED <<signed, chain, phase>>
     \/ /\ level <= Len(chain)
        /\ ~CapabilitySubset(chain[level].caps, eff) \/ FilterCovered(chain[level].caps, eff) = {}
        /\ Reject
     \/ /\ level > Len(chain)
        /\ phase' = "accepted"
        /\ UNCHANGED <<signed, chain, level, eff>>

DelegationNext ==
  \/ \E d \in Delegations : Sign(d)
  \/ \E c \in Chains : Present(c)
  \/ CheckStructure \/ VerifyLevel \/ EffectiveLevel

DelegationSpec == DelegationInit /\ [][DelegationNext]_delegationVars

-------------------------------------------------------------------------------
(* Properties *)

\* The ids that a capability stands for, and those that several do.
Grants(c) == {s \in Ids : CapabilityCovered(s, c)}
AllGrants(caps) == UNION {Grants(c) : c \in caps}

\* An id in one of the forms that MatchCapability's comment names (policy.go:289):
\* no wildcard, "*" alone, or ":*" at the end.
Plain(id, n) == \A k \in 1 .. n : id[k] \notin Wildcards
Simple(id) ==
  \/ Plain(id, Len(id))
  \/ id = <<"*">>
  \/ TrailingStar(id) /\ Plain(id, Len(id) - 1)

\* What level i holds; the principal is level 0.
Held(i) == IF i = 0 THEN PrincipalCaps ELSE chain[i].caps

\* "Permissions only decrease" (delegation_chain.go:8): what an accepted chain
\* may do, the principal and every certificate of the chain may do.
PermissionsOnlyDecrease ==
  phase = "accepted" => \A i \in 0 .. Len(chain) : AllGrants(eff) \subseteq AllGrants(Held(i))

\* What an accepted chain may do, a level may do, if its own capabilities and
\* those of the levels below it are simple, the last one's excepted, which may
\* be any globs; and every certificate of the chain carries capabilities that
\* its delegator signed, for its key or, in version 1, for none.
AcceptedIsDelegated ==
  phase = "accepted" =>
    /\ \A i \in 0 .. Len(chain) :
         (\A j \in i .. Len(chain) - 1 : \A c \in Held(j) : Simple(c)) =>
           AllGrants(eff) \subseteq AllGrants(Held(i))
    /\ \A i \in 1 .. Len(chain) :
         \E key \in {chain[i].key, Unbound} :
           [by |-> IF i = 1 THEN Principal ELSE chain[i - 1].key,
            caps |-> chain[i].caps, key |-> key] \in signed
===============================================================================

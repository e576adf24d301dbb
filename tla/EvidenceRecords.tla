---------------------------- MODULE EvidenceRecords ----------------------------
(***************************************************************************)
(* The records a verifier leaves behind and the DSSE envelopes they travel *)
(* in: decision, admission and outcome records, the subjects that name the *)
(* profile and the recorder, signatures over the pre-authentication        *)
(* encoding, and the two checks a reader runs (evidence_profile.go,        *)
(* evidence_key.go, evidence_signing.go, admission_record.go,              *)
(* outcome_record.go).                                                     *)
(*                                                                         *)
(* A digest is modelled by the content it is taken over, a signature by    *)
(* the key and the bytes signed: both are injective, nothing else about    *)
(* the cryptography is used.                                               *)
(***************************************************************************)
EXTENDS FiniteSets

CONSTANTS
  Inputs,    \* frozen inputs of decisions: grants, operation, instance nonce
  Allowed,   \* the inputs the language layer allows
  None       \* no key, no profile, no digest

ASSUME AllowedAssumption == Allowed \subseteq Inputs

Kinds == {"decision", "admission", "outcome"}
InToto == "in-toto"
BundlePayloadType == "evidence-bundle"

(***************************************************************************)
(* Records.  A predicate says what it is about, the digest it claims, what *)
(* it says, and the decision it points at; ver is its record revision.     *)
(***************************************************************************)
Predicate(ver, about, digest, says, link) ==
  [ver |-> ver, about |-> about, digest |-> digest, says |-> says, link |-> link]

\* semantics.RecordWith, DecisionRecord.Verify: the verdict is recomputed from
\* the frozen input, the digest from its bytes.
Evaluate(i) == IF i \in Allowed THEN "allow" ELSE "deny"
RecordWith(i) == Predicate("decision", i, i, Evaluate(i), None)
Reproduces(p) == p.digest = p.about /\ p.says = Evaluate(p.about)

\* NewAdmissionRecord: only ever a refusal, with the stage of the error.
NewAdmissionRecord(r) == Predicate("admission", r, None, "refused", None)

\* The record reportObservedOutcome builds and ReportOutcome completes: what was
\* observed, or that nothing could be; link is empty without a decision record.
NewOutcomeRecord(r, link) == Predicate("outcome", r, None, "observed", link)

(***************************************************************************)
(* Profiles: the named shapes a deployment may ask for.                    *)
(***************************************************************************)
Profile(name, admission, outcome) ==
  [name |-> name, decision |-> TRUE, admission |-> admission, outcome |-> outcome]

builtinProfiles ==
  { Profile("clc-decision@1", FALSE, FALSE),
    Profile("clc-decision+admission@1", TRUE, FALSE),
    Profile("clc-decision+admission+outcome@1", TRUE, TRUE) }

\* LookupEvidenceProfile and Apply: the shape of the emitted records comes from
\* the profile, an unknown name is refused when the handler is built.
KnownProfile(name) == name = None \/ \E p \in builtinProfiles : p.name = name
ProfileNamed(name) == CHOOSE p \in builtinProfiles : p.name = name
EmitsOutcome(c) == IF c.profile = None THEN c.emitOutcome ELSE ProfileNamed(c.profile).outcome

(***************************************************************************)
(* Signing keys: an explicit signer, a bare closure, a key file loaded     *)
(* when the handler is built, in this order of preference.                 *)
(***************************************************************************)
SigningKey(c) ==
  CASE c.signer # None -> c.signer
    [] c.signer = None /\ c.sign # None -> c.sign
    [] OTHER -> c.keyFile

\* Config.Validate and newAuthenticator: what may start serving at all.
Buildable(c) ==
  /\ c.requireSignature => SigningKey(c) # None
  /\ KnownProfile(c.profile)

(***************************************************************************)
(* Envelopes.                                                              *)
(***************************************************************************)
PAE(payloadType, body) == <<payloadType, body>>
Sign(key, msg) == [key |-> key, msg |-> msg]

Statement(ptype, subjects, pred) == [ptype |-> ptype, subjects |-> subjects, pred |-> pred]

\* NewEnvelope, NewAdmissionEnvelope, NewOutcomeEnvelope: unsigned, the
\* predicate type is the record's kind, a decision is bound to its input.
NewEnvelope(pred) ==
  [payloadType |-> InToto, sigs |-> {},
   payload |-> Statement(pred.ver, IF pred.ver = "decision" THEN {<<"input", pred.digest>>} ELSE {},
                         pred)]

\* tagEnvelope: the profile's and the recorder's identities replace subjects of
\* the same name or join them.
Tags(c) ==
  (IF c.profile = None THEN {} ELSE {<<"evidence-profile", ProfileNamed(c.profile)>>})
    \cup (IF c.recorder = None THEN {} ELSE {<<"evidence-recorder", c.recorder>>})
TagEnvelope(env, c) ==
  [env EXCEPT !.payload.subjects =
     {s \in @ : \A t \in Tags(c) : t[1] # s[1]} \cup Tags(c)]

\* signEnvelope: no key, no signature.
SignEnvelope(env, c) ==
  LET k == SigningKey(c)
  IN IF k = None THEN env
     ELSE [env EXCEPT !.sigs = @ \cup {Sign(k, PAE(env.payloadType, env.payload))}]

\* Plausible bug: the envelope is signed first, then tagged.
MutantSeal(pred, c) == TagEnvelope(SignEnvelope(NewEnvelope(pred), c), c)

\* What every emission point does with a record before it reaches the sink.
Seal(pred, c) == SignEnvelope(TagEnvelope(NewEnvelope(pred), c), c)

\* SubjectDigestByName: the digests a reader finds under a name.
SubjectDigests(env, name) == {s[2] : s \in {t \in env.payload.subjects : t[1] = name}}

\* CheckEvidenceEnvelope dispatches on the predicate type: a decision must be
\* bound to its input and reproduce, the other two must have their revision and
\* an outcome, anything else is unknown.
CheckEvidenceEnvelope(env) ==
  LET st == env.payload
      ok == /\ env.payloadType = InToto
            /\ st.pred.ver = st.ptype
            /\ \/ st.ptype = "decision" /\ Reproduces(st.pred)
                    /\ <<"input", st.pred.digest>> \in st.subjects
               \/ st.ptype \in {"admission", "outcome"} /\ st.pred.says # ""
  IN IF ok THEN st.ptype ELSE "error"

\* VerifyFnFromKey: pinned to one key, the key id is ignored.
VerifyFn(key, msg, sig) == sig.key = key /\ sig.msg = msg

\* VerifyEvidenceEnvelope: the structural check, then at least one signature
\* over exactly this payload when a key is given.
VerifyEvidenceEnvelope(env, key) ==
  LET kind == CheckEvidenceEnvelope(env)
      signed == \E s \in env.sigs : VerifyFn(key, PAE(env.payloadType, env.payload), s)
  IN IF key = None \/ signed THEN kind ELSE "error"

===============================================================================

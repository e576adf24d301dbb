---------------------------- MODULE EvidenceExport ----------------------------
(***************************************************************************)
(* The evidence bundle (evidence.go): FileEvidenceExporter.Export reads    *)
(* the audit file, resolves the record the audit chain pins from the       *)
(* evidence directory and signs what it assembled, while requests go on    *)
(* writing both.  Queries do not ask for supervision events.               *)
(***************************************************************************)
EXTENDS EvidenceStore, Merkle, SequencesExt

CONSTANTS Queries   \* [op: the operation or None (agent, DA hash), handed: an input or None]

ASSUME QueriesAssumption ==
  Queries \subseteq [op : {None} \cup Requests, handed : {None} \cup Inputs]

VARIABLES
  phase,    \* phase of the export
  query,    \* the EvidenceQuery
  bundle,   \* the bundle under construction, then exported
  gap       \* the export failed: the pinned record was not found

exportVars == <<phase, query, bundle, gap>>
vars == <<storeVars, exportVars>>

NoBundle == [lines |-> <<>>, outcome |-> "permit", decision |-> None, digest |-> None,
             record |-> None, root |-> RootHex(<<>>), sigs |-> {}]

NoQuery == [op |-> None, handed |-> None]

Init ==
  /\ StoreInit
  /\ phase = "idle"
  /\ query = NoQuery
  /\ bundle = NoBundle
  /\ gap = FALSE

\* matchesAuditQuery: by trace id; every line of the agent carries its name, as
\* AgentId or, a plugin's, as ClientCN only, and the DA hash.
MatchesAuditQuery(line, q) == q.op = None \/ line.op = q.op

\* readAuditChainLines: the loop over the file.
MatchingLines(file, q) ==
  LET out[i \in 0 .. Len(file)] ==
        IF i = 0 THEN <<>>
        ELSE IF MatchesAuditQuery(file[i], q) THEN Append(out[i - 1], file[i]) ELSE out[i - 1]
  IN out[Len(file)]

OutcomeOf(line) == IF line.denied THEN "deny" ELSE "permit"

\* fillFromAudit: the anchor comes from the first line, the outcome from the last.
FillFromAudit(lines) ==
  IF lines = <<>> THEN NoBundle
  ELSE [NoBundle EXCEPT !.lines = lines, !.outcome = OutcomeOf(Last(lines)),
                        !.decision = OutcomeOf(Last(lines)),
                        !.digest = lines[1].digest]

\* ApplyRecord, for a record that reproduces: the summary is derived from it.
ApplyRecord(b, rec) == [b EXCEPT !.record = rec, !.digest = rec.digest, !.decision = rec.says]

\* LoadEvidenceRecord: structure, binding and reproduction, no signature.
Loads(env) == env # Torn /\ CheckEvidenceEnvelope(env) = "decision"

\* Plausible bug: the file's record is taken without comparing digests.
MutantResolve(digest) ==
  {dir[n].payload.pred : n \in {m \in DOMAIN dir : Loads(dir[m])}}

\* resolveRecordByDigest.
Resolve(digest) ==
  {p \in {dir[n].payload.pred : n \in {m \in DOMAIN dir : Loads(dir[m])}} : p.digest = digest}

ReadAudit ==
  /\ conf.reader = "exporter"
  /\ phase = "idle"
  /\ phase' = "resolve"
  /\ query' \in Queries
  /\ bundle' = FillFromAudit(MatchingLines(auditFile, query'))
  /\ UNCHANGED <<storeVars, gap>>

\* CanonicalJSON is a function of the content; the signatures are left out.
SigningBytes(b) == [b EXCEPT !.sigs = {}]

\* Plausible bug: what is signed leaves the decision record out.
MutantSignBundle(b, key) ==
  IF key = None THEN b
  ELSE [b EXCEPT !.sigs = {Sign(key, PAE(BundlePayloadType, SigningBytes([b EXCEPT !.record = None])))}]

SignBundle(b, key) ==
  IF key = None THEN b
  ELSE [b EXCEPT !.sigs = @ \cup {Sign(key, PAE(BundlePayloadType, SigningBytes(b)))}]

VerifySignature(b, key) ==
  \E s \in b.sigs : VerifyFn(key, PAE(BundlePayloadType, SigningBytes(b)), s)

\* CheckDecisions.
CheckDecisions(b) ==
  b.record # None => Reproduces(b.record) /\ b.digest = b.record.digest /\ b.decision = b.record.says

\* The rest of Export: the record handed over or the one the audit line pins,
\* the root over the lines, the signature of the deployment's key.
Assemble ==
  /\ phase = "resolve"
  /\ LET found == IF query.handed # None THEN {RecordWith(query.handed)}
                  ELSE IF bundle.digest # None THEN Resolve(bundle.digest) ELSE {}
         lost == query.handed = None /\ bundle.digest # None /\ found = {}
         b == IF found = {} THEN bundle ELSE ApplyRecord(bundle, CHOOSE p \in found : TRUE)
     IN /\ gap' = lost
        /\ bundle' = IF lost THEN NoBundle
                     ELSE SignBundle([b EXCEPT !.root = RootHex(b.lines)], SigningKey(conf))
        /\ phase' = IF lost THEN "failed" ELSE "done"
  /\ UNCHANGED <<storeVars, query>>

Next ==
  \/ StoreNext /\ UNCHANGED exportVars
  \/ ReadAudit
  \/ Assemble

Spec == Init /\ [][Next]_vars

(***************************************************************************)
(* Properties.                                                             *)
(***************************************************************************)

\* Every record this verifier finished writing, and nobody touched, passes the
\* check a reader runs with its key, is of the kind its name says and carries
\* the identity of the declared profile.
EmittedVerifies ==
  \A n \in DOMAIN dir \ touched :
    dir[n] # Torn =>
      /\ Verified(dir[n]) = n[1]
      /\ conf.profile # None => SubjectDigests(dir[n], "evidence-profile") = {ProfileNamed(conf.profile)}

\* With a signing key, everything a directory report counts is, unchanged, a
\* record this verifier sealed, whatever was altered before or during the scan.
EndorsedIsGenuine ==
  SigningKey(conf) # None => \A e \in scan.counted : e.payload \in written

\* Both: what the verifier writes a reader endorses, and nothing else.
EvidenceGenuine == EmittedVerifies /\ EndorsedIsGenuine

\* The sources of each request freeze different inputs.  Otherwise the second
\* record replaces the first in its file, truncating it before it is rewritten.
SourcesDiffer == \A r \in Requests : IsInjective(conf.load[r])

\* A reader's report agrees with the directory as it was when the scan began,
\* unless someone changed it meanwhile or a source rewrites the record of
\* another: what verified then is counted (an
\* outcome if its decision did), what did not is a failure.
InSnapshot == {n \in DOMAIN scan.snapshot : scan.snapshot[n] # Torn}
GoodInSnapshot(kinds) ==
  {n \in InSnapshot : Verified(scan.snapshot[n]) \in kinds}
ReportCoversSnapshot ==
  scan.phase = "done" /\ scan.at = faults /\ SourcesDiffer =>
    LET decided == Decisions({scan.snapshot[n] : n \in GoodInSnapshot({"decision"})})
        good == GoodInSnapshot({"decision", "admission"})
                  \cup {n \in GoodInSnapshot({"outcome"}) : scan.snapshot[n].payload.pred.link \in decided}
        orphans == {n \in GoodInSnapshot({"outcome"}) :
                      \A m \in DOMAIN dir \ touched : m # <<"decision", scan.snapshot[n].payload.pred.link>>}
    IN /\ good \cap scan.failures = {}
       /\ \A n \in good : scan.snapshot[n] \in scan.counted
       /\ (InSnapshot \ GoodInSnapshot(Kinds)) \cup orphans \subseteq scan.failures

\* The audit file never pins a record that is not completely on disk, not even
\* after a failed write or a crash, unless someone removed or altered the file
\* or two sources of a request share one.
PinnedIsOnDisk ==
  SourcesDiffer => \A i \in DOMAIN auditFile :
    LET d == auditFile[i].digest
        n == <<"decision", d>>
    IN d # None /\ n \notin touched => n \in DOMAIN dir /\ dir[n] # Torn

\* An export over a chain that pins a record carries that record, consistently,
\* and fails for a missing record only if someone outside took it away (or two
\* sources share it).
AnchorResolved ==
  /\ gap /\ SourcesDiffer => \E i \in DOMAIN auditFile : <<"decision", auditFile[i].digest>> \in touched
  /\ phase = "done" =>
       /\ CheckDecisions(bundle)
       /\ query.handed = None /\ (\E i \in DOMAIN bundle.lines : bundle.lines[i].digest # None) =>
            /\ bundle.record # None
            /\ \E i \in DOMAIN bundle.lines : bundle.lines[i].digest = bundle.record.digest

\* A signed bundle speaks for the exporter only as it was exported: dropping,
\* swapping or inventing any part of it breaks the signature.
EditedBundles(b) ==
  { [b EXCEPT !.lines = Tail(Append(@, AuditLine(None, None, TRUE)))], [b EXCEPT !.record = None],
    [b EXCEPT !.outcome = "error"], [b EXCEPT !.decision = "allow"], [b EXCEPT !.digest = None],
    [b EXCEPT !.root = RootHex(<<AuditLine(None, None, FALSE)>>)] }
BundleIsSealed ==
  phase = "done" /\ SigningKey(conf) # None =>
    /\ VerifySignature(bundle, SigningKey(conf))
    /\ \A b \in EditedBundles(bundle) : VerifySignature(b, SigningKey(conf)) => b = bundle
===============================================================================

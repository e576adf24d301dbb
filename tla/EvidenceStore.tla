----------------------------- MODULE EvidenceStore -----------------------------
(***************************************************************************)
(* The evidence directory (evidence_sink.go, FileSink), the requests that  *)
(* write it, the audit file that pins its records, and the directory-level *)
(* verifier that reads it while they write (evidence_verify.go).           *)
(*                                                                         *)
(* A file is created empty and filled by a second step, under the sink's   *)
(* mutex: a reader, a failed write and a crash of the process all see the  *)
(* half-written file.  Someone outside may alter or remove a file; nobody  *)
(* outside has the signing key.  What the pipeline decides is free, the    *)
(* stages between emission and response are module Decide's.               *)
(***************************************************************************)
EXTENDS EvidenceRecords, Naturals, Sequences, Functions

CONSTANTS
  Requests,      \* the requests in flight
  Keys,          \* signing keys; those outside the deployment's belong to others
  Deployments,   \* the configurations considered
  Torn,          \* the content of a file that was created and not yet filled
  NoOne,         \* the mutex is free
  MaxFaults      \* bound on outside changes to the directory

ASSUME MaxFaultsAssumption == MaxFaults \in Nat

\* The fields of EvidenceConfig that shape what is written, whether there is an
\* audit logger and plugins that log their decisions; load[r] are the inputs of
\* the records r's decisions call for, reader who reads the directory meanwhile.
Deployment ==
  [signer : {None} \cup Keys, sign : {None} \cup Keys, keyFile : {None} \cup Keys,
   requireSignature : BOOLEAN, profile : {None} \cup {p.name : p \in builtinProfiles},
   recorder : {None, "pep"}, emitOutcome : BOOLEAN, strict : BOOLEAN,
   audit : BOOLEAN, plugins : BOOLEAN, load : [Requests -> Seq(Inputs)], reader : {"verifier", "exporter"}]

\* The instance nonce keeps the inputs of two requests apart.  The sources of
\* one request share it: where they grant the same, they freeze the same input.
ASSUME DeploymentsAssumption ==
  \A c \in Deployments :
    /\ c \in Deployment
    /\ \A r, q \in Requests : r # q => Range(c.load[r]) \cap Range(c.load[q]) = {}

\* The records the requests of this verifier write, and the values that stand
\* for the absence of one.
Records ==
  {RecordWith(i) : i \in Inputs} \cup {NewAdmissionRecord(r) : r \in Requests}
    \cup UNION {{NewOutcomeRecord(r, link) : link \in Inputs \cup {None}} : r \in Requests}

ASSUME MarkersAssumption ==
  /\ None \notin Records /\ None \notin Inputs
  /\ \A i \in Inputs, link \in Inputs \cup {None} :
       None # Predicate("decision", i, i, Evaluate(i), link)
  /\ NoOne \notin Requests
  /\ \A c \in Deployments : \A rec \in Records : Seal(rec, c) # Torn

VARIABLES
  conf,       \* the deployment, fixed for a behaviour
  dir,        \* the evidence directory: file name -> envelope or Torn
  mu,         \* FileSink.mu: the request writing a file
  pc,         \* pc[r]: the stage of the request
  granted,    \* granted[r]: the pipeline's answer
  record,     \* record[r]: the record being emitted
  refs,       \* refs[r]: digests of the decision records emitted
  failed,     \* failed[r]: the emission of decision records stopped on an error
  queued,     \* lines handed to the audit logger, not yet in the file
  auditFile,  \* the audit file
  written,    \* history: payloads this verifier sealed
  faults,     \* outside changes so far
  touched,    \* history: files changed from outside
  scan        \* the run of VerifyEvidenceDir

requestVars == <<mu, pc, granted, record, refs, failed, queued, written>>
storeVars == <<conf, dir, requestVars, auditFile, faults, touched, scan>>

NoScan == [phase |-> "idle", snapshot |-> <<>>, at |-> 0, todo |-> {}, counted |-> {},
           outcomes |-> {}, failures |-> {}]

StoreInit ==
  /\ conf \in {c \in Deployments : Buildable(c)}
  /\ dir = <<>>
  /\ mu = NoOne
  /\ pc = [r \in Requests |-> "start"]
  /\ granted = [r \in Requests |-> FALSE]
  /\ record = [r \in Requests |-> None]
  /\ refs = [r \in Requests |-> <<>>]
  /\ failed = [r \in Requests |-> FALSE]
  /\ queued = <<>>
  /\ auditFile = <<>>
  /\ written = {}
  /\ faults = 0
  /\ touched = {}
  /\ scan = NoScan

Set(f, x, v) == [y \in DOMAIN f \cup {x} |-> IF y = x THEN v ELSE f[y]]
Goto(r, stage, rec) == pc' = [pc EXCEPT ![r] = stage] /\ record' = [record EXCEPT ![r] = rec]

(***************************************************************************)
(* The sink.                                                               *)
(***************************************************************************)
\* A decision is filed under its input digest, the other records under the
\* digest of their content with a marker of their kind.
FileName(rec) == <<rec.ver, IF rec.ver = "decision" THEN rec.digest ELSE rec>>

\* What follows the emission of record[r], decision records one after another.
AfterRecord(r, ok) ==
  IF pc[r] # "emit" THEN Goto(r, "done", None) /\ UNCHANGED <<refs, failed>>
  ELSE LET emitted == Len(refs[r]) + 1
       IN /\ refs' = IF ok THEN [refs EXCEPT ![r] = Append(@, record[r].digest)] ELSE refs
          /\ failed' = [failed EXCEPT ![r] = ~ok]
          /\ IF ok /\ emitted < Len(conf.load[r])
               THEN Goto(r, "emit", RecordWith(conf.load[r][emitted + 1]))
               ELSE Goto(r, "emitted", None)

\* Emit, EmitAdmission, EmitOutcome up to the creation of the file.
OpenFile(r) ==
  /\ record[r] # None
  /\ mu = NoOne
  /\ mu' = r
  /\ dir' = Set(dir, FileName(record[r]), Torn)
  /\ written' = written \cup {Seal(record[r], conf).payload}
  /\ UNCHANGED <<conf, pc, granted, record, refs, failed, queued, auditFile, faults, touched, scan>>

FillFile(r) ==
  /\ mu = r
  /\ mu' = NoOne
  /\ dir' = Set(dir, FileName(record[r]), Seal(record[r], conf))
  /\ AfterRecord(r, TRUE)
  /\ UNCHANGED <<conf, granted, queued, auditFile, written, faults, touched, scan>>

\* An error before the file exists (signing, MkdirAll, open) or while filling it.
EmitFails(r) ==
  /\ record[r] # None
  /\ mu \in {NoOne, r}
  /\ mu' = NoOne
  /\ AfterRecord(r, FALSE)
  /\ UNCHANGED <<conf, dir, granted, queued, auditFile, written, faults, touched, scan>>

(***************************************************************************)
(* The request.                                                            *)
(***************************************************************************)
AuditLine(op, digest, denied) == [op |-> op, digest |-> digest, denied |-> denied]

\* Plausible bug: the audit line is written before the records are.
MutantStart(r) ==
  /\ pc[r] = "start"
  /\ \/ Goto(r, "admission", NewAdmissionRecord(r)) /\ UNCHANGED <<granted, queued>>
     \/ \E g \in BOOLEAN :
          /\ conf.load[r] # <<>>
          /\ granted' = [granted EXCEPT ![r] = g]
          /\ queued' = Append(queued, AuditLine(r, conf.load[r][1], ~g))
          /\ Goto(r, "emit", RecordWith(conf.load[r][1]))
  /\ UNCHANGED <<conf, dir, mu, refs, failed, auditFile, written, faults, touched, scan>>

\* The request is refused before the language layer, or the pipeline decides
\* it; a plugin asked on the way logs its own line, without trace id or record,
\* its reason in the field that reads as a denial.
Start(r) ==
  /\ pc[r] = "start"
  /\ \/ Goto(r, "admission", NewAdmissionRecord(r)) /\ UNCHANGED <<granted, queued>>
     \/ \E g \in BOOLEAN, asked \in IF conf.plugins THEN BOOLEAN ELSE {FALSE} :
          /\ granted' = [granted EXCEPT ![r] = g]
          /\ queued' = IF asked THEN Append(queued, AuditLine(None, None, TRUE)) ELSE queued
          /\ IF conf.load[r] = <<>> THEN Goto(r, "emitted", None)
             ELSE Goto(r, "emit", RecordWith(conf.load[r][1]))
  /\ UNCHANGED <<conf, dir, mu, refs, failed, auditFile, written, faults, touched, scan>>

FirstRef(r) == IF refs[r] = <<>> THEN None ELSE refs[r][1]

AuditAdmission(r, denied) ==
  queued' = IF refs[r] = <<>> \/ ~conf.audit THEN queued ELSE Append(queued, AuditLine(r, FirstRef(r), denied))

\* refusalEvidence: one refusal, one record.
Refused(r) == IF refs[r] = <<>> THEN Goto(r, "admission", NewAdmissionRecord(r)) ELSE Goto(r, "done", None)

\* decide after the emission: the audit line, the strict refusal, and the
\* outcome report of an admitted request (which a later stage may still refuse).
Conclude(r) ==
  /\ pc[r] = "emitted"
  /\ \/ ~granted[r] /\ AuditAdmission(r, TRUE) /\ Refused(r)
     \/ granted[r] /\ failed[r] /\ conf.strict /\ Refused(r) /\ UNCHANGED queued
     \/ /\ granted[r] /\ ~(failed[r] /\ conf.strict)
        /\ AuditAdmission(r, FALSE)
        /\ IF EmitsOutcome(conf)
             THEN Goto(r, "outcome", NewOutcomeRecord(r, FirstRef(r)))
             ELSE Goto(r, "done", None)
  /\ UNCHANGED <<conf, dir, mu, granted, refs, failed, auditFile, written, faults, touched, scan>>

\* The audit logger's goroutine; its own ordering is module AuditLogger's.
WriteAudit ==
  /\ queued # <<>>
  /\ auditFile' = Append(auditFile, Head(queued))
  /\ queued' = Tail(queued)
  /\ UNCHANGED <<conf, dir, mu, pc, granted, record, refs, failed, written, faults, touched, scan>>

\* The process dies: its requests and the queue are gone, the files stay.
Crash ==
  /\ \E r \in Requests : pc[r] \notin {"start", "done"}
  /\ pc' = [r \in Requests |-> IF pc[r] = "start" THEN "start" ELSE "done"]
  /\ record' = [r \in Requests |-> None]
  /\ mu' = NoOne
  /\ queued' = <<>>
  /\ UNCHANGED <<conf, dir, granted, refs, failed, auditFile, written, faults, touched, scan>>

(***************************************************************************)
(* Outside changes to the directory.                                       *)
(***************************************************************************)
Others == Keys \ {SigningKey(conf)}

\* What someone may put in a file's place: the payload with another kind, with
\* nothing said, with a link or a decision of their own that reproduces; under
\* the old signatures or under a key that is not the deployment's.
Planted == Inputs \ UNION {Range(conf.load[r]) : r \in Requests}
EditedPayloads(p) ==
  { [p EXCEPT !.pred.says = ""], [p EXCEPT !.ptype = "admission"] }
    \cup { [p EXCEPT !.pred.link = i] : i \in Planted }
    \cup { [p EXCEPT !.pred = RecordWith(i), !.subjects = {<<"input", i>>}] : i \in Planted }

Edits(env) ==
  UNION {{[env EXCEPT !.payload = p],
          [env EXCEPT !.payload = p, !.sigs = {Sign(key, PAE(env.payloadType, p)) : key \in Others}]} :
         p \in EditedPayloads(env.payload)}

Outside(n) == faults < MaxFaults /\ faults' = faults + 1 /\ touched' = touched \cup {n}

AlterFile(n) ==
  /\ dir[n] # Torn
  /\ Outside(n)
  /\ \E e \in Edits(dir[n]) \ {dir[n]} : dir' = [dir EXCEPT ![n] = e]
  /\ UNCHANGED <<conf, requestVars, auditFile, scan>>

RemoveFile(n) ==
  /\ dir[n] # Torn
  /\ Outside(n)
  /\ dir' = Restrict(dir, DOMAIN dir \ {n})
  /\ UNCHANGED <<conf, requestVars, auditFile, scan>>

(***************************************************************************)
(* VerifyEvidenceDir, with the deployment's key pinned (none for one that  *)
(* does not sign): the listing may or may not show a file created while it *)
(* is being read; then the files, one by one; then the outcomes.           *)
(***************************************************************************)
Verified(env) == VerifyEvidenceEnvelope(env, SigningKey(conf))

ScanBegin ==
  /\ conf.reader = "verifier"
  /\ scan.phase = "idle"
  /\ scan' = [scan EXCEPT !.phase = "list", !.snapshot = dir, !.at = faults]
  /\ UNCHANGED <<conf, dir, requestVars, auditFile, faults, touched>>

ScanList ==
  /\ scan.phase = "list"
  /\ \E new \in SUBSET (DOMAIN dir \ DOMAIN scan.snapshot) :
       scan' = [scan EXCEPT !.phase = "files", !.todo = DOMAIN scan.snapshot \cup new]
  /\ UNCHANGED <<conf, dir, requestVars, auditFile, faults, touched>>

\* One turn of the first pass, in the order of the names, outcomes last:
\* unreadable, unparsable or unverified files are failures, outcomes wait for
\* the second pass.
ScanFile(n) ==
  /\ n \in scan.todo
  /\ n[1] = "outcome" => \A m \in scan.todo : m[1] = "outcome"
  /\ LET ok == n \in DOMAIN dir /\ dir[n] # Torn
         kind == IF ok THEN Verified(dir[n]) ELSE "error"
     IN scan' = [scan EXCEPT !.todo = @ \ {n},
                   !.failures = IF kind = "error" THEN @ \cup {n} ELSE @,
                   !.outcomes = IF kind = "outcome" THEN @ \cup {<<n, dir[n]>>} ELSE @,
                   !.counted = IF kind \in {"decision", "admission"} THEN @ \cup {dir[n]} ELSE @]
  /\ UNCHANGED <<conf, dir, requestVars, auditFile, faults, touched>>

Decisions(envs) == {e.payload.pred.digest : e \in {x \in envs : x.payload.ptype = "decision"}}

\* Plausible bug: an outcome without a link passes as one that needs none.
MutantLinked(env, digests) == env.payload.pred.link \in digests \cup {None}

Linked(env, digests) == env.payload.pred.link \in digests

ScanLink ==
  /\ scan.phase = "files"
  /\ scan.todo = {}
  /\ LET digests == Decisions(scan.counted)
         linked == {o \in scan.outcomes : Linked(o[2], digests)}
     IN scan' = [scan EXCEPT !.phase = "done",
                   !.counted = @ \cup {o[2] : o \in linked},
                   !.failures = @ \cup {o[1] : o \in scan.outcomes \ linked}]
  /\ UNCHANGED <<conf, dir, requestVars, auditFile, faults, touched>>

StoreNext ==
  \/ \E r \in Requests : Start(r) \/ OpenFile(r) \/ FillFile(r) \/ EmitFails(r) \/ Conclude(r)
  \/ WriteAudit \/ Crash
  \/ \E n \in DOMAIN dir : AlterFile(n) \/ RemoveFile(n)
  \/ ScanBegin \/ ScanList \/ \E n \in scan.todo : ScanFile(n)
  \/ ScanLink
===============================================================================

-------------------------------- MODULE Decide --------------------------------
(***************************************************************************)
(* The life of one request through the verifier: decide.go's decision core *)
(* (credential, access pipeline, evidence emission, audit, evidence        *)
(* requirement, human supervision), the middleware around it               *)
(* (Config.Handler), the reverse proxy behind it (Server.proxy) and the    *)
(* evidence each stage leaves in the shared sink.                          *)
(*                                                                         *)
(* Requests run concurrently and share the sink, the audit log and the     *)
(* source of per-admission nonces.  What the pipeline, the requirement     *)
(* evaluator, the approver, the hook, the backend and the sink answer is   *)
(* chosen freely: the properties are about what the verifier does with     *)
(* those answers.  The pipeline's own ordering is left to its module.      *)
(***************************************************************************)
EXTENDS Naturals, Sequences, FiniteSets

CONSTANTS
  Requests,    \* the requests in flight
  Scenarios,   \* the deployments and request views considered, see Scenario
  MaxRecords   \* bound on (operation, source) pairs one admission decides

ASSUME MaxRecordsAssumption == MaxRecords \in Nat

\* The fields of Config and EvidenceConfig the control flow reads.
ConfigType ==
  [mode : {"mtls", "bearer", "either"},  \* authMode
   cas : BOOLEAN,          \* tlsCAs # nil
   verifier : BOOLEAN,     \* verifier # nil
   evidence : BOOLEAN,     \* Evidence # nil
   noDecision : BOOLEAN,   \* Evidence.profileNoDecision
   strict : BOOLEAN,       \* Evidence.Strict
   emitOutcome : BOOLEAN,  \* Evidence.EmitOutcome
   outcomeSink : BOOLEAN,  \* the sink implements OutcomeSink
   onError : BOOLEAN,      \* Evidence.OnError # nil
   audit : BOOLEAN,        \* AuditLogger # nil
   requirement : BOOLEAN,  \* EvidenceRequirement # nil
   requester : BOOLEAN,    \* ApprovalRequester # nil
   proxy : BOOLEAN]        \* next is the reverse proxy (outcomeSelfReporting)

\* The RequestView: its carrier, the certificate a trusted hop verified, the
\* chain and the bearer token presented, and whether the transport is TLS.
ViewType ==
  [carrier : {"http", "direct"}, verified : BOOLEAN,
   chain : {"none", "good", "bad"}, token : {"none", "good", "bad"},
   secure : BOOLEAN]

Scenario == [cfg : ConfigType, view : [Requests -> ViewType]]

ASSUME ScenariosAssumption == \A s \in Scenarios : s \in Scenario

VARIABLES
  cfg,        \* the deployment, fixed for a behaviour
  view,       \* view[r]: what the request presents
  pc,         \* pc[r]: the stage the request is in
  granted,    \* granted[r]: PipelineResult.Granted
  due,        \* due[r]: records the pipeline's decisions call for
  nonce,      \* nonce[r]: instance nonce of this admission, 0 before
  minted,     \* nonces minted so far by newEvidenceNonce
  refs,       \* refs[r]: what emitEvidence returned (AuthContext.Evidence)
  evErr,      \* evErr[r]: emitEvidence returned an error
  verdict,    \* verdict[r]: result of the evidence requirement
  approval,   \* approval[r]: the supervision event noted, if any
  errRefs,    \* errRefs[r]: AuthError.Evidence
  served,     \* served[r]: the downstream handler or backend was invoked
  reply,      \* reply[r]: what the caller was told
  vetoed,     \* vetoed[r]: the Authenticated hook refused the request
  aborted,    \* aborted[r]: the downstream handler panicked
  sink,       \* the records the sink persisted
  gaps,       \* gaps[r]: failed emissions of r counted and reported
  auditLog    \* the admission entries handed to the audit logger

vars == <<cfg, view, pc, granted, due, nonce, minted, refs, evErr, verdict,
          approval, errRefs, served, reply, vetoed, aborted, sink, gaps,
          auditLog>>

Stages == {"start", "pipeline", "emit", "requirement", "supervise", "refuse",
           "hook", "serve", "outcome", "done"}

NoDigest == <<0, 0>>

Init ==
  /\ \E s \in Scenarios : cfg = s.cfg /\ view = s.view
  /\ pc = [r \in Requests |-> "start"]
  /\ granted = [r \in Requests |-> FALSE]
  /\ due = [r \in Requests |-> 0]
  /\ nonce = [r \in Requests |-> 0]
  /\ minted = 0
  /\ refs = [r \in Requests |-> <<>>]
  /\ evErr = [r \in Requests |-> FALSE]
  /\ verdict = [r \in Requests |-> "none"]
  /\ approval = [r \in Requests |-> "none"]
  /\ errRefs = [r \in Requests |-> <<>>]
  /\ served = [r \in Requests |-> FALSE]
  /\ reply = [r \in Requests |-> "none"]
  /\ vetoed = [r \in Requests |-> FALSE]
  /\ aborted = [r \in Requests |-> FALSE]
  /\ sink = {}
  /\ gaps = [r \in Requests |-> 0]
  /\ auditLog = {}

Goto(r, stage) == pc' = [pc EXCEPT ![r] = stage]

(***************************************************************************)
(* Refusing and returning.  decide returns an AuthError carrying e; the    *)
(* HTTP middleware still has refusalEvidence to run, a direct caller of    *)
(* Decide (DecisionServer, gRPC, queue) has the answer.                    *)
(***************************************************************************)
Refuse(r, e) ==
  /\ errRefs' = [errRefs EXCEPT ![r] = e]
  /\ reply' = [reply EXCEPT ![r] = "refused"]
  /\ Goto(r, IF view[r].carrier = "http" THEN "refuse" ELSE "done")

\* decide's last line: the AuthContext is returned; only the middleware has a
\* hook and a downstream handler to run.
Return(r) ==
  /\ reply' = [reply EXCEPT ![r] = IF view[r].carrier = "http" THEN "none" ELSE "admitted"]
  /\ Goto(r, IF view[r].carrier = "http" THEN "hook" ELSE "done")

(***************************************************************************)
(* Credential resolution.                                                  *)
(***************************************************************************)
ResolveCredential(c, v) ==
  CASE v.verified -> "verified"
    [] ~v.verified /\ v.chain # "none" /\ c.mode \in {"mtls", "either"} -> "chain"
    [] ~v.verified /\ (v.chain = "none" \/ c.mode = "bearer")
         /\ c.mode \in {"bearer", "either"} /\ v.token # "none" ->
           IF c.verifier /\ v.secure /\ v.token = "good" THEN "bearer" ELSE "error"
    [] OTHER -> "none"

\* Plausible bug: without a CA pool an unverified chain goes through.
MutantCredentialAccepted(c, v) ==
  LET cred == ResolveCredential(c, v)
  IN \/ cred \in {"verified", "bearer"}
     \/ cred = "chain" /\ (c.cas => v.chain = "good")

\* resolveCredential, the missing credential, the CA pool that is not there and
\* buildChain: every early return before the pipeline.
CredentialAccepted(c, v) ==
  LET cred == ResolveCredential(c, v)
  IN \/ cred \in {"verified", "bearer"}
     \/ cred = "chain" /\ c.cas /\ v.chain = "good"

Resolve(r) ==
  /\ pc[r] = "start"
  /\ \/ /\ ~CredentialAccepted(cfg, view[r])
        /\ Refuse(r, <<>>)
     \/ /\ CredentialAccepted(cfg, view[r])
        /\ Goto(r, "pipeline")
        /\ UNCHANGED <<errRefs, reply>>
  /\ UNCHANGED <<cfg, view, granted, due, nonce, minted, refs, evErr, verdict,
                 approval, served, vetoed, aborted, sink, gaps, auditLog>>

(***************************************************************************)
(* The access pipeline and the records of its decisions.                   *)
(***************************************************************************)
\* Plausible bug: no instance nonce, so equal decisions have equal digests.
MutantPipeline(r) ==
  /\ pc[r] = "pipeline"
  /\ \E g \in BOOLEAN, n \in 0 .. MaxRecords :
       /\ granted' = [granted EXCEPT ![r] = g]
       /\ due' = [due EXCEPT ![r] = IF cfg.evidence /\ ~cfg.noDecision THEN n ELSE 0]
       /\ UNCHANGED <<minted, nonce>>
  /\ Goto(r, "emit")
  /\ UNCHANGED <<cfg, view, refs, evErr, verdict, approval, errRefs, served,
                 reply, vetoed, aborted, sink, gaps, auditLog>>

\* RunAccessPipeline answers; n is the number of (operation, source) pairs
\* EmitDecisionRecords will freeze, none without evidence configured or under a
\* profile without decision records.  The nonce is minted when there are some.
Pipeline(r) ==
  /\ pc[r] = "pipeline"
  /\ \E g \in BOOLEAN, n \in 0 .. MaxRecords :
       LET d == IF cfg.evidence /\ ~cfg.noDecision THEN n ELSE 0
       IN /\ granted' = [granted EXCEPT ![r] = g]
          /\ due' = [due EXCEPT ![r] = d]
          /\ minted' = IF d > 0 THEN minted + 1 ELSE minted
          /\ nonce' = [nonce EXCEPT ![r] = IF d > 0 THEN minted + 1 ELSE 0]
  /\ Goto(r, "emit")
  /\ UNCHANGED <<cfg, view, refs, evErr, verdict, approval, errRefs, served,
                 reply, vetoed, aborted, sink, gaps, auditLog>>

DecisionRecord(r, k) ==
  [req |-> r, kind |-> "decision",
   says |-> IF granted[r] THEN "admitted" ELSE "refused",
   digest |-> <<nonce[r], k>>, points |-> NoDigest]

\* One turn of EmitDecisionRecords' loop: freeze, tag, sign and emit a record.
EmitRecord(r) ==
  /\ pc[r] = "emit"
  /\ ~evErr[r]
  /\ Len(refs[r]) < due[r]
  /\ LET k == Len(refs[r]) + 1
     IN /\ sink' = sink \cup {DecisionRecord(r, k)}
        /\ refs' = [refs EXCEPT ![r] = Append(@, <<nonce[r], k>>)]
  /\ UNCHANGED <<cfg, view, pc, granted, due, nonce, minted, evErr, verdict,
                 approval, errRefs, served, reply, vetoed, aborted, gaps, auditLog>>

\* Plausible bug: a failed emission still yields a reference, uncounted.
MutantEmitFail(r) ==
  /\ pc[r] = "emit"
  /\ ~evErr[r]
  /\ Len(refs[r]) < due[r]
  /\ refs' = [refs EXCEPT ![r] = Append(@, <<nonce[r], Len(@) + 1>>)]
  /\ UNCHANGED <<cfg, view, pc, granted, due, nonce, minted, evErr, verdict,
                 approval, errRefs, served, reply, vetoed, aborted, sink, gaps, auditLog>>

\* The record, its envelope, its signature or the sink fails: the loop stops and
\* emitEvidence counts the gap and reports it.
EmitFail(r) ==
  /\ pc[r] = "emit"
  /\ ~evErr[r]
  /\ Len(refs[r]) < due[r]
  /\ evErr' = [evErr EXCEPT ![r] = TRUE]
  /\ gaps' = [gaps EXCEPT ![r] = @ + 1]
  /\ UNCHANGED <<cfg, view, pc, granted, due, nonce, minted, refs, verdict,
                 approval, errRefs, served, reply, vetoed, aborted, sink, auditLog>>

Emitted(r) == pc[r] = "emit" /\ (evErr[r] \/ Len(refs[r]) = due[r])

\* auditAdmission: an entry pinning the first record, when there is one.
AuditAdmission(r, action) ==
  auditLog' = IF cfg.audit /\ refs[r] # <<>>
                THEN auditLog \cup {[req |-> r, action |-> action, digest |-> refs[r][1]]}
                ELSE auditLog

\* The denied branch of decide: audit, then the plain, the challenged or the
\* evidence_unavailable refusal, all carrying the references.
Deny(r) ==
  /\ Emitted(r)
  /\ ~granted[r]
  /\ AuditAdmission(r, "denied")
  /\ Refuse(r, refs[r])
  /\ UNCHANGED <<cfg, view, granted, due, nonce, minted, refs, evErr, verdict,
                 approval, served, vetoed, aborted, sink, gaps>>

\* A strict deployment refuses what it could not record, before the audit.
StrictRefuse(r) ==
  /\ Emitted(r)
  /\ granted[r]
  /\ evErr[r] /\ cfg.strict
  /\ Refuse(r, refs[r])
  /\ UNCHANGED <<cfg, view, granted, due, nonce, minted, refs, evErr, verdict,
                 approval, served, vetoed, aborted, sink, gaps, auditLog>>

\* Plausible bug: a strict deployment goes on after a failed emission.
MutantAdmit(r) ==
  /\ Emitted(r)
  /\ granted[r]
  /\ AuditAdmission(r, "connected")
  /\ Goto(r, "requirement")
  /\ UNCHANGED <<cfg, view, granted, due, nonce, minted, refs, evErr, verdict,
                 approval, errRefs, served, reply, vetoed, aborted, sink, gaps>>

Admit(r) ==
  /\ Emitted(r)
  /\ granted[r]
  /\ ~(evErr[r] /\ cfg.strict)
  /\ AuditAdmission(r, "connected")
  /\ Goto(r, "requirement")
  /\ UNCHANGED <<cfg, view, granted, due, nonce, minted, refs, evErr, verdict,
                 approval, errRefs, served, reply, vetoed, aborted, sink, gaps>>

(***************************************************************************)
(* Evidence requirement and supervision.                                   *)
(***************************************************************************)
\* checkEvidenceRequirement: no requirement, or an explicit satisfied, goes on;
\* an invalid requirement, missing facts, an error, violated and unknown refuse,
\* with an AuthError that carries no references.
CheckEvidenceRequirement(r) ==
  /\ pc[r] = "requirement"
  /\ \/ /\ ~cfg.requirement
        /\ Goto(r, "supervise")
        /\ UNCHANGED <<verdict, errRefs, reply>>
     \/ /\ cfg.requirement
        /\ verdict' = [verdict EXCEPT ![r] = "satisfied"]
        /\ Goto(r, "supervise")
        /\ UNCHANGED <<errRefs, reply>>
     \/ /\ cfg.requirement
        /\ verdict' = [verdict EXCEPT ![r] = "unsatisfied"]
        /\ Refuse(r, <<>>)
  /\ UNCHANGED <<cfg, view, granted, due, nonce, minted, refs, evErr, approval,
                 served, vetoed, aborted, sink, gaps, auditLog>>

\* supervise for a request nothing flags.
Unsupervised(r) ==
  /\ pc[r] = "supervise"
  /\ approval' = [approval EXCEPT ![r] = "unneeded"]
  /\ Return(r)
  /\ UNCHANGED <<cfg, view, granted, due, nonce, minted, refs, evErr, verdict,
                 errRefs, served, vetoed, aborted, sink, gaps, auditLog>>

\* A flagged request: only an approval from a configured requester admits; a
\* denial, a pending answer, an error and a nil requester refuse.
Approved(r) ==
  /\ pc[r] = "supervise"
  /\ cfg.requester
  /\ approval' = [approval EXCEPT ![r] = "approved"]
  /\ Return(r)
  /\ UNCHANGED <<cfg, view, granted, due, nonce, minted, refs, evErr, verdict,
                 errRefs, served, vetoed, aborted, sink, gaps, auditLog>>

NotApproved(r) ==
  /\ pc[r] = "supervise"
  /\ approval' = [approval EXCEPT ![r] = "denied"]
  /\ Refuse(r, <<>>)
  /\ UNCHANGED <<cfg, view, granted, due, nonce, minted, refs, evErr, verdict,
                 served, vetoed, aborted, sink, gaps, auditLog>>

(***************************************************************************)
(* The middleware and the proxy.                                           *)
(***************************************************************************)
\* recordRefusal: an AdmissionRecord reaches the sink, or the failure is counted.
RecordRefusal(r) ==
  \/ /\ sink' = sink \cup {[req |-> r, kind |-> "admission", says |-> "refused",
                            digest |-> NoDigest, points |-> NoDigest]}
     /\ errRefs' = [errRefs EXCEPT ![r] = Append(@, NoDigest)]
     /\ UNCHANGED gaps
  \/ /\ gaps' = [gaps EXCEPT ![r] = @ + 1]
     /\ UNCHANGED <<sink, errRefs>>

\* Plausible bug: the guard reads the admission's references, not the error's.
MutantRefusalEvidence(r) ==
  /\ pc[r] = "refuse"
  /\ IF cfg.evidence /\ refs[r] # <<>>
       THEN RecordRefusal(r)
       ELSE UNCHANGED <<sink, errRefs, gaps>>
  /\ Goto(r, "done")
  /\ UNCHANGED <<cfg, view, granted, due, nonce, minted, refs, evErr, verdict,
                 approval, served, reply, vetoed, aborted, auditLog>>

\* Handler's error branch: refusalEvidence unless the error carries records,
\* the Denied hook and the response.
RefusalEvidence(r) ==
  /\ pc[r] = "refuse"
  /\ IF cfg.evidence /\ errRefs[r] = <<>>
       THEN RecordRefusal(r)
       ELSE UNCHANGED <<sink, errRefs, gaps>>
  /\ Goto(r, "done")
  /\ UNCHANGED <<cfg, view, granted, due, nonce, minted, refs, evErr, verdict,
                 approval, served, reply, vetoed, aborted, auditLog>>

\* The Authenticated hook lets the request through, or vetoes it.
HookPass(r) ==
  /\ pc[r] = "hook"
  /\ Goto(r, "serve")
  /\ UNCHANGED <<cfg, view, granted, due, nonce, minted, refs, evErr, verdict,
                 approval, errRefs, served, reply, vetoed, aborted, sink, gaps, auditLog>>

HookVeto(r) ==
  /\ pc[r] = "hook"
  /\ vetoed' = [vetoed EXCEPT ![r] = TRUE]
  /\ reply' = [reply EXCEPT ![r] = "refused"]
  /\ Goto(r, "done")
  /\ UNCHANGED <<cfg, view, granted, due, nonce, minted, refs, evErr, verdict,
                 approval, errRefs, served, aborted, sink, gaps, auditLog>>

\* Server.proxy refuses (no route, method, capability): deny, with
\* denialEvidence unless the admission left records.
ProxyDeny(r) ==
  /\ pc[r] = "serve"
  /\ cfg.proxy
  /\ IF cfg.evidence /\ refs[r] = <<>>
       THEN RecordRefusal(r)
       ELSE UNCHANGED <<sink, errRefs, gaps>>
  /\ reply' = [reply EXCEPT ![r] = "refused"]
  /\ Goto(r, "done")
  /\ UNCHANGED <<cfg, view, granted, due, nonce, minted, refs, evErr, verdict,
                 approval, served, vetoed, aborted, auditLog>>

\* next.ServeHTTP returns: the handler answered, or the proxy reached its backend
\* or mapped a transport failure to 502.
Serve(r) ==
  /\ pc[r] = "serve"
  /\ served' = [served EXCEPT ![r] = TRUE]
  /\ reply' = [reply EXCEPT ![r] = "admitted"]
  /\ Goto(r, "outcome")
  /\ UNCHANGED <<cfg, view, granted, due, nonce, minted, refs, evErr, verdict,
                 approval, errRefs, vetoed, aborted, sink, gaps, auditLog>>

\* next.ServeHTTP panics: a handler that fails, or httputil.ReverseProxy raising
\* http.ErrAbortHandler when the backend breaks off in mid-response.  Nothing
\* between here and net/http recovers, so the code after the call never runs.
ServeAbort(r) ==
  /\ pc[r] = "serve"
  /\ served' = [served EXCEPT ![r] = TRUE]
  /\ aborted' = [aborted EXCEPT ![r] = TRUE]
  /\ reply' = [reply EXCEPT ![r] = "admitted"]
  /\ Goto(r, "done")
  /\ UNCHANGED <<cfg, view, granted, due, nonce, minted, refs, evErr, verdict,
                 approval, errRefs, vetoed, sink, gaps, auditLog>>

OutcomeRecord(r) ==
  [req |-> r, kind |-> "outcome", says |-> "admitted", digest |-> NoDigest,
   points |-> IF refs[r] = <<>> THEN NoDigest ELSE refs[r][1]]

\* reportObservedOutcome: nothing to do, a sink without outcome records (counted
\* and reported only with an OnError), a record, or a failed one.
ReportObservedOutcome(r) ==
  /\ pc[r] = "outcome"
  /\ \/ /\ ~(cfg.evidence /\ cfg.emitOutcome)
        /\ UNCHANGED <<sink, gaps>>
     \/ /\ cfg.evidence /\ cfg.emitOutcome /\ ~cfg.outcomeSink
        /\ gaps' = IF cfg.onError THEN [gaps EXCEPT ![r] = @ + 1] ELSE gaps
        /\ UNCHANGED sink
     \/ /\ cfg.evidence /\ cfg.emitOutcome /\ cfg.outcomeSink
        /\ \/ /\ sink' = sink \cup {OutcomeRecord(r)}
              /\ UNCHANGED gaps
           \/ /\ gaps' = [gaps EXCEPT ![r] = @ + 1]
              /\ UNCHANGED sink
  /\ Goto(r, "done")
  /\ UNCHANGED <<cfg, view, granted, due, nonce, minted, refs, evErr, verdict,
                 approval, errRefs, served, reply, vetoed, aborted, auditLog>>

Step(r) ==
  \/ Resolve(r) \/ Pipeline(r) \/ EmitRecord(r) \/ EmitFail(r)
  \/ Deny(r) \/ StrictRefuse(r) \/ Admit(r)
  \/ CheckEvidenceRequirement(r)
  \/ Unsupervised(r) \/ Approved(r) \/ NotApproved(r)
  \/ RefusalEvidence(r) \/ HookPass(r) \/ HookVeto(r)
  \/ ProxyDeny(r) \/ Serve(r) \/ ServeAbort(r) \/ ReportObservedOutcome(r)

\* Every request has its answer; the verifier waits for more.
Finished ==
  /\ \A r \in Requests : pc[r] = "done"
  /\ UNCHANGED vars

Next == (\E r \in Requests : Step(r)) \/ Finished

Spec == Init /\ [][Next]_vars

(***************************************************************************)
(* Properties.                                                             *)
(***************************************************************************)
\* What a credential must be, said without the mode selection: verified by a
\* trusted hop, chained to the configured CAs, or a good token over TLS.
Authentic(r) ==
  \/ view[r].verified
  \/ cfg.cas /\ view[r].chain = "good"
  \/ cfg.verifier /\ view[r].secure /\ view[r].token = "good"

Recorded(r) == \E rec \in sink : rec.req = r

\* No path to the backend, or to an admitting answer of Decide, skips a gate:
\* the credential was authentic, the pipeline granted, a configured evidence
\* requirement was satisfied, a flagged request was approved, no hook vetoed.
NoBypass ==
  \A r \in Requests :
    served[r] \/ reply[r] = "admitted" =>
      /\ Authentic(r)
      /\ granted[r]
      /\ cfg.requirement => verdict[r] = "satisfied"
      /\ approval[r] \in {"unneeded", "approved"}
      /\ approval[r] = "approved" => cfg.requester
      /\ ~vetoed[r]

\* Under Strict a request reaches the backend only when every record of its
\* decisions is in the sink: an emission failure denies (EvidenceConfig.Strict).
StrictServedIsRecorded ==
  \A r \in Requests :
    served[r] /\ cfg.strict =>
      \A k \in 1 .. due[r] :
        \E rec \in sink : rec.req = r /\ rec.kind = "decision" /\ rec.digest = <<nonce[r], k>>

\* Every refusal the middleware or the proxy decides leaves a record of that
\* request in the sink, or is counted as a gap.  (A hook's veto is not.)
RefusalLeavesTrace ==
  \A r \in Requests :
    pc[r] = "done" /\ reply[r] = "refused" /\ view[r].carrier = "http"
      /\ cfg.evidence /\ ~vetoed[r]
      => Recorded(r) \/ gaps[r] > 0

\* An outcome record that points at a decision points at one admission only, the
\* one it followed, whatever identical requests run beside it.
OutcomeBinding ==
  \A o \in sink :
    o.kind = "outcome" /\ o.points # NoDigest =>
      {d.req : d \in {e \in sink : e.kind = "decision" /\ e.digest = o.points}} = {o.req}

\* The audit log and the record chain cross-reference: an entry's digest is that
\* of a persisted record of the same request with the same verdict.
AuditPinsRecord ==
  \A e \in auditLog :
    \E d \in sink : /\ d.req = e.req
                    /\ d.kind = "decision"
                    /\ d.digest = e.digest
                    /\ (e.action = "denied") <=> (d.says = "refused")

=============================================================================

----------------------------- MODULE DecideProofs -----------------------------
(***************************************************************************)
(* Theorems about Decide for any number of requests, any deployments and   *)
(* any number of decision records: no answer that admits skips a gate, and *)
(* under Strict what is served is recorded.                                *)
(***************************************************************************)
EXTENDS Decide, TLAPS

\* The stages that lie behind each gate of decide.
PastPipeline == {"requirement", "supervise", "hook", "serve", "outcome"}
PastRequirement == {"supervise", "hook", "serve", "outcome"}
PastSupervision == {"hook", "serve", "outcome"}

Control ==
  /\ pc \in [Requests -> Stages]
  /\ granted \in [Requests -> BOOLEAN]
  /\ verdict \in [Requests -> {"none", "satisfied", "unsatisfied"}]
  /\ approval \in [Requests -> {"none", "unneeded", "approved", "denied"}]
  /\ reply \in [Requests -> {"none", "admitted", "refused"}]
  /\ served \in [Requests -> BOOLEAN]
  /\ vetoed \in [Requests -> BOOLEAN]

\* What a request's stage says of the gates it has passed.
PassedCredential(r) ==
  pc[r] \in {"pipeline", "emit"} \cup PastPipeline => Authentic(r)
PassedPipeline(r) == pc[r] \in PastPipeline => granted[r]
PassedRequirement(r) ==
  pc[r] \in PastRequirement /\ cfg.requirement => verdict[r] = "satisfied"
PassedSupervision(r) ==
  pc[r] \in PastSupervision =>
    /\ approval[r] \in {"unneeded", "approved"}
    /\ approval[r] = "approved" => cfg.requester
PassedHook(r) == pc[r] # "done" => ~vetoed[r]

\* An admitting answer is given at the end, once: by decide to a direct caller,
\* after the backend to the middleware's.
AnswerLast(r) ==
  /\ served[r] \/ reply[r] = "admitted" => pc[r] \in {"outcome", "done"}
  /\ pc[r] = "refuse" => reply[r] = "refused"

Admitted(r) ==
  served[r] \/ reply[r] = "admitted" =>
      /\ Authentic(r)
      /\ granted[r]
      /\ cfg.requirement => verdict[r] = "satisfied"
      /\ approval[r] \in {"unneeded", "approved"}
      /\ approval[r] = "approved" => cfg.requester
      /\ ~vetoed[r]

GateInv(r) ==
  /\ PassedCredential(r) /\ PassedPipeline(r) /\ PassedRequirement(r)
  /\ PassedSupervision(r) /\ PassedHook(r) /\ AnswerLast(r) /\ Admitted(r)

GIInv == Control /\ \A r \in Requests : GateInv(r)

\* Every credential the core accepts is authentic, whatever the mode selects.
LEMMA AcceptedIsAuthentic ==
  ASSUME NEW r \in Requests, CredentialAccepted(cfg, view[r])
  PROVE  Authentic(r)
  <1> DEFINE c == cfg
             v == view[r]
  <1>1. ResolveCredential(c, v) = "verified" => v.verified
    BY DEF ResolveCredential
  <1>2. ResolveCredential(c, v) = "bearer" => c.verifier /\ v.secure /\ v.token = "good"
    BY DEF ResolveCredential
  <1>3. QED
    BY <1>1, <1>2 DEF CredentialAccepted, Authentic

\* A step of one request leaves what is known of the others.
LEMMA OthersKeep ==
  ASSUME GIInv, NEW r \in Requests, Step(r), NEW s \in Requests, s # r
  PROVE  GateInv(s)'
  <1>1. /\ UNCHANGED <<cfg, view>>
        /\ pc'[s] = pc[s] /\ granted'[s] = granted[s] /\ verdict'[s] = verdict[s]
        /\ approval'[s] = approval[s] /\ reply'[s] = reply[s]
        /\ served'[s] = served[s] /\ vetoed'[s] = vetoed[s]
    BY DEF GIInv, Control, Step, Resolve, Pipeline, EmitRecord, EmitFail, Deny, StrictRefuse,
           Admit, CheckEvidenceRequirement, Unsupervised, Approved, NotApproved,
           RefusalEvidence, HookPass, HookVeto, ProxyDeny, Serve, ServeAbort,
           ReportObservedOutcome, Goto, Refuse, Return
  <1>2. QED
    BY <1>1 DEF GIInv, GateInv, PassedCredential, PassedPipeline, PassedRequirement,
                PassedSupervision, PassedHook, AnswerLast, Admitted, Authentic

\* Before the requirement: the credential and the pipeline's verdict.
LEMMA EarlySteps ==
  ASSUME GIInv, NEW r \in Requests,
         \/ Resolve(r) \/ Pipeline(r) \/ EmitRecord(r) \/ EmitFail(r)
         \/ Deny(r) \/ StrictRefuse(r) \/ Admit(r)
  PROVE  Control' /\ GateInv(r)'
  <1> USE DEF GIInv, Control, GateInv, PassedCredential, PassedPipeline, PassedRequirement,
              PassedSupervision, PassedHook, AnswerLast, Admitted, Stages, PastPipeline,
              PastRequirement, PastSupervision, Goto, Refuse, Emitted
  <1>1. CASE Resolve(r)
    <2>1. CredentialAccepted(cfg, view[r]) => Authentic(r)
      BY AcceptedIsAuthentic
    <2>2. Authentic(r)' <=> Authentic(r)
      BY <1>1 DEF Resolve, Authentic
    <2>3. QED
      BY <1>1, <2>1, <2>2 DEF Resolve
  <1>2. CASE ~Resolve(r)
    <2>1. Authentic(r)' <=> Authentic(r)
      BY <1>2 DEF Pipeline, EmitRecord, EmitFail, Deny, StrictRefuse, Admit, Authentic
    <2>2. CASE Pipeline(r)
      BY <2>1, <2>2 DEF Pipeline
    <2>3. CASE EmitRecord(r) \/ EmitFail(r)
      BY <2>1, <2>3 DEF EmitRecord, EmitFail
    <2>4. CASE Deny(r) \/ StrictRefuse(r)
      BY <2>1, <2>4 DEF Deny, StrictRefuse
    <2>5. CASE Admit(r)
      BY <2>1, <2>5 DEF Admit
    <2>6. QED
      BY <1>2, <2>2, <2>3, <2>4, <2>5
  <1>3. QED
    BY <1>1, <1>2

\* From the requirement on.
LEMMA LateSteps ==
  ASSUME GIInv, NEW r \in Requests,
         \/ CheckEvidenceRequirement(r)
         \/ Unsupervised(r) \/ Approved(r) \/ NotApproved(r)
         \/ RefusalEvidence(r) \/ HookPass(r) \/ HookVeto(r)
         \/ ProxyDeny(r) \/ Serve(r) \/ ServeAbort(r) \/ ReportObservedOutcome(r)
  PROVE  Control' /\ GateInv(r)'
  <1> USE DEF GIInv, Control, GateInv, PassedCredential, PassedPipeline, PassedRequirement,
              PassedSupervision, PassedHook, AnswerLast, Admitted, Stages, PastPipeline,
              PastRequirement, PastSupervision, Goto, Refuse, Return
  <1>1. Authentic(r)' <=> Authentic(r)
    BY DEF CheckEvidenceRequirement, Unsupervised, Approved, NotApproved, RefusalEvidence,
           HookPass, HookVeto, ProxyDeny, Serve, ServeAbort, ReportObservedOutcome, Authentic
  <1>2. CASE CheckEvidenceRequirement(r)
    BY <1>1, <1>2 DEF CheckEvidenceRequirement
  <1>3. CASE Unsupervised(r) \/ Approved(r) \/ NotApproved(r)
    BY <1>1, <1>3 DEF Unsupervised, Approved, NotApproved
  <1>4. CASE RefusalEvidence(r)
    BY <1>1, <1>4 DEF RefusalEvidence
  <1>5. CASE HookPass(r) \/ HookVeto(r)
    <2>1. CASE HookPass(r)
      BY <1>1, <2>1 DEF HookPass
    <2>2. CASE HookVeto(r)
      <3>1. vetoed' \in [Requests -> BOOLEAN]
        BY <2>2 DEF HookVeto
      <3>2. ~served[r] /\ served'[r] = served[r]
        BY <2>2 DEF HookVeto
      <3>3. pc'[r] = "done" /\ reply'[r] = "refused"
        BY <2>2 DEF HookVeto
      <3>4. Control'
        BY <2>2, <3>1 DEF HookVeto
      <3>5. QED
        BY <3>2, <3>3, <3>4
    <2>3. QED
      BY <1>5, <2>1, <2>2
  <1>6. CASE ProxyDeny(r)
    BY <1>1, <1>6 DEF ProxyDeny
  <1>7. CASE Serve(r) \/ ServeAbort(r) \/ ReportObservedOutcome(r)
    <2>1. CASE Serve(r) \/ ServeAbort(r)
      <3>1. served' \in [Requests -> BOOLEAN]
        BY <2>1 DEF Serve, ServeAbort
      <3>2. Control'
        BY <2>1, <3>1 DEF Serve, ServeAbort
      <3>3. pc[r] = "serve" /\ pc'[r] \in {"outcome", "done"}
        BY <2>1 DEF Serve, ServeAbort
      <3>4. QED
        BY <1>1, <2>1, <3>2, <3>3 DEF Serve, ServeAbort
    <2>2. CASE ReportObservedOutcome(r)
      BY <1>1, <2>2 DEF ReportObservedOutcome
    <2>3. QED
      BY <1>7, <2>1, <2>2
  <1>8. QED
    BY <1>2, <1>3, <1>4, <1>5, <1>6, <1>7

\* The gate invariant is inductive and holds of every reachable state.
THEOREM GatesInductive == Spec => []GIInv
  <1>1. Init => GIInv
    BY DEF Init, GIInv, Control, GateInv, PassedCredential, PassedPipeline, PassedRequirement,
           PassedSupervision, PassedHook, AnswerLast, Admitted, Stages, PastPipeline,
           PastRequirement, PastSupervision
  <1>2. GIInv /\ [Next]_vars => GIInv'
    <2> SUFFICES ASSUME GIInv, [Next]_vars PROVE GIInv'
      OBVIOUS
    <2>1. CASE UNCHANGED vars
      BY <2>1 DEF vars, GIInv, Control, GateInv, PassedCredential, PassedPipeline,
                  PassedRequirement, PassedSupervision, PassedHook, AnswerLast, Admitted,
                  Authentic
    <2>2. ASSUME NEW r \in Requests, Step(r) PROVE GIInv'
      <3>1. Control' /\ GateInv(r)'
        BY <2>2, EarlySteps, LateSteps DEF Step
      <3>2. \A s \in Requests : s # r => GateInv(s)'
        BY <2>2, OthersKeep
      <3>3. QED
        BY <3>1, <3>2 DEF GIInv
    <2>3. QED
      BY <2>1, <2>2 DEF Next, Finished
  <1>3. QED
    BY <1>1, <1>2, PTL DEF Spec

\* No path to the backend, or to an admitting answer of Decide, skips a gate.
THEOREM NoBypassHolds == Spec => []NoBypass
  <1>1. GIInv => NoBypass
    BY DEF GIInv, GateInv, Admitted, NoBypass
  <1>2. QED
    BY <1>1, GatesInductive, PTL

(***************************************************************************)
(* The records.  A request's references and the records behind them are    *)
(* built by its emission loop only; a nonce is never minted twice.         *)
(***************************************************************************)
Early == {"start", "pipeline"}

RControl ==
  /\ pc \in [Requests -> Stages]
  /\ granted \in [Requests -> BOOLEAN]
  /\ served \in [Requests -> BOOLEAN]
  /\ evErr \in [Requests -> BOOLEAN]
  /\ refs \in [Requests -> Seq(Nat \X Nat)]
  /\ due \in [Requests -> Nat]
  /\ nonce \in [Requests -> Nat]
  /\ minted \in Nat

\* A request has no reference before its loop starts, and has a nonce once its
\* loop has something to emit.
LoopStart ==
  \A r \in Requests :
    /\ pc[r] \in Early => refs[r] = <<>> /\ nonce[r] = 0 /\ due[r] = 0
    /\ due[r] > 0 => nonce[r] > 0

\* Two admissions never share a nonce.
NoncesFresh ==
  /\ \A r \in Requests : nonce[r] <= minted
  /\ \A r, s \in Requests : nonce[r] > 0 /\ nonce[r] = nonce[s] => r = s

\* The k-th reference is the digest of the k-th record, which the sink holds.
RefsRecorded ==
  \A r \in Requests : \A k \in 1 .. Len(refs[r]) :
    /\ refs[r][k] = <<nonce[r], k>>
    /\ DecisionRecord(r, k) \in sink

\* Under Strict a request past the emission has all its records.
StrictComplete ==
  \A r \in Requests :
    (pc[r] \in PastPipeline \/ served[r]) /\ cfg.strict => Len(refs[r]) = due[r]

\* Every decision record bears its admission's nonce.
SinkBearsNonce ==
  \A d \in sink :
    d.kind = "decision" =>
      /\ d.req \in Requests
      /\ pc[d.req] \notin Early
      /\ nonce[d.req] > 0
      /\ \E k \in Nat : d.digest = <<nonce[d.req], k>>

\* An outcome points at its own admission's first record, or at none.
OutcomePoints ==
  \A o \in sink :
    o.kind = "outcome" /\ o.points # NoDigest =>
      /\ o.req \in Requests
      /\ o.points = <<nonce[o.req], 1>>
      /\ DecisionRecord(o.req, 1) \in sink

RInv ==
  /\ RControl /\ LoopStart /\ NoncesFresh /\ RefsRecorded /\ StrictComplete
  /\ SinkBearsNonce /\ OutcomePoints /\ AuditPinsRecord

\* A step that emits no decision or outcome record.
Quiet(r, p, x) ==
  /\ p \in Stages
  /\ pc' = [pc EXCEPT ![r] = p]
  /\ p \in PastPipeline => pc[r] \in PastPipeline \/ (cfg.strict => Len(refs[r]) = due[r])
  /\ p \in Early => pc[r] \in Early
  /\ \/ served' = served
     \/ served' = [served EXCEPT ![r] = TRUE] /\ pc[r] = "serve"
  /\ evErr' \in [Requests -> BOOLEAN]
  /\ sink' = sink \/ sink' = sink \cup {x}
  /\ x.kind = "admission"
  /\ auditLog' = auditLog \/ AuditPinsRecord'
  /\ UNCHANGED <<cfg, granted, due, nonce, minted, refs>>

\* It keeps the invariant: what the sink holds stays, and a request enters the
\* stages past the emission only with its records complete.
LEMMA QuietStep ==
  ASSUME RInv, NEW r \in Requests, NEW p, NEW x, Quiet(r, p, x)
  PROVE  RInv'
  <1> USE DEF Quiet
  <1>1. RControl'
    BY DEF RInv, RControl
  <1>2. LoopStart'
    BY DEF RInv, RControl, LoopStart
  <1>3. NoncesFresh'
    BY DEF RInv, NoncesFresh
  <1>4. sink \subseteq sink' /\ \A d \in sink' : d.kind # "admission" => d \in sink
    OBVIOUS
  <1>5. RefsRecorded'
    BY <1>4 DEF RInv, RefsRecorded, DecisionRecord
  <1>6. StrictComplete'
    <2> SUFFICES ASSUME NEW s \in Requests, pc'[s] \in PastPipeline \/ served'[s]
                 PROVE  \/ pc[s] \in PastPipeline \/ served[s]
                        \/ cfg.strict => Len(refs[s]) = due[s]
      BY DEF RInv, StrictComplete
    <2>1. QED
      BY DEF RInv, RControl, PastPipeline
  <1>7. SinkBearsNonce'
    <2> SUFFICES ASSUME NEW d \in sink', d.kind = "decision"
                 PROVE  /\ d.req \in Requests
                        /\ pc'[d.req] \notin Early
                        /\ nonce[d.req] > 0
                        /\ \E k \in Nat : d.digest = <<nonce[d.req], k>>
      BY DEF SinkBearsNonce
    <2>1. d \in sink
      BY <1>4
    <2>2. QED
      BY <2>1 DEF RInv, RControl, SinkBearsNonce
  <1>8. OutcomePoints'
    <2> SUFFICES ASSUME NEW o \in sink', o.kind = "outcome", o.points # NoDigest
                 PROVE  /\ o.req \in Requests
                        /\ o.points = <<nonce[o.req], 1>>
                        /\ DecisionRecord(o.req, 1) \in sink
      BY <1>4 DEF OutcomePoints, DecisionRecord
    <2>1. o \in sink
      BY <1>4
    <2>2. QED
      BY <2>1 DEF RInv, OutcomePoints
  <1>9. AuditPinsRecord'
    BY <1>4 DEF RInv, AuditPinsRecord
  <1>10. QED
    BY <1>1, <1>2, <1>3, <1>5, <1>6, <1>7, <1>8, <1>9 DEF RInv

\* The pipeline answers: the admission gets its nonce.
LEMMA PipelineStep ==
  ASSUME RInv, GIInv, NEW r \in Requests, Pipeline(r)
  PROVE  RInv'
  <1>1. PICK g \in BOOLEAN, m \in Nat :
          /\ granted' = [granted EXCEPT ![r] = g]
          /\ due' = [due EXCEPT ![r] = m]
          /\ minted' = IF m > 0 THEN minted + 1 ELSE minted
          /\ nonce' = [nonce EXCEPT ![r] = IF m > 0 THEN minted + 1 ELSE 0]
    <2>1. PICK g \in BOOLEAN, n \in 0 .. MaxRecords :
            LET d == IF cfg.evidence /\ ~cfg.noDecision THEN n ELSE 0
            IN /\ granted' = [granted EXCEPT ![r] = g]
               /\ due' = [due EXCEPT ![r] = d]
               /\ minted' = IF d > 0 THEN minted + 1 ELSE minted
               /\ nonce' = [nonce EXCEPT ![r] = IF d > 0 THEN minted + 1 ELSE 0]
      BY DEF Pipeline
    <2> DEFINE d == IF cfg.evidence /\ ~cfg.noDecision THEN n ELSE 0
    <2>2. d \in Nat
      BY MaxRecordsAssumption
    <2> HIDE DEF d
    <2>3. QED
      BY <2>1, <2>2 DEF d
  <1>2. /\ pc[r] = "pipeline" /\ pc' = [pc EXCEPT ![r] = "emit"]
        /\ UNCHANGED <<cfg, refs, evErr, served, sink, auditLog>>
    BY DEF Pipeline, Goto
  <1>3. RControl'
    BY <1>1, <1>2 DEF RInv, RControl, Stages
  <1>4. LoopStart'
    BY <1>1, <1>2 DEF RInv, RControl, LoopStart, Early
  <1>5. NoncesFresh'
    BY <1>1 DEF RInv, RControl, NoncesFresh
  <1>6. refs[r] = <<>> /\ Len(refs[r]) = 0
    BY <1>2 DEF RInv, LoopStart, Early
  <1>7. ASSUME NEW s \in Requests, s # r, NEW k
        PROVE  DecisionRecord(s, k)' = DecisionRecord(s, k) /\ nonce'[s] = nonce[s]
    BY <1>1, <1>7 DEF RInv, RControl, DecisionRecord
  <1>8. RefsRecorded'
    <2> SUFFICES ASSUME NEW s \in Requests, NEW k \in 1 .. Len(refs[s])
                 PROVE  refs[s][k] = <<nonce'[s], k>> /\ DecisionRecord(s, k)' \in sink
      BY <1>2 DEF RefsRecorded
    <2>1. s # r
      BY <1>6
    <2>2. QED
      BY <1>7, <2>1 DEF RInv, RefsRecorded
  <1>9. StrictComplete'
    <2> SUFFICES ASSUME NEW s \in Requests, pc'[s] \in PastPipeline \/ served[s], cfg.strict
                 PROVE  Len(refs[s]) = due'[s]
      BY <1>2 DEF StrictComplete
    <2>1. s # r
      BY <1>2 DEF RInv, RControl, PastPipeline, GIInv, GateInv, AnswerLast
    <2>2. QED
      BY <1>1, <1>2, <2>1 DEF RInv, RControl, StrictComplete
  <1>10. SinkBearsNonce'
    <2> SUFFICES ASSUME NEW d \in sink, d.kind = "decision"
                 PROVE  /\ d.req \in Requests
                        /\ pc'[d.req] \notin Early
                        /\ nonce'[d.req] > 0
                        /\ \E k \in Nat : d.digest = <<nonce'[d.req], k>>
      BY <1>2 DEF SinkBearsNonce
    <2>1. d.req \in Requests /\ d.req # r
      BY <1>2 DEF RInv, SinkBearsNonce, Early
    <2>2. nonce'[d.req] = nonce[d.req] /\ pc'[d.req] = pc[d.req]
      BY <1>2, <1>7, <2>1 DEF RInv, RControl
    <2>3. QED
      BY <2>1, <2>2 DEF RInv, SinkBearsNonce
  <1>11. OutcomePoints'
    <2> SUFFICES ASSUME NEW o \in sink, o.kind = "outcome", o.points # NoDigest
                 PROVE  /\ o.req \in Requests
                        /\ o.points = <<nonce'[o.req], 1>>
                        /\ DecisionRecord(o.req, 1)' \in sink
      BY <1>2 DEF OutcomePoints
    <2>1. /\ o.req \in Requests
          /\ o.points = <<nonce[o.req], 1>>
          /\ DecisionRecord(o.req, 1) \in sink
      BY DEF RInv, OutcomePoints
    <2>2. pc[o.req] \notin Early
      <3>1. DecisionRecord(o.req, 1).kind = "decision" /\ DecisionRecord(o.req, 1).req = o.req
        BY DEF DecisionRecord
      <3>2. QED
        BY <2>1, <3>1 DEF RInv, SinkBearsNonce
    <2>3. o.req # r
      BY <1>2, <2>2 DEF Early
    <2>4. QED
      BY <1>7, <2>1, <2>3
  <1>12. AuditPinsRecord'
    BY <1>2 DEF RInv, AuditPinsRecord
  <1>13. QED
    BY <1>3, <1>4, <1>5, <1>8, <1>9, <1>10, <1>11, <1>12 DEF RInv

\* One turn of the emission loop: the next record and its reference.
LEMMA EmitStep ==
  ASSUME RInv, GIInv, NEW r \in Requests, EmitRecord(r)
  PROVE  RInv'
  <1> DEFINE n == Len(refs[r])
             x == DecisionRecord(r, n + 1)
             q == <<nonce[r], n + 1>>
  <1>1. /\ pc[r] = "emit" /\ n < due[r]
        /\ sink' = sink \cup {x}
        /\ refs' = [refs EXCEPT ![r] = Append(refs[r], q)]
        /\ UNCHANGED <<cfg, pc, granted, due, nonce, minted, evErr, served, auditLog>>
    BY DEF EmitRecord
  <1>2. /\ refs[r] \in Seq(Nat \X Nat) /\ n \in Nat /\ due[r] \in Nat
        /\ nonce[r] \in Nat /\ q \in Nat \X Nat
    BY DEF RInv, RControl
  <1>3. /\ x.req = r /\ x.kind = "decision" /\ x.digest = q
    BY DEF DecisionRecord
  <1>4. \A s \in Requests : \A k : DecisionRecord(s, k)' = DecisionRecord(s, k)
    BY <1>1 DEF DecisionRecord
  <1> HIDE DEF x
  <1>5. refs'[r] \in Seq(Nat \X Nat) /\ Len(refs'[r]) = n + 1
        /\ refs'[r][n + 1] = q
        /\ \A k \in 1 .. n : refs'[r][k] = refs[r][k]
    BY <1>1, <1>2 DEF RInv, RControl
  <1>6. \A s \in Requests : s # r => refs'[s] = refs[s]
    BY <1>1 DEF RInv, RControl
  <1> HIDE DEF n, q
  <1>7. RControl'
    BY <1>1, <1>5 DEF RInv, RControl
  <1>8. LoopStart'
    BY <1>1, <1>6 DEF RInv, RControl, LoopStart, Early
  <1>9. NoncesFresh'
    BY <1>1 DEF RInv, NoncesFresh
  <1>10. RefsRecorded'
    <2> SUFFICES ASSUME NEW s \in Requests, NEW k \in 1 .. Len(refs'[s])
                 PROVE  refs'[s][k] = <<nonce[s], k>> /\ DecisionRecord(s, k) \in sink'
      BY <1>1, <1>4 DEF RefsRecorded
    <2>1. CASE s # r
      BY <1>1, <1>6, <2>1 DEF RInv, RefsRecorded
    <2>2. CASE s = r /\ k = n + 1
      BY <1>1, <1>5, <2>2 DEF x, q
    <2>3. CASE s = r /\ k # n + 1
      <3>1. k \in 1 .. n
        BY <1>2, <1>5, <2>3
      <3>2. QED
        BY <1>1, <1>5, <2>3, <3>1 DEF RInv, RefsRecorded, n
    <2>4. QED
      BY <2>1, <2>2, <2>3
  <1>11. StrictComplete'
    <2> SUFFICES ASSUME NEW s \in Requests, pc[s] \in PastPipeline \/ served[s], cfg.strict
                 PROVE  Len(refs'[s]) = due[s]
      BY <1>1 DEF StrictComplete
    <2>1. s # r
      BY <1>1 DEF RInv, RControl, PastPipeline, GIInv, GateInv, AnswerLast
    <2>2. QED
      BY <1>6, <2>1 DEF RInv, StrictComplete
  <1>12. SinkBearsNonce'
    <2> SUFFICES ASSUME NEW d \in sink', d.kind = "decision"
                 PROVE  /\ d.req \in Requests
                        /\ pc[d.req] \notin Early
                        /\ nonce[d.req] > 0
                        /\ \E k \in Nat : d.digest = <<nonce[d.req], k>>
      BY <1>1 DEF SinkBearsNonce
    <2>1. CASE d \in sink
      BY <2>1 DEF RInv, SinkBearsNonce
    <2>2. CASE d = x
      <3>1. nonce[r] > 0
        BY <1>1, <1>2 DEF RInv, LoopStart
      <3>2. n + 1 \in Nat /\ d.digest = <<nonce[r], n + 1>>
        BY <1>2, <1>3, <2>2 DEF q
      <3>3. QED
        BY <1>1, <1>3, <2>2, <3>1, <3>2 DEF Early
    <2>3. QED
      BY <1>1, <2>1, <2>2
  <1>13. OutcomePoints'
    <2> SUFFICES ASSUME NEW o \in sink', o.kind = "outcome", o.points # NoDigest
                 PROVE  /\ o.req \in Requests
                        /\ o.points = <<nonce[o.req], 1>>
                        /\ DecisionRecord(o.req, 1) \in sink'
      BY <1>1, <1>4 DEF OutcomePoints
    <2>1. o \in sink
      BY <1>1, <1>3
    <2>2. QED
      BY <1>1, <2>1 DEF RInv, OutcomePoints
  <1>14. AuditPinsRecord'
    BY <1>1 DEF RInv, AuditPinsRecord
  <1>15. QED
    BY <1>7, <1>8, <1>9, <1>10, <1>11, <1>12, <1>13, <1>14 DEF RInv

\* The audit entry of an admission pins its first record.
LEMMA AuditEntryPinned ==
  ASSUME RInv, NEW r \in Requests, NEW action,
         AuditAdmission(r, action), UNCHANGED sink,
         action = "denied" <=> ~granted[r]
  PROVE  AuditPinsRecord'
  <1>1. CASE auditLog' = auditLog
    BY <1>1 DEF RInv, AuditPinsRecord
  <1>2. CASE /\ refs[r] # <<>>
             /\ auditLog' = auditLog \cup {[req |-> r, action |-> action, digest |-> refs[r][1]]}
    <2> DEFINE a == [req |-> r, action |-> action, digest |-> refs[r][1]]
               d == DecisionRecord(r, 1)
    <2>1. 1 \in 1 .. Len(refs[r])
      BY <1>2 DEF RInv, RControl
    <2>2. d \in sink /\ refs[r][1] = <<nonce[r], 1>>
      BY <2>1 DEF RInv, RefsRecorded
    <2>3. /\ d.req = r /\ d.kind = "decision" /\ d.digest = <<nonce[r], 1>>
          /\ d.says = IF granted[r] THEN "admitted" ELSE "refused"
      BY DEF DecisionRecord
    <2>4. a.req = r /\ a.action = action /\ a.digest = refs[r][1]
      OBVIOUS
    <2> HIDE DEF a, d
    <2>5. \E e \in sink : /\ e.req = a.req
                          /\ e.kind = "decision"
                          /\ e.digest = a.digest
                          /\ (a.action = "denied") <=> (e.says = "refused")
      BY <2>2, <2>3, <2>4 DEF RInv, RControl
    <2>6. auditLog' = auditLog \cup {a}
      BY <1>2 DEF a
    <2>7. QED
      BY <2>5, <2>6 DEF RInv, AuditPinsRecord
  <1>3. QED
    BY <1>1, <1>2 DEF AuditAdmission

\* The end of the emission: refusals, and the admission that audits and goes on.
LEMMA AfterEmission ==
  ASSUME RInv, NEW r \in Requests, Deny(r) \/ StrictRefuse(r) \/ Admit(r)
  PROVE  RInv'
  <1> DEFINE x == [kind |-> "admission"]
  <1>1. x.kind = "admission"
    OBVIOUS
  <1> HIDE DEF x
  <1>2. /\ pc[r] = "emit" /\ (evErr[r] \/ Len(refs[r]) = due[r])
        /\ UNCHANGED <<cfg, granted, due, nonce, minted, refs, evErr, served, sink>>
    BY DEF Deny, StrictRefuse, Admit, Emitted
  <1>3. evErr' \in [Requests -> BOOLEAN]
    BY <1>2 DEF RInv, RControl
  <1>4. CASE StrictRefuse(r) \/ Deny(r)
    <2>1. auditLog' = auditLog \/ AuditPinsRecord'
      BY <1>2, <1>4, AuditEntryPinned DEF StrictRefuse, Deny
    <2>2. PICK p \in {"refuse", "done"} : pc' = [pc EXCEPT ![r] = p]
      BY <1>4 DEF StrictRefuse, Deny, Refuse, Goto
    <2>3. p \in Stages /\ p \notin PastPipeline /\ p \notin Early
      BY DEF Stages, PastPipeline, Early
    <2>4. QED
      <3>1. Quiet(r, p, x)
        BY <1>1, <1>2, <1>3, <2>1, <2>2, <2>3 DEF Quiet
      <3>2. QED
        BY <3>1, QuietStep
  <1>5. CASE Admit(r)
    <2>1. granted[r] /\ AuditAdmission(r, "connected")
      BY <1>5 DEF Admit
    <2>2. AuditPinsRecord'
      <3>1. "connected" = "denied" <=> ~granted[r]
        BY <2>1
      <3>2. QED
        BY <1>2, <2>1, <3>1, AuditEntryPinned
    <2> DEFINE p == "requirement"
    <2>3. pc' = [pc EXCEPT ![r] = p] /\ (cfg.strict => Len(refs[r]) = due[r])
      BY <1>2, <1>5 DEF Admit, Goto
    <2>4. p \in Stages /\ p \notin Early
      BY DEF Stages, Early
    <2> HIDE DEF p
    <2>5. QED
      <3>1. Quiet(r, p, x)
        BY <1>1, <1>2, <1>3, <2>2, <2>3, <2>4 DEF Quiet
      <3>2. QED
        BY <3>1, QuietStep
  <1>6. QED
    BY <1>4, <1>5

\* The outcome record points at the first record of its own admission.
LEMMA OutcomeStep ==
  ASSUME RInv, NEW r \in Requests, ReportObservedOutcome(r)
  PROVE  RInv'
  <1> DEFINE x == OutcomeRecord(r)
  <1>1. /\ pc[r] = "outcome" /\ pc' = [pc EXCEPT ![r] = "done"]
        /\ sink' = sink \/ sink' = sink \cup {x}
        /\ UNCHANGED <<cfg, granted, due, nonce, minted, refs, evErr, served, auditLog>>
    BY DEF ReportObservedOutcome, Goto
  <1>2. /\ x.req = r /\ x.kind = "outcome"
        /\ x.points = IF refs[r] = <<>> THEN NoDigest ELSE refs[r][1]
    BY DEF OutcomeRecord
  <1>3. \A s \in Requests : \A k : DecisionRecord(s, k)' = DecisionRecord(s, k)
    BY <1>1 DEF DecisionRecord
  <1> HIDE DEF x
  <1>4. RControl'
    BY <1>1 DEF RInv, RControl, Stages
  <1>5. LoopStart' /\ NoncesFresh'
    BY <1>1 DEF RInv, RControl, LoopStart, NoncesFresh, Early
  <1>6. RefsRecorded'
    BY <1>1, <1>3 DEF RInv, RefsRecorded
  <1>7. StrictComplete'
    BY <1>1 DEF RInv, RControl, StrictComplete, PastPipeline
  <1>8. SinkBearsNonce'
    <2> SUFFICES ASSUME NEW d \in sink', d.kind = "decision"
                 PROVE  /\ d.req \in Requests
                        /\ pc'[d.req] \notin Early
                        /\ nonce[d.req] > 0
                        /\ \E k \in Nat : d.digest = <<nonce[d.req], k>>
      BY <1>1 DEF SinkBearsNonce
    <2>1. d \in sink
      BY <1>1, <1>2
    <2>2. QED
      BY <1>1, <2>1 DEF RInv, RControl, SinkBearsNonce, Early
  <1>9. OutcomePoints'
    <2> SUFFICES ASSUME NEW o \in sink', o.kind = "outcome", o.points # NoDigest
                 PROVE  /\ o.req \in Requests
                        /\ o.points = <<nonce[o.req], 1>>
                        /\ DecisionRecord(o.req, 1) \in sink
      BY <1>1, <1>3 DEF OutcomePoints
    <2>1. CASE o \in sink
      BY <2>1 DEF RInv, OutcomePoints
    <2>2. CASE o = x
      <3>1. 1 \in 1 .. Len(refs[r])
        BY <1>2, <2>2 DEF RInv, RControl
      <3>2. QED
        BY <1>2, <2>2, <3>1 DEF RInv, RefsRecorded
    <2>3. QED
      BY <1>1, <2>1, <2>2
  <1>10. AuditPinsRecord'
    BY <1>1 DEF RInv, AuditPinsRecord
  <1>11. QED
    BY <1>4, <1>5, <1>6, <1>7, <1>8, <1>9, <1>10 DEF RInv

\* The rest of decide, the middleware and the proxy.
LEMMA OtherSteps ==
  ASSUME RInv, NEW r \in Requests,
         \/ Resolve(r) \/ EmitFail(r) \/ CheckEvidenceRequirement(r)
         \/ Unsupervised(r) \/ Approved(r) \/ NotApproved(r)
         \/ RefusalEvidence(r) \/ HookPass(r) \/ HookVeto(r)
         \/ ProxyDeny(r) \/ Serve(r) \/ ServeAbort(r)
  PROVE  RInv'
  <1> DEFINE x == [req |-> r, kind |-> "admission", says |-> "refused",
                   digest |-> NoDigest, points |-> NoDigest]
  <1>1. x.kind = "admission"
    OBVIOUS
  <1> HIDE DEF x
  <1>2. /\ UNCHANGED <<cfg, granted, due, nonce, minted, refs, auditLog>>
        /\ sink' = sink \/ sink' = sink \cup {x}
    BY DEF Resolve, EmitFail, CheckEvidenceRequirement, Unsupervised, Approved, NotApproved,
           RefusalEvidence, HookPass, HookVeto, ProxyDeny, Serve, ServeAbort, RecordRefusal, x
  <1>3. evErr' \in [Requests -> BOOLEAN]
    BY DEF RInv, RControl, Resolve, EmitFail, CheckEvidenceRequirement, Unsupervised,
           Approved, NotApproved, RefusalEvidence, HookPass, HookVeto, ProxyDeny, Serve,
           ServeAbort
  <1>4. \/ served' = served
        \/ served' = [served EXCEPT ![r] = TRUE] /\ pc[r] = "serve"
    BY DEF Resolve, EmitFail, CheckEvidenceRequirement, Unsupervised, Approved, NotApproved,
           RefusalEvidence, HookPass, HookVeto, ProxyDeny, Serve, ServeAbort
  <1>5. PICK p \in Stages : /\ pc' = [pc EXCEPT ![r] = p]
                            /\ p \in PastPipeline => pc[r] \in PastPipeline
                            /\ p \in Early => pc[r] \in Early
    <2> USE DEF Stages, PastPipeline, Early, Goto
    <2>1. CASE Resolve(r)
      BY <2>1 DEF Resolve, Refuse
    <2>2. CASE EmitFail(r)
      <3>1. pc[r] \in Stages /\ pc' = [pc EXCEPT ![r] = pc[r]]
        BY <2>2 DEF EmitFail, RInv, RControl
      <3>2. QED
        BY <3>1
    <2>3. CASE CheckEvidenceRequirement(r)
      BY <2>3 DEF CheckEvidenceRequirement, Refuse
    <2>4. CASE Unsupervised(r) \/ Approved(r) \/ NotApproved(r)
      BY <2>4 DEF Unsupervised, Approved, NotApproved, Refuse, Return
    <2>5. CASE RefusalEvidence(r) \/ HookPass(r) \/ HookVeto(r)
      BY <2>5 DEF RefusalEvidence, HookPass, HookVeto
    <2>6. CASE ProxyDeny(r) \/ Serve(r) \/ ServeAbort(r)
      BY <2>6 DEF ProxyDeny, Serve, ServeAbort
    <2>7. QED
      BY <2>1, <2>2, <2>3, <2>4, <2>5, <2>6
  <1>6. Quiet(r, p, x)
    BY <1>1, <1>2, <1>3, <1>4, <1>5 DEF Quiet
  <1>7. QED
    BY <1>6, QuietStep

\* The record invariant is inductive beside the gate invariant.
THEOREM RecordsInductive == Spec => []RInv
  <1>1. Init => RInv
    BY DEF Init, RInv, RControl, LoopStart, NoncesFresh, RefsRecorded, StrictComplete,
           SinkBearsNonce, OutcomePoints, AuditPinsRecord, Stages, PastPipeline
  <1>2. RInv /\ GIInv /\ [Next]_vars => RInv'
    <2> SUFFICES ASSUME RInv, GIInv, [Next]_vars PROVE RInv'
      OBVIOUS
    <2>1. CASE UNCHANGED vars
      BY <2>1 DEF vars, RInv, RControl, LoopStart, NoncesFresh, RefsRecorded, StrictComplete,
                  SinkBearsNonce, OutcomePoints, AuditPinsRecord, DecisionRecord
    <2>2. ASSUME NEW r \in Requests, Step(r) PROVE RInv'
      BY <2>2, PipelineStep, EmitStep, AfterEmission, OutcomeStep, OtherSteps DEF Step
    <2>3. QED
      BY <2>1, <2>2 DEF Next, Finished
  <1>3. QED
    BY <1>1, <1>2, GatesInductive, PTL DEF Spec

\* Under Strict a served request has every record of its decisions in the sink.
THEOREM StrictServedIsRecordedHolds == Spec => []StrictServedIsRecorded
  <1>1. RInv => StrictServedIsRecorded
    <2> SUFFICES ASSUME RInv, NEW r \in Requests, served[r], cfg.strict,
                        NEW k \in 1 .. due[r]
                 PROVE  \E rec \in sink : /\ rec.req = r /\ rec.kind = "decision"
                                          /\ rec.digest = <<nonce[r], k>>
      BY DEF StrictServedIsRecorded
    <2>1. DecisionRecord(r, k) \in sink
      BY DEF RInv, StrictComplete, RefsRecorded
    <2>2. QED
      BY <2>1 DEF DecisionRecord
  <1>2. QED
    BY <1>1, RecordsInductive, PTL

\* The audit log and the record chain cross-reference.
THEOREM AuditPinsRecordHolds == Spec => []AuditPinsRecord
  <1>1. RInv => AuditPinsRecord
    BY DEF RInv
  <1>2. QED
    BY <1>1, RecordsInductive, PTL

\* An outcome record points at its own admission and at no other.
THEOREM OutcomeBindingHolds == Spec => []OutcomeBinding
  <1>1. RInv => OutcomeBinding
    <2> SUFFICES ASSUME RInv, NEW o \in sink, o.kind = "outcome", o.points # NoDigest
                 PROVE  {d.req : d \in {e \in sink : e.kind = "decision" /\ e.digest = o.points}}
                          = {o.req}
      BY DEF OutcomeBinding
    <2>1. /\ o.req \in Requests
          /\ o.points = <<nonce[o.req], 1>>
          /\ DecisionRecord(o.req, 1) \in sink
      BY DEF RInv, OutcomePoints
    <2>2. \E d \in sink : d.req = o.req /\ d.kind = "decision" /\ d.digest = o.points
      BY <2>1 DEF DecisionRecord
    <2>3. ASSUME NEW d \in sink, d.kind = "decision", d.digest = o.points
          PROVE  d.req = o.req
      <3>1. d.req \in Requests /\ nonce[d.req] > 0
        BY <2>3 DEF RInv, SinkBearsNonce
      <3>2. PICK k \in Nat : d.digest = <<nonce[d.req], k>>
        BY <2>3 DEF RInv, SinkBearsNonce
      <3>3. nonce[d.req] = nonce[o.req]
        BY <2>1, <2>3, <3>2
      <3>4. QED
        BY <2>1, <3>1, <3>3 DEF RInv, NoncesFresh
    <2>4. QED
      BY <2>2, <2>3
  <1>2. QED
    BY <1>1, RecordsInductive, PTL

(***************************************************************************)
(* The trace of a refusal.  An error that carries references stands on a   *)
(* record already in the sink; one that carries none gets an admission     *)
(* record or a counted gap before the middleware answers.                  *)
(***************************************************************************)
Traced(r) == Recorded(r) \/ gaps[r] > 0

TraceInv(r) ==
  /\ pc[r] = "refuse" /\ errRefs[r] # <<>> => Recorded(r)
  /\ pc[r] = "outcome" => reply[r] = "admitted"
  /\ pc[r] = "done" /\ reply[r] = "refused" /\ view[r].carrier = "http"
       /\ cfg.evidence /\ ~vetoed[r] => Traced(r)

TInv ==
  /\ errRefs \in [Requests -> Seq(Nat \X Nat)]
  /\ gaps \in [Requests -> Nat]
  /\ \A r \in Requests : TraceInv(r)

\* The sink and the gap counters only grow, and recordRefusal leaves a trace.
LEMMA TraceGrows ==
  ASSUME TInv, NEW r \in Requests, Step(r)
  PROVE  /\ sink \subseteq sink'
         /\ gaps' \in [Requests -> Nat] /\ \A s \in Requests : gaps[s] <= gaps'[s]
  <1>1. sink \subseteq sink'
    BY DEF Step, Resolve, Pipeline, EmitRecord, EmitFail, Deny, StrictRefuse,
           Admit, CheckEvidenceRequirement, Unsupervised, Approved, NotApproved,
           RefusalEvidence, HookPass, HookVeto, ProxyDeny, Serve, ServeAbort,
           ReportObservedOutcome, RecordRefusal
  <1>2. gaps' = gaps \/ gaps' = [gaps EXCEPT ![r] = gaps[r] + 1]
    BY DEF Step, Resolve, Pipeline, EmitRecord, EmitFail, Deny, StrictRefuse,
           Admit, CheckEvidenceRequirement, Unsupervised, Approved, NotApproved,
           RefusalEvidence, HookPass, HookVeto, ProxyDeny, Serve, ServeAbort,
           ReportObservedOutcome, RecordRefusal
  <1>3. gaps \in [Requests -> Nat]
    BY DEF TInv
  <1>4. CASE gaps' = gaps
    BY <1>1, <1>3, <1>4
  <1>5. CASE gaps' = [gaps EXCEPT ![r] = gaps[r] + 1]
    <2>1. \A s \in Requests : gaps'[s] = IF s = r THEN gaps[s] + 1 ELSE gaps[s]
      BY <1>3, <1>5
    <2>2. gaps' \in [Requests -> Nat]
      BY <1>3, <1>5
    <2>3. QED
      BY <1>1, <1>3, <2>1, <2>2
  <1>6. QED
    BY <1>2, <1>4, <1>5

\* recordRefusal leaves a record of the request or counts the gap.
LEMMA RefusalTraced ==
  ASSUME TInv, NEW r \in Requests, RecordRefusal(r)
  PROVE  /\ Recorded(r)' \/ gaps'[r] > 0
         /\ errRefs' \in [Requests -> Seq(Nat \X Nat)]
  <1> DEFINE x == [req |-> r, kind |-> "admission", says |-> "refused",
                   digest |-> NoDigest, points |-> NoDigest]
  <1>1. x.req = r /\ NoDigest \in Nat \X Nat
    BY DEF NoDigest
  <1>2. CASE sink' = sink \cup {x} /\ errRefs' = [errRefs EXCEPT ![r] = Append(@, NoDigest)]
    <2>1. Append(errRefs[r], NoDigest) \in Seq(Nat \X Nat)
      BY <1>1 DEF TInv
    <2> HIDE DEF x
    <2>2. QED
      BY <1>1, <1>2, <2>1 DEF Recorded, TInv
  <1>3. CASE gaps' = [gaps EXCEPT ![r] = @ + 1] /\ UNCHANGED errRefs
    BY <1>3 DEF TInv
  <1>4. QED
    BY <1>2, <1>3 DEF RecordRefusal

\* References stand on a record: the first one's is in the sink.
LEMMA ReferencedIsRecorded ==
  ASSUME RInv, NEW r \in Requests, refs[r] # <<>>
  PROVE  Recorded(r)
  <1>1. 1 \in 1 .. Len(refs[r])
    BY DEF RInv, RControl
  <1>2. DecisionRecord(r, 1) \in sink
    BY <1>1 DEF RInv, RefsRecorded
  <1>3. DecisionRecord(r, 1).req = r
    BY DEF DecisionRecord
  <1>4. QED
    BY <1>2, <1>3 DEF Recorded

\* A step of one request leaves the others' trace.
LEMMA OthersTraced ==
  ASSUME TInv, GIInv, NEW r \in Requests, Step(r), NEW s \in Requests, s # r,
         errRefs' \in [Requests -> Seq(Nat \X Nat)]
  PROVE  TraceInv(s)'
  <1>1. /\ UNCHANGED <<cfg, view>>
        /\ pc'[s] = pc[s] /\ reply'[s] = reply[s] /\ vetoed'[s] = vetoed[s]
    BY DEF GIInv, Control, Step, Resolve, Pipeline, EmitRecord, EmitFail, Deny, StrictRefuse,
           Admit, CheckEvidenceRequirement, Unsupervised, Approved, NotApproved,
           RefusalEvidence, HookPass, HookVeto, ProxyDeny, Serve, ServeAbort,
           ReportObservedOutcome, Goto, Refuse, Return
  <1>2. errRefs'[s] = errRefs[s]
    BY DEF TInv, Step, Resolve, Pipeline, EmitRecord, EmitFail, Deny, StrictRefuse,
           Admit, CheckEvidenceRequirement, Unsupervised, Approved, NotApproved,
           RefusalEvidence, HookPass, HookVeto, ProxyDeny, Serve, ServeAbort,
           ReportObservedOutcome, Refuse, RecordRefusal
  <1>3. sink \subseteq sink' /\ gaps[s] \in Nat /\ gaps'[s] \in Nat /\ gaps[s] <= gaps'[s]
    BY TraceGrows DEF TInv
  <1>4. Recorded(s) => Recorded(s)'
    BY <1>3 DEF Recorded
  <1>5. Traced(s) => Traced(s)'
    BY <1>3, <1>4 DEF Traced
  <1>6. QED
    BY <1>1, <1>2, <1>4, <1>5 DEF TInv, TraceInv

\* A refusal by decide carries references only if they stand on a record.
LEMMA RefuseTraced ==
  ASSUME TInv, GIInv, NEW r \in Requests, NEW e \in Seq(Nat \X Nat), Refuse(r, e), UNCHANGED view,
         e # <<>> => Recorded(r)'
  PROVE  errRefs' \in [Requests -> Seq(Nat \X Nat)] /\ TraceInv(r)'
  <1>1. errRefs' \in [Requests -> Seq(Nat \X Nat)] /\ errRefs'[r] = e
    BY DEF TInv, Refuse
  <1>2. pc'[r] = IF view[r].carrier = "http" THEN "refuse" ELSE "done"
    BY DEF GIInv, Control, Refuse, Goto
  <1>3. QED
    BY <1>1, <1>2 DEF TraceInv

\* Every stage keeps its own request's trace.
LEMMA OwnTrace ==
  ASSUME TInv, RInv, GIInv, NEW r \in Requests, Step(r)
  PROVE  errRefs' \in [Requests -> Seq(Nat \X Nat)] /\ TraceInv(r)'
  <1> USE DEF Goto
  <1>1. sink \subseteq sink' /\ gaps[r] \in Nat /\ gaps'[r] \in Nat /\ gaps[r] <= gaps'[r]
    BY TraceGrows DEF TInv
  <1>2. Recorded(r) => Recorded(r)'
    BY <1>1 DEF Recorded
  <1>3. pc \in [Requests -> Stages] /\ errRefs \in [Requests -> Seq(Nat \X Nat)]
    BY DEF TInv, GIInv, Control
  <1>4. /\ refs \in [Requests -> Seq(Nat \X Nat)]
        /\ <<>> \in Seq(Nat \X Nat)
        /\ refs[r] # <<>> => Recorded(r)
    BY ReferencedIsRecorded DEF RInv, RControl
  <1>5. CASE Resolve(r)
    <2>1. CASE Refuse(r, <<>>)
      BY <1>4, <1>5, <2>1, RefuseTraced DEF Resolve
    <2>2. CASE pc' = [pc EXCEPT ![r] = "pipeline"] /\ UNCHANGED errRefs
      BY <1>3, <2>2 DEF TraceInv
    <2>3. QED
      BY <1>5, <2>1, <2>2 DEF Resolve
  <1>6. CASE Pipeline(r) \/ EmitRecord(r) \/ EmitFail(r)
    <2>1. pc'[r] = "emit" /\ errRefs' = errRefs
      BY <1>3, <1>6 DEF Pipeline, EmitRecord, EmitFail
    <2>2. QED
      BY <1>3, <2>1 DEF TraceInv
  <1>7. CASE Deny(r) \/ StrictRefuse(r)
    <2>1. Refuse(r, refs[r]) /\ UNCHANGED view
      BY <1>7 DEF Deny, StrictRefuse
    <2>2. QED
      BY <1>2, <1>4, <2>1, RefuseTraced
  <1>8. CASE Admit(r)
    BY <1>3, <1>8 DEF Admit, TraceInv
  <1>9. CASE CheckEvidenceRequirement(r)
    <2>1. CASE Refuse(r, <<>>)
      BY <1>4, <1>9, <2>1, RefuseTraced DEF CheckEvidenceRequirement
    <2>2. CASE pc' = [pc EXCEPT ![r] = "supervise"] /\ UNCHANGED errRefs
      BY <1>3, <2>2 DEF TraceInv
    <2>3. QED
      BY <1>9, <2>1, <2>2 DEF CheckEvidenceRequirement
  <1>10. CASE Unsupervised(r) \/ Approved(r)
    <2>1. Return(r) /\ UNCHANGED <<errRefs, view>>
      BY <1>10 DEF Unsupervised, Approved
    <2>2. /\ pc'[r] = IF view[r].carrier = "http" THEN "hook" ELSE "done"
      BY <1>3, <2>1 DEF Return
    <2>3. QED
      BY <1>3, <2>1, <2>2 DEF TraceInv
  <1>11. CASE NotApproved(r)
    BY <1>4, <1>11, RefuseTraced DEF NotApproved
  <1>12. CASE RefusalEvidence(r)
    <2>1. pc[r] = "refuse" /\ pc'[r] = "done" /\ UNCHANGED <<cfg, reply>>
      BY <1>3, <1>12 DEF RefusalEvidence
    <2>2. CASE cfg.evidence /\ errRefs[r] = <<>>
      <3>1. RecordRefusal(r)
        BY <1>12, <2>2 DEF RefusalEvidence
      <3>2. QED
        BY <2>1, <3>1, RefusalTraced DEF TraceInv, Traced
    <2>3. CASE ~(cfg.evidence /\ errRefs[r] = <<>>)
      <3>1. UNCHANGED errRefs
        BY <1>12, <2>3 DEF RefusalEvidence
      <3>2. cfg.evidence => Recorded(r)
        BY <2>1, <2>3 DEF TInv, TraceInv
      <3>3. QED
        BY <1>2, <1>3, <2>1, <3>1, <3>2 DEF TraceInv, Traced
    <2>4. QED
      BY <2>2, <2>3
  <1>13. CASE HookPass(r)
    BY <1>3, <1>13 DEF HookPass, TraceInv
  <1>14. CASE HookVeto(r)
    <2>1. pc'[r] = "done" /\ vetoed'[r] /\ UNCHANGED errRefs
      BY <1>3, <1>14 DEF HookVeto, GIInv, Control
    <2>2. QED
      BY <1>3, <2>1 DEF TraceInv
  <1>15. CASE ProxyDeny(r)
    <2>1. pc'[r] = "done" /\ UNCHANGED cfg
      BY <1>3, <1>15 DEF ProxyDeny
    <2>2. CASE cfg.evidence /\ refs[r] = <<>>
      <3>1. RecordRefusal(r)
        BY <1>15, <2>2 DEF ProxyDeny
      <3>2. QED
        BY <2>1, <3>1, RefusalTraced DEF TraceInv, Traced
    <2>3. CASE ~(cfg.evidence /\ refs[r] = <<>>)
      <3>1. UNCHANGED errRefs
        BY <1>15, <2>3 DEF ProxyDeny
      <3>2. QED
        BY <1>2, <1>3, <1>4, <2>1, <2>3, <3>1 DEF TraceInv, Traced
    <2>4. QED
      BY <2>2, <2>3
  <1>16. CASE Serve(r) \/ ServeAbort(r)
    <2>1. pc'[r] \in {"outcome", "done"} /\ reply'[r] = "admitted" /\ UNCHANGED errRefs
      BY <1>3, <1>16 DEF Serve, ServeAbort, GIInv, Control
    <2>2. QED
      BY <1>3, <2>1 DEF TraceInv
  <1>17. CASE ReportObservedOutcome(r)
    <2>1. pc[r] = "outcome" /\ pc'[r] = "done" /\ UNCHANGED <<errRefs, reply>>
      BY <1>3, <1>17 DEF ReportObservedOutcome
    <2>2. QED
      BY <1>3, <2>1 DEF TInv, TraceInv
  <1>18. QED
    BY <1>5, <1>6, <1>7, <1>8, <1>9, <1>10, <1>11, <1>12, <1>13, <1>14, <1>15, <1>16, <1>17
       DEF Step

\* Every refusal the middleware or the proxy decides leaves a record of that
\* request in the sink or is counted as a gap, for any number of requests.
THEOREM RefusalLeavesTraceHolds == Spec => []RefusalLeavesTrace
  <1>1. Init => TInv
    BY DEF Init, TInv, TraceInv
  <1>2. TInv /\ RInv /\ GIInv /\ [Next]_vars => TInv'
    <2> SUFFICES ASSUME TInv, RInv, GIInv, [Next]_vars PROVE TInv'
      OBVIOUS
    <2>1. CASE UNCHANGED vars
      BY <2>1 DEF vars, TInv, TraceInv, Traced, Recorded
    <2>2. ASSUME NEW r \in Requests, Step(r) PROVE TInv'
      <3>1. errRefs' \in [Requests -> Seq(Nat \X Nat)] /\ TraceInv(r)'
        BY <2>2, OwnTrace
      <3>2. gaps' \in [Requests -> Nat]
        BY <2>2, TraceGrows
      <3>3. \A s \in Requests : s # r => TraceInv(s)'
        BY <2>2, <3>1, OthersTraced
      <3>4. QED
        BY <3>1, <3>2, <3>3 DEF TInv
    <2>3. QED
      BY <2>1, <2>2 DEF Next, Finished
  <1>3. TInv => RefusalLeavesTrace
    BY DEF TInv, TraceInv, Traced, RefusalLeavesTrace
  <1>4. QED
    BY <1>1, <1>2, <1>3, GatesInductive, RecordsInductive, PTL DEF Spec
===============================================================================

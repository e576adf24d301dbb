# A verification of aic-verifier in TLA+

aic-verifier admits or refuses requests on behalf of a service: it authenticates
a client certificate or a bearer token, runs an access pipeline over it, records
evidence of what it decided, and proxies what it admitted. This directory holds
TLA+ models of its stateful and concurrent parts, TLC configurations that check
them on small instances, and TLAPS proofs that hold for all instances.
`PROJECT.json` maps every definition to the lines it models and lists the runs,
mutants, findings, hazards and theorems. Paths below are relative to `src/`.

## The system

| Part | Source | State | Operations |
|---|---|---|---|
| Decision core | `decide.go`, `aicverifier.go` | `authenticator`: config, policy pointer, logger | `Decide`, `Authenticate`, `emitEvidence`, `auditAdmission`, `checkEvidenceRequirement`, `supervise` |
| Middleware, reverse proxy | `aicverifier.go`, `server.go`, `hooks.go` | routes, listeners | `Handler`, `proxy`, `deny`, `reportObservedOutcome`, hooks |
| Access pipeline | `pipeline.go`, `decision.go`, `clc.go`, `policy.go` | none of its own; reads the caches below | `RunAccessPipeline`, `CheckAdmission`, `evaluateCLCOperations` |
| DA nonce cache | `nonce_cache.go` | `sync.Map` nonce → scope and time, sweeper goroutine | `CheckAndAdd`, sweep, `Stop` |
| Bearer replay protection | `jwt.go` | `memReplayStore`: jti → time, bounded | `VerifyBearer`, `CheckAndAdd` |
| Audit logger | `audit.go` | channel, drop counter, flags, rotating file | `Log`, consumer `loop`/`logSync`, `Close`, `Dropped` |
| Administration face | `admin.go` | atomic counters, last result times, policy bundle | `noteResult`, `Snapshot`, `Healthy`, `reload` |
| Evidence sink | `evidence_sink.go`, `admission_record.go`, `outcome_record.go` | records, gap counter | `EmitDecisionRecords`, `recordRefusal`, `ReportOutcome` |
| CRL cache, OCSP cache | `crl.go`, `ocsp.go`, `trust_model.go` | list and its times; responses, in-flight calls | `Refresh`, `IsRevokedCert`; `Check`, `Flush`; `checkRevocation` |
| Rotating file, audit reader | `audit.go` | open file, its size, numbered backups | `Write`, `rotate`, `Close`, `ReadAuditEntries`, `ArchiveAuditFile` |
| Supervision store | `supervision_store.go` | rotating file, closed flag | `Record`, `Query`, `Close` |
| Audit chain | `merkle.go` | sealed trees | `SealChecked`, `LatestRoot`, `Verify`, `VerifyContinuity` |
| Evidence directory, verifier, exporter | `evidence_sink.go`, `evidence_verify.go`, `evidence.go`, `evidence_profile.go`, `evidence_signing.go`, `evidence_key.go` | one file per record; the bundle being built | `FileSink`, `VerifyEvidenceDir`, `Export`, `Sign`, `VerifySignature` |
| Delegation chain | `delegation_chain.go`, `decision.go` | none | `DelegationChainVerifier`, `EffectiveDelegationCapabilities` |
| Constraints | `constraints.go`, `decision.go` | global and per-deployment registry, geo resolvers | `Register`, `Replace`, `Remove`, `Reset`, `checkConstraintsReg`, `ConstraintRecheckLoop` |
| Risk monitor | `riskmonitor.go` | a list of violations per agent, rules | `RecordViolation`, `SetRules` |
| Others | `config.go`, `tls.go`, `evidence*.go`, `mcp/`, `grpc/`, ... | start-up and conversions | see PROJECT.json |

How they interact. A carrier (HTTP middleware, gRPC, `DecisionServer`) calls
`decide`. That resolves a credential (for a token through the replay store), runs
the pipeline (which consults CRL, OCSP and nonce caches and the risk monitor),
freezes decision records into the sink, hands an entry to the audit logger's
channel, evaluates the evidence requirement and asks the human approver. The
middleware then runs the hook and the downstream handler and reports the outcome
to the sink. Requests run concurrently, one goroutine each; they share the caches,
the sink, the audit channel and the counters. Reloads and health probes run beside
them. The logger's consumer, the nonce sweeper and the TSA call are goroutines of
their own.

What is hard to test here: entries blocked in a channel send while another
goroutine closes it; a TSA answer that arrives after its timeout; two requests
that validate the same token before either records it; a marker purged while its
token lives; counters read one atomic at a time; evidence written before the last
gate has spoken; emission failing half-way through; a crash between the renames of
a rotation or inside a record file; a directory read while it is written; a waiter
on a coalesced OCSP request whose fetcher failed; a CRL refreshed with an older
list; a time window that closes while a session is open; nonces claimed in the
wrong order. `PROJECT.json` lists each under `hazards` with the property that
covers it, or why none does.

## The modules

| Module | Models | Run |
|---|---|---|
| `AuditTrail` | what the audit log promises: entries accepted in an order, settled in that order, a file that closes only when all are settled | (abstract) |
| `AuditLogger`, `MCAuditLogger`, `AuditLoggerProofs` | `audit.go` writer side; implements `AuditTrail` | `audit_safety`, `audit_live` |
| `ReplayStore`, `MCReplayStore`, `ReplayStoreProofs` | `jwt.go` `VerifyBearer` on `memReplayStore` | `replay` |
| `NonceCache` | `nonce_cache.go`; proofs in `AdmissionProofs` | `shared` |
| `Admin`, `MCShared` | `admin.go` and `Decide`'s instrumentation; proofs in `GovernanceProofs` | `shared` |
| `Capabilities` | capability matching, globs included, and intersection operators | (used by `Admission`, `DelegationChain`) |
| `Admission`, `MCAdmission`, `AdmissionProofs` | `RunAccessPipeline`, `CheckAdmission`, `evaluateCLCOperations` | `admission` |
| `Decide`, `MCDecide`, `DecideProofs` | a request from credential to outcome record | `decide` |
| `Authority` | clock and certification authority (environment) | (used below) |
| `CRLCache`, `OCSPCache` | `crl.go`, `ocsp.go` | (composed) |
| `Revocation`, `MCRevocation`, `RevocationProofs` | `checkRevocation` over both caches | `revocation` |
| `EvidenceRecords` | records, profiles, tags, signatures, envelope checks | (used below) |
| `EvidenceStore` | requests writing the directory and the audit file, `VerifyEvidenceDir` | (composed) |
| `Merkle` | the tree, its proofs and their verification | (used below) |
| `EvidenceExport`, `MCEvidence`, `EvidenceProofs` | the exporter over both files; the signed bundle | `evidence`, `evidence_pin` |
| `RotatingFile` | `RotatingFile`, one system call per step | (composed) |
| `AuditReader` | reading a log forwards from a time, and backwards | (used below) |
| `AuditChain` | sealed batches and their verification | (composed) |
| `SupervisionStore`, `MCSupervisionStore`, `SupervisionProofs` | the store over its rotating file, with reader, archive and chain | `supervision` |
| `DelegationChain` | chains of delegations | `delegation`, `delegation_glob` |
| `Constraints` | registries, evaluators, admission checks, recheck loop | `delegation` |
| `RiskMonitor`, `MCDelegation` | rules over violations | `delegation` |
| `GovernanceProofs` | theorems about `Admin`, `DelegationChain`, `Constraints` and `RiskMonitor` | |

Correspondence of state and actions:

* **AuditLogger.** `ch` and `sendq` are the channel's buffer and its blocked
  senders; a receive hands over the first blocked sender, a close makes the
  blocked senders panic (they recover inside `Log`). `consumer`, `cur`, `tst`,
  `tsa` are `logSync`'s control state and the per-entry TSA goroutine with its
  own result channel. `Close` is four steps: mark, stop, close the channel,
  wait and close the file. A write may fail. `enq` and `stamped` are history.
  One timing assumption is built in: `Log` arms its timer and enters its select at
  once, so the timer cannot win against a send into a buffer that has room.
* **ReplayStore.** `VerifyBearer` is several steps (validate, DA nonce, jti,
  synthesize) between which time passes and other requests run. `seen` maps a
  nonce to the time it was recorded. At capacity lapsed markers are purged, and
  if that does not help the marker just added is taken back and the call refused.
  `MaxDelay` bounds how long one verification takes.
* **NonceCache.** The sweep fixes its deadline and visits keys one at a time while
  `CheckAndAdd` runs. Certificates present their nonce only while valid.
* **Admin.** Every atomic operation of `Decide`, `noteResult`, `reload`, `Healthy`
  and `Snapshot` is a step. `policy` has one entry per authenticator, because
  `Config.Handler` and `NewDecisionServer` each build one.
* **Admission.** `gate[r]` is the next check of request r. A check whose data no
  later check reads answers freely; what the certificate says of mode,
  capabilities, grants, key hash, signer and nonce is data, as is the deployment.
  Plugin and parameter audit entries are left out; risk signals are kept.
* **Decide.** `pc[r]` is the stage of request r. What the pipeline, the sink, the
  evaluator, the approver, the hook and the backend answer is free; `Admission`
  is the detail of the pipeline's answer. Records carry a digest in which the
  admission's nonce takes part. A panic of the handler, or of
  `httputil.ReverseProxy`, is an action, since nothing up to net/http recovers.

* **Revocation.** One certificate, one clock. `CRLCache` splits `refresh` where it
  lets go of the lock (fetch; compare and commit). `OCSPCache.Check` is one step per
  critical section: lookup, joining the in-flight call, fetch, store, fallback,
  release of the waiters. What a responder or a distribution point serves was true
  when it was issued and may be old, or does not come at all.
* **EvidenceStore, EvidenceExport.** `dir` maps a file name to an envelope or to
  `Torn`: `os.WriteFile` creates and then fills, under the sink's mutex, and a
  failure or a crash comes in between. An envelope is its payload, tags and
  signature; digests and signatures are free constructors. Someone outside may
  alter or remove files and has other keys. The exporter reads the audit file in
  one step, the directory in another.
* **RotatingFile, SupervisionStore.** `data` maps inodes to lines and `dir` names to
  inodes, so a reader with an open handle keeps its file through a rename. Every
  system call of a rotation is a step and may fail; a write may be cut short. A
  crash keeps what is on disk.
* **AuditReader.** Lines have lengths and a file is its bytes. Every loop is a function
  of its rounds: the cut into lines (`Pieces`), the scan over them (`Collected`), the
  binary search (`Intervals`) and the backward read in chunks (`Backwards`).
* **AuditChain.** Sealers read the latest root in one step and seal in another.
* **Capabilities.** An id is the sequence of its characters, read as a pattern or as the
  text compared with one. `FilepathMatch` is `filepath.Match` as a function of the
  pattern's characters: which beginnings of the text the first n of them take. `*` and
  `?` do not take a `/`. Character classes and escapes are left out.
* **DelegationChain.** Keys go on signing delegations while a chain is verified level by level.
* **Constraints.** Evaluators are looked up one constraint at a time while an
  application changes the registries; `due` is the ticker, `over` for how long a
  constraint has been broken with the session open.
* **RiskMonitor.** Each call holds the mutex throughout and is one action; `since` and
  `last` are history.

## What the runs check

`audit_safety` (3 Log calls, 2 of them critical, buffer of 2, 2 Close calls):
`WriteOrder`, `DrainedWhenClosed`, `TokenMatchesEntry`, `LossAccounting`,
`CriticalDropOnlyWhenFull`, and the refinement `TrailSpec`. Three entries are the
least that fill the buffer and block one sender; two closers race each other.
`audit_live` (2 Log calls, buffer of 1): `CloseReturns`, `AcceptedIsSettled`.

`replay` (4 requests, 4 tokens, 2 slots, times 0 to 6): `SingleUse`,
`CapacityBound`, `LiveMarkersKept`. The tokens make the store fill, purge and
refuse; one is issued after the first markers lapse. Lifetimes are within the
store's TTL, as for the issuers the README of the repository describes.

`shared` (4 certificates, 2 nonces, retention 2, times 0 to 6; an admission per carrier,
3 reloads, one probe): `OneLiveScopePerNonce`, `OwnerNeverRefused`, with a certificate
issued after the first entry may have been swept; `BacklogNotOverstated`,
`ReloadReachesServer`. The cache and the administration face share no state: a behaviour
is one of either.

`admission` (2 requests, 7 certificates, 54 deployments): `DowngradeTakesEffect`,
`DelegationGenuine`, `ReplayHasCulprit`, `OperationsSound`. The certificates
include one with a copied, unsigned delegation, one without a key hash, one that
is its own principal, wildcard declarations and certificates without an AIC; the
deployments vary where the principal's certificate comes from, what it grants
now, required capabilities and plugins, and the operation layer.

`decide` (2 requests; every view under every deployment considered, and two
identical requests at once; up to 2 records each): `NoBypass`,
`StrictServedIsRecorded`, `RefusalLeavesTrace`, `OutcomeBinding`,
`AuditPinsRecord`. Two records let an emission fail half-way.

`revocation` (2 callers that check again and again, 4 instants, statements valid for 2,
seven deployments): `RevocationTakesEffect`, `NeverUnrevoked`, `SingleFlight`,
`EveryCheckReturns`. Four instants let a statement issued before the revocation be
fetched after it, age and be replaced. `OldWithoutNext = FALSE` assumes that a
responder does not repeat an old response without nextUpdate; with TRUE, such a
response is believed for a TTL after its arrival.

`evidence` (2 requests, 3 inputs, 2 keys, one change from outside; a directory verifier
or an exporter): `EvidenceGenuine`, `ReportCoversSnapshot`, `PinnedIsOnDisk`,
`AnchorResolved`, `BundleIsSealed`. One deployment asks for signatures without a key,
and is never built; in another the two sources of a request freeze the same input.
One outside change suffices for each kind of tampering. `ReportCoversSnapshot`,
`PinnedIsOnDisk` and a part of `AnchorResolved` speak of deployments in which the
sources differ (`SourcesDiffer`, see the disagreements below).

`supervision` (2 recorders, 3 events, 2 backups, 2 failing calls, 2 starts, a query, an
archive; all logs of up to 4 entries in any order, with or without a fragment; 4 seals
by 2 sealers): `Retention`, `QueryHasNoGaps`, `ReadBack`, `ChainTamperEvident`. The first
files are those of an earlier process, so three events rotate twice. A batch has up to
5 entries, the least with two odd levels.

`delegation` (18 chains of up to 4 certificates and the empty one, 8 delegations, ids of
up to 3 characters; 8 sessions over 11 constraints; 2 agents, 5 rule lists, 4 violations):
`AcceptedIsDelegated`, `OverstayBounded`, `RiskRulesEnforced`. Chains are accepted through
a wildcard of the principal's and of a certificate's, through a strict prefix and through
a glob in the middle. `AcceptedIsDelegated` compares what an accepted chain may do with
each level from which on, the last certificate excepted, all ids have the forms of
`MatchCapability`'s comment (plain, `*`, or ending in `:*`); without that condition it
is `PermissionsOnlyDecrease`, which does not hold (see below). The three parts share no
state: a behaviour is one of the verifier, of a session or of the monitor.

Each property has a mutant in `PROJECT.json`: a plausible bug in one definition
that makes TLC find the property violated.

### Disagreements between the code and what it says of itself

Checked by a run that TLC finds violated:

* `evidence_pin`: the exporter takes the record's digest from the first matching audit
  line. A line that a plugin wrote comes first and has none, so an export by agent
  returns a bundle without the record a later line pins, against `evidence.go:223-225`.
* `delegation_glob`: `capabilityCovered` compares ids with `MatchCapability`, whose
  `filepath.Match` (`policy.go:297`) takes the wildcards of the lower id for ordinary
  characters. A certificate that holds `a:?` delegates `a:*`, the chain is accepted, and
  what it may do its delegator may not. Likewise `db:r*` covers `db:read:*`, which grants
  `db:read:/x` although `*` of a glob stops at `/`. `delegation_chain.go:8` says
  "permissions only decrease" and `delegation_chain.go:35` names glob semantics. The run
  checks `PermissionsOnlyDecrease` on the chains of `delegation`.

Seen in the models, without a run of their own. Admission and decision:

* a token that outlives the store's TTL can be used again after its marker is
  purged (`jwt.go:404`); `aicverifier.go:87` calls every jti single-use. `replay`
  and the theorem assume lifetimes within the TTL;
* a reload reaches the `DecisionServer` only; `Config.Handler` keeps its own policy,
  against `admin.go:6`;
* records and the audit entry say admitted although the requirement, the approver,
  the hook or a strict emission failure then refuses (`evidence_sink.go:48`);
* a handler that panics leaves neither an outcome record nor a gap
  (`evidence_sink.go:155`);
* required capabilities are tested against the AIC's declarations before the
  intersection with the principal's grants, so a representative passes with a
  capability its principal does not grant (`decision.go:726`);
* a refusal by the requirement or the approver carries no references, so an
  admission record is added on top of the decision records
  (`aicverifier.go:971` "one refusal, one record");
* refusals after the operation loop, and operations that cannot be decided, drop
  the decisions already made (`clc.go:485` says they are carried);
* a hook's veto leaves no record of the refusal (`docs/evidence.md:49`), nor does
  a refusal to a direct caller of `Decide` leave an admission record;
* a sink without outcome records, with `OnError` nil, drops outcomes silently
  (`server.go:431`);
* `Snapshot` is not consistent across counters, and `Healthy` compares the
  timestamps stored last, which after two overlapping decisions need not be the
  most recent decision's (`admin.go:54`, `admin.go:83`);
* the nonce cache retains entries for 24 hours whatever the certificate's own
  validity (`nonce_cache.go:86`); `shared` assumes certificates no longer lived;
* the declaration is the pattern in `effectiveCapabilities`: a declared `db:*`
  hits a grant `db:read` and stays `db:*`, while a declared `db:read` does not hit
  a grant `db:*`.

Revocation:

* the `crl` fallback of the OCSP cache looks the issuer up as a string (`crl.go:123`),
  while the CRL check proper accepts a name with its parts ordered differently
  (`crl.go:134`): a certificate with such an issuer passes the fallback although the list
  has it. `Covered` leaves this deployment out of `RevocationTakesEffect`;
* a response is to have "either a next-update in the future or a this-update that bounds
  the cache window" (`ocsp.go:237-239`), but without nextUpdate the age of thisUpdate is
  not looked at: such a response is kept for a TTL from its arrival, however old it is.
  `OldWithoutNext = FALSE` leaves this out.

Delegation, constraints and risk:

* a maximum depth of 0 or less "means no limit" (`delegation_chain.go:164`), but the
  verifier then refuses every chain (`decision.go:1001`);
* the CIDR check is "skipped when clientIP is empty" (`constraints.go:179`), but the
  code refuses;
* an inline geo table with a CIDR that does not parse is answered by map order
  (`constraints.go:418`);
* `ConstraintRecheckLoop` asks the global registry, whatever registry admitted the
  session; and a type registered between the evaluation and the strict check of an
  admission passes unevaluated until the first recheck. `OverstayBounded` is
  therefore about constraints in force in the global registry;
* rules of the risk monitor prune one list per agent, each with its own window, so
  a rule with a longer window than another never sees violations older than the
  shorter one (`riskmonitor.go:137-147`), although its threshold counts "within the
  window"; and once one violation matches, all in the window count, whatever their
  signals. The callback runs under the monitor's mutex.

Files and evidence:

* after a failed reopen every later `Write` rotates again and deletes a backup; a
  failed rename lets `O_TRUNC` empty the live file; with no backups a rotation
  truncates the file a `Query` is reading; a `Record` in flight during `Close` may
  rotate and open the file again (`audit.go:141-170`);
* a line cut short swallows the next acknowledged event;
* a read from a time may begin after an older or unparsable line and miss what
  stands before it, and the backward reader never sees the first line nor a line
  that straddles a chunk (`audit.go:593-746`);
* `VerifyContinuity` does not cover the two ends of a chain, nor batches of equal
  root; an empty batch has root "", which `SealChecked` cannot extend;
* `EmitDecisionRecords` draws one nonce per admission and hands `RecordWith` the grants,
  the operation and that nonce, not the source's name (`evidence_sink.go:506-531`). When
  the AIC and the PrincipalAuthorization grant the same under the same constraints, both
  records have one input digest and one file. The second write truncates the first
  record; if it fails, the audit line pins a torn file, and a directory scan that
  comes in between reports a failure. Hence `SourcesDiffer`; without it TLC and
  the proof attempt both find `PinnedIsOnDisk` violated;
* `FileSink` does not sync, and `VerifyEvidenceDir` does not compare a file's name
  with the digest inside; `Admission` and `Sources` of a profile are never
  consulted (`evidence_profile.go:68`);
* an export over no audit line says "permit" (`evidence.go:540`), and a record handed
  over by the caller takes the place of the pinned one.

### Fairness

`audit_live` assumes that started goroutines keep running and armed timers fire
(`WF` of the consumer's steps, of each started `Log` call, of each started `Close`),
and nothing of the TSA; nobody has to call `Log` or `Close`. `revocation` assumes `WF`
of the steps of a started `Check`: the goroutine goes on, and the HTTP client's timeout
ends a request that is not answered. Refreshes, flushes and the clock are not
fair. This is what the Go scheduler, runtime timers and the client's `Timeout` provide.
All other runs check safety. Deadlock is checked in `audit_safety`, `audit_live`,
`decide` and `admission`, where `Finished` marks the only states in which nothing is
left to do; the other models stop when their bounded time or calls run out.

### Bounds

`MaxTime` (ReplayStore, NonceCache, Authority), `MaxDelay`, `TTL`, `Max`, `Retention`,
`Validity` (units of time and slots instead of hours and 100 000 entries), `Capacity`
(8192 in the code), `MaxRecords`, `MaxOperations`, `MaxLen`, `MaxFaults`, `MaxSize`,
`MaxBak`, `Chunk` (4 bytes instead of 4096, with lines of 1 to 3), `seals` and the
budgets of a scenario, `MaxDepth`, `MaxChainLength`, `Day`, `MaxChanges`, `MaxUnix`,
`MaxViolations`. Each is a constant; the theorems hold for every value allowed by the
modules' assumptions.

## What is proved

TLAPS checks, for every value of the constants that the modules' assumptions allow:

* **AuditLoggerProofs**: `TypeCorrect`, `WriteOrderHolds`,
  `TokenMatchesEntryHolds`, `DrainedWhenClosedHolds`, `CriticalDropHolds`,
  `LossAccountingHolds`, and `ImplementsTrail` (the logger implements `AuditTrail`). The
  properties say nothing of how file, channel and senders hang together, so none is
  inductive. `IInv` adds: a Log call is queued or waiting exactly when its entry is in
  `enq` or `sendq`, once (`QueueInv`); `enq` is what was taken followed by the buffer,
  and the current entry is the last taken (`OrderInv`); every settled entry is a
  line or a failed write, and lines follow the order of `enq` (`FileInv`). The
  accounting is this partition of the entries, counted, for a finite set of them.
* **ReplayStoreProofs**: `SingleUseHolds`: if every lifetime is covered by the TTL
  (`LifetimeCovered`), `SingleUse` holds for any number of requests and any
  capacity. The invariant: while a token that was accepted, or whose jti was
  recorded by a request still in flight, can be validated again, its marker is in
  the store and will outlive it; and every request in flight started while its
  token was valid and no longer than `MaxDelay` ago. `CapacityBoundHolds` and the
  action property `LiveMarkersKeptHolds` need no such assumption.
* **AdmissionProofs**: `DelegationGenuineHolds` and `ReplayHasCulpritHolds` for
  any certificates, principals, deployments and number of requests. The invariant
  says a request past the signature gate has a genuine delegation unless the
  deployment skips it, and every cache entry names a certificate with that nonce
  whose delegation is genuine: only the order of the gates gives this.
  `OperationsSoundHolds` and `DowngradeTakesEffectHolds` rest on `DInv`, which says of
  each gate what the decisions taken so far, the decisions carried and the effective
  capabilities are; the properties speak of the last gate only.
  For **NonceCache**, if no certificate outlives the retention (`WithinRetention`):
  `OneLiveScopePerNonceHolds` and `OwnerNeverRefusedHolds`. `NonceInv` says that an
  allowed certificate holds its nonce until it expires, that an entry was seen after
  its certificate began to be valid, and that the deadline of the sweep under way,
  however old, lies a retention in the past.
* **DecideProofs**: for any set of deployments and requests and any number of
  decision records, along three invariants. `NoBypassHolds` rests on `GIInv`, which
  attaches to each stage what the gates before it have established and says an
  admitting answer comes last. `StrictServedIsRecordedHolds`, `AuditPinsRecordHolds` and
  `OutcomeBindingHolds` rest on `RInv`, inductive beside `GIInv`: the k-th reference of a request is the digest of a record the sink holds, no
  nonce is minted twice, a decision record bears the nonce of its own admission, and
  under Strict a request past the emission has all its records. Without the freshness of
  nonces the binding of outcomes is not inductive: another admission could later
  emit a record with the same digest. `RefusalLeavesTraceHolds` adds `TInv`: what a
  refusal will find at its end is already there, or still to be written, at each stage.
* **GovernanceProofs**, of `Admin`: `BacklogNotOverstatedHolds` and `ReloadReachesServerHolds` for any
  number of admissions, reloads and probes. `CountInv` balances the total against the
  counted results and the admissions at each step of `Decide`, and bounds what a probe
  has read so far by what it read before; the order of the loads in `Snapshot` is what
  makes it inductive. `PolicyInv` says what the server's authenticator serves is the
  last policy installed.
* **RevocationProofs**: `SingleFlightHolds`, `NeverUnrevokedHolds` and, if responders do
  not repeat an old response without nextUpdate, `RevocationTakesEffectHolds`, for any
  callers, lifetimes and deployments. The invariant speaks of everything that can still
  become an answer: the list held and a list being fetched (`ListInv`), the cached
  response and those on their way to the cache (`EntryInv`) say what was true when they
  were issued and are no longer lived than that allows; and once a caller was told of the
  revocation, the list in force has it (`ReportInv`).
* **EvidenceProofs**: `EvidenceGenuineHolds`, `PinnedIsOnDiskHolds`,
  `BundleIsSealedHolds`, `AnchorResolvedHolds` and `ReportCoversSnapshotHolds`, for any requests, keys and inputs and any number of changes from
  outside. The invariant follows a record from the emission (`EmissionInv`: which files
  a request has completed, `PinInv`: which of them its audit line may name) to the disk
  (`KeptInv`: a referenced record is in its file; `FileInv`: an untouched file is torn or
  holds the record it is named after, and whatever a file holds, the deployment's key
  signed only what was sealed) and to the readers (`ScanInv`, `BundleInv`).
  The lemmas say what tagging and signing do to an envelope and that nobody without
  the key can make one that verifies.
  `AnchorResolvedHolds` assumes `PlainExports` (no plugin logs lines of its own, or every
  export names its operation), the negation of the `evidence_pin` finding. `AnchorInv`
  adds which lines can stand in the audit file, that whatever file loads as a decision,
  a planted one included, is a complete record, and that what the exporter has read is a
  selection of a file that has only grown since (`MatchingOf`, by induction over it).
  `ReportCoversSnapshotHolds` assumes a deployment that signs. `ReportInv` needs to know
  why a file of the snapshot cannot change under the reader: a request creates each of
  its files once, under a name not in use before (`FreshInv`, `StageInv`), so only
  someone outside can change it, and that leaves a mark or costs the signature
  (`TamperInv`). `SnapInv`, `PassInv` and `DoneInv` then follow the scan: the snapshot is
  still there, the first pass has dealt with each of its files as the snapshot has it,
  and a decision is counted only from the file of its own digest, so that an outcome is
  linked exactly when its decision is there.
* **GovernanceProofs**, of the other three: `DelegationAttenuates` (`AcceptedIsDelegated`) for any
  keys, characters, delegations and chains. `GlobBegins`, by induction over the pattern,
  says that a text a glob matches starts with the pattern's characters before its first
  wildcard; `KeepsBeginning` that whatever a capability covers, in any of the four ways,
  does. Hence a capability covered by one in a simple form stands for no id that its
  ancestor does not, whatever globs it has itself (`CoveredGrants`), and `FilterCovered`
  narrows both sides where the upper one is simple (`FilterGrants`).
  `ChainInv` carries this through the two passes of the verifier: types, signatures
  found for the levels passed so far (`signed` only grows), effective capabilities that
  are part of the last level passed, and within every level from which on all are simple.
  `OverstayBoundedHolds` for any constraints, sessions, evaluators and intervals.
  `WindowSound` and `AnswerSound` show that what an evaluator lets pass, windows across
  midnight included, the reference definition does not call violated. The bound is
  not inductive: `ConstraintInv` adds that time is counted only against a constraint
  that is violated now (`OverInv`), that the time counted and the time to the next
  tick are at most one interval together, and that a recheck clears the constraints of the two
  lists one by one (`RecheckInv`), although registries change within it.
  `RiskRulesHold` (`RiskRulesEnforced`) for any rules, agents, violations and reloads,
  back-dated violations included. The code keeps only what the rules' windows have left
  of an agent's violations, so `RiskInv` compares that list with the whole history: it
  picks entries of the history, each once, and leaves out only what is older, by some
  rule's window, than a violation recorded since. `PrunedOf` and `KeptLeft` say what the
  loops leave, by induction over the list and over the rules.
* **SupervisionProofs**: `RetentionHolds` and, with at least one backup,
  `QueriesHaveNoGaps`, for any number of backups, recorders, failing calls, crashes,
  starts and archived files, from any files an undisturbed process leaves
  (`LeftBehind`). `StoreInv` has one part per question the property raises in the middle
  of a rotation: what each program counter implies for lock, handle and names
  (`ControlInv`); that no two names have one file, except for the name the rotation is
  about to take over (`NamesInv`), and that a free file is there and empty (`FreeInv`);
  what lines a file may hold (`EventsInv`); that names and lines stay in the order of
  the acknowledgements (`OrderInv`); that what is kept is a final stretch of the
  acknowledged events (`KeptInv`); that every missing name below a used one is paid for
  by a crash, a failed call or an archived file, not counting the hole a rotation moves
  downwards (`HolesInv`); that every fragment is paid for by a failed write
  (`FragmentsInv`); what a query has read of a file that may since have lost its name
  (`QueryInv`); and `SizeIsFileSize`.
  `ProofSound` and `ProofComplete` are about the Merkle tree of any size: no sequence of
  steps leads to the root from an entry that is not in the tree, and the computed proof
  does, within the bound `Verify` takes from ceil(log2) of the size. The height of the
  tree comes from the halving loop of `NewMerkleTree` and is a definition of its own; that
  the bound is never smaller is part of the proof. `ChainHolds` (`ChainTamperEvident`)
  follows with `ChainInv`, which says every sealed batch links to the one before it.

  `ReadBackHolds` (`ReadBack`) for any chunk size, any lengths of lines and all that may
  have happened to the file before. `LinesInv` adds to `StoreInv` that a whole line is
  longer than its newline, on disk and while its record waits for the lock: no empty line
  is ever written, and an empty line found by the search would move it past entries that
  match. Over one file, `SplitSuffix` says that the pieces behind a newline are the pieces
  of the text behind it. For the search, `ProbeStart` and `SearchOf` keep that the lower
  end is the start of a line and that the line in front of it is older or does not
  parse, and show that the ends have met after as many rounds as there are bytes;
  `SinceOf` puts the two together. For the backward read, `BackwardsOf` says which bytes
  a round has in hand, a remainder that was overwritten in the shared buffer included,
  and `ReverseOf` finds in them each line that lies within a chunk.

The assumptions are those the modules state: `MaxRecords` is a natural number and
every deployment has the fields listed (Decide); certificates have a name, a nonce
or none and a principal of the model (Admission); letters that are no wildcards and no
separators, and ids of a bounded length (Capabilities); time windows within a day (Constraints); a positive capacity and a
finite set of Log calls (AuditLogger); `None` and `Torn` are no records
(EvidenceStore); the files of an earlier process are such as an undisturbed one leaves,
lines are longer than their newline and the file system has another file to give
(SupervisionStore); a chunk has at least a byte (AuditReader); rules are lists of
signals, a threshold and a window (RiskMonitor). Six theorems have a hypothesis beyond
them, each true of the checked instance and each with its counterpart in the code:

| Hypothesis | Without it |
|---|---|
| `LifetimeCovered` (ReplayStore) | a token outlives its marker and is used twice |
| `WithinRetention` (NonceCache) | a nonce is swept while its certificate is valid |
| `~OldWithoutNext` (Revocation) | an old response is believed for a TTL after its arrival |
| `MaxBak > 0` (`QueriesHaveNoGaps`) | the live file is truncated under the reader |
| `PlainExports` (`AnchorResolvedHolds`) | the run `evidence_pin` |
| a signing key (`ReportCoversSnapshotHolds`) | a reader without a key cannot tell an altered record from its own; TLC shows an altered decision that vouches for an outcome |

What the proof attempts changed in the models: `SourcesDiffer` and `Covered` are
conditions without which the properties do not hold; `SingleFlight` says more than it
did; `Verdicts` no longer has overlapping cases, whose meaning TLA+ leaves open.
`DropsOnlyWhenFull` (a part of `Retention`) is now about behaviours in which no rename
failed: with two backups it holds without that condition, with three TLC shows a failed
rename whose hole later rotations carry on, while events are dropped. `MaxBak = 0`
violates `QueryHasNoGaps`. `Height` and `MaxProof` were one definition in `Merkle`, although
the code computes the number of levels and the bound of a proof in different ways. The
scan of `AuditReader` was a `SelectSeq` and the time bound another one after it; both are now
one loop, as in the code.

Induction over data. The library's induction theorems take an operator as a parameter,
which the installed provers cannot instantiate. The proofs use two lemmas about sets
instead, `SmallestIn` and `SetInduction`, and unfold a recursive function as the CHOOSE it
stands for, having shown by induction that some function satisfies its equation. What is
proved about is therefore written as a recursive function (`Pruned`, `KeptAfter`,
`MatchingLines`, `Taken`, `Levels`, `Path`, `HashUp`, `Written`, and the loops of `AuditReader`) and
not with `SelectSeq`, which the
provers treat as unknown.

Only model-checked: the liveness properties `CloseReturns`, `AcceptedIsSettled` and
`EveryCheckReturns`. Fairness is out of TLAPS's reach. Every invariant and action property
of the passing runs is stated by a theorem, where the table says so under a hypothesis.

## What is not modelled

Certificate and ASN.1 parsing, configuration loading, TLS set-up, document
rendering, challenges, RFC 3161 encoding, examples and test helpers convert data
within one call and keep no state. The MCP server dispatches one request at a time to
a registry filled at start-up and asks the decision core. Policy, roles, SPIFFE and
parameters are predicates that `Admission` lets answer freely. `Listen`, `Serve`,
header rewriting and route matching are net/http's. `AuditChain.Seal`, which links
whatever it is given, supervision lines in a bundle, field filters of the reader, an
export without a directory or with a handed record that does not reproduce (both only
refuse) are left out. `PROJECT.json` gives the reason for each.

## Plan

`Server` (Listen, Serve, Close) and the trust models of `trust_model.go`, composed with
`Revocation`.

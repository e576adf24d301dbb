--------------------------------- MODULE Admin ---------------------------------
(***************************************************************************)
(* The administration face (admin.go, and Decide's instrumentation in      *)
(* decide.go): admission counters and health, read by probes one atomic at *)
(* a time while admissions update them, and policy hot reload.  The HTTP   *)
(* middleware and the DecisionServer each build their own authenticator    *)
(* from one Config: they share the counters, not the policy pointer.       *)
(***************************************************************************)
EXTENDS Naturals, Sequences, FiniteSets

CONSTANTS
  Requests,    \* admissions, one Decide call each
  Via,         \* [Requests -> Carriers]
  Reloads,     \* POST /reload and ReloadPolicy calls
  Offered,     \* [Reloads -> Policies]: the policy each one carries
  Policies,    \* authorization policies
  WellFormed,  \* those with a version and at least one role
  Configured,  \* no bundle installed: Config.AuthorizationPolicy serves
  Probes       \* GET /healthz calls

Carriers == {"http", "server"}

ASSUME AdminAssumption ==
  /\ IsFiniteSet(Requests)
  /\ Via \in [Requests -> Carriers]
  /\ Offered \in [Reloads -> Policies]
  /\ WellFormed \subseteq Policies
  /\ Configured \notin Policies

VARIABLES
  clock,      \* time.Now, advanced by every reading
  policy,     \* a.policy of each authenticator
  installed,  \* history: policies stored by reload, in order
  reload,     \* each reload call: "idle", "stored", "done" or "refused"
  total, granted, denied, reloads,   \* DecisionMetrics
  lastErr, lastOK,                   \* their timestamps, 0 for nil
  req,        \* each Decide call
  probe       \* each health probe

counters   == <<total, granted, denied>>
healthVars == <<lastErr, lastOK>>
policyVars == <<policy, installed, reload, reloads>>
vars == <<clock, policyVars, counters, healthVars, req, probe>>

Init ==
  /\ clock = 0
  /\ policy = [c \in Carriers |-> Configured]
  /\ installed = <<>>
  /\ reload = [l \in Reloads |-> "idle"]
  /\ total = 0 /\ granted = 0 /\ denied = 0 /\ reloads = 0
  /\ lastErr = 0 /\ lastOK = 0
  /\ req = [r \in Requests |->
       [step |-> "idle", ok |-> FALSE, at |-> 0, used |-> Configured, since |-> 0]]
  /\ probe = [p \in Probes |->
       [step |-> "idle", err |-> 0, healthy |-> TRUE,
        total |-> 0, granted |-> 0, denied |-> 0, pending |-> 0]]

(* Decide calls that have been counted in but not yet counted out. *)
Pending == {r \in Requests : req[r].step \in {"started", "running", "decided"}}

-------------------------------------------------------------------------------
(* Decide *)

(* DecideTotal.Add(1) *)
DecideEnter(r) ==
  /\ req[r].step = "idle"
  /\ total' = total + 1
  /\ req' = [req EXCEPT ![r].step = "started", ![r].since = Len(installed)]
  /\ UNCHANGED <<clock, policyVars, granted, denied, healthVars, probe>>

(* A faulty pipelineConfig that reads the bundle of another authenticator. *)
MutantLoadPolicy(r) ==
  /\ req[r].step = "started"
  /\ req' = [req EXCEPT ![r].step = "running", ![r].used = policy["http"]]
  /\ UNCHANGED <<clock, policyVars, counters, healthVars, probe>>

(* pipelineConfig: one load of the policy bundle for the whole admission. *)
LoadPolicy(r) ==
  /\ req[r].step = "started"
  /\ req' = [req EXCEPT ![r].step = "running", ![r].used = policy[Via[r]]]
  /\ UNCHANGED <<clock, policyVars, counters, healthVars, probe>>

(* decide returns, from the credential checks or after the pipeline, and    *)
(* noteResult takes its timestamp.                                          *)
DecideResult(r) ==
  /\ req[r].step \in {"started", "running"}
  /\ clock' = clock + 1
  /\ \E ok \in BOOLEAN :
       /\ ok => req[r].step = "running"
       /\ req' = [req EXCEPT ![r].step = "decided", ![r].ok = ok, ![r].at = clock + 1]
  /\ UNCHANGED <<policyVars, counters, healthVars, probe>>

(* noteResult: Denied.Add(1) or Granted.Add(1). *)
CountResult(r) ==
  /\ req[r].step = "decided"
  /\ granted' = IF req[r].ok THEN granted + 1 ELSE granted
  /\ denied' = IF req[r].ok THEN denied ELSE denied + 1
  /\ req' = [req EXCEPT ![r].step = "counted"]
  /\ UNCHANGED <<clock, policyVars, total, healthVars, probe>>

(* noteResult: lastErr.Store or lastOK.Store, with the earlier timestamp. *)
StoreResult(r) ==
  /\ req[r].step = "counted"
  /\ lastOK' = IF req[r].ok THEN req[r].at ELSE lastOK
  /\ lastErr' = IF req[r].ok THEN lastErr ELSE req[r].at
  /\ req' = [req EXCEPT ![r].step = "done"]
  /\ UNCHANGED <<clock, policyVars, counters, probe>>

-------------------------------------------------------------------------------
(* Policy reload *)

(* reload: a valid bundle replaces the DecisionServer's own. *)
ReloadStore(l) ==
  /\ reload[l] = "idle"
  /\ Offered[l] \in WellFormed
  /\ policy' = [policy EXCEPT !["server"] = Offered[l]]
  /\ installed' = Append(installed, Offered[l])
  /\ reload' = [reload EXCEPT ![l] = "stored"]
  /\ UNCHANGED <<clock, reloads, counters, healthVars, req, probe>>

(* ConfigReload.Add(1), after which the call returns. *)
ReloadCount(l) ==
  /\ reload[l] = "stored"
  /\ reloads' = reloads + 1
  /\ reload' = [reload EXCEPT ![l] = "done"]
  /\ UNCHANGED <<clock, policy, installed, counters, healthVars, req, probe>>

(* Wrong method, wrong admin token, unparsable body, or an invalid policy:  *)
(* the running snapshot keeps serving.                                      *)
ReloadRefuse(l) ==
  /\ reload[l] = "idle"
  /\ reload' = [reload EXCEPT ![l] = "refused"]
  /\ UNCHANGED <<clock, policy, installed, reloads, counters, healthVars, req, probe>>

-------------------------------------------------------------------------------
(* Health: Healthy's two loads, then Snapshot's loads in order. *)

Healthy(err, ok) == err = 0 \/ (ok # 0 /\ ok > err)

ProbeErr(p) ==
  /\ probe[p].step = "idle"
  /\ probe' = [probe EXCEPT ![p].step = "err", ![p].err = lastErr]
  /\ UNCHANGED <<clock, policyVars, counters, healthVars, req>>

ProbeOK(p) ==
  /\ probe[p].step = "err"
  /\ probe' = [probe EXCEPT ![p].step = "total",
                 ![p].healthy = Healthy(probe[p].err, lastOK)]
  /\ UNCHANGED <<clock, policyVars, counters, healthVars, req>>

ProbeTotal(p) ==
  /\ probe[p].step = "total"
  /\ probe' = [probe EXCEPT ![p].step = "granted",
                 ![p].total = total, ![p].pending = Cardinality(Pending)]
  /\ UNCHANGED <<clock, policyVars, counters, healthVars, req>>

ProbeGranted(p) ==
  /\ probe[p].step = "granted"
  /\ probe' = [probe EXCEPT ![p].step = "denied", ![p].granted = granted]
  /\ UNCHANGED <<clock, policyVars, counters, healthVars, req>>

(* A faulty Snapshot that loads DecideTotal last. *)
MutantProbeDenied(p) ==
  /\ probe[p].step = "denied"
  /\ probe' = [probe EXCEPT ![p].step = "done", ![p].denied = denied, ![p].total = total]
  /\ UNCHANGED <<clock, policyVars, counters, healthVars, req>>

ProbeDenied(p) ==
  /\ probe[p].step = "denied"
  /\ probe' = [probe EXCEPT ![p].step = "done", ![p].denied = denied]
  /\ UNCHANGED <<clock, policyVars, counters, healthVars, req>>

Next ==
  \/ \E r \in Requests :
       \/ DecideEnter(r) \/ LoadPolicy(r) \/ DecideResult(r)
       \/ CountResult(r) \/ StoreResult(r)
  \/ \E l \in Reloads : ReloadStore(l) \/ ReloadCount(l) \/ ReloadRefuse(l)
  \/ \E p \in Probes :
       \/ ProbeErr(p) \/ ProbeOK(p)
       \/ ProbeTotal(p) \/ ProbeGranted(p) \/ ProbeDenied(p)

Spec == Init /\ [][Next]_vars

-------------------------------------------------------------------------------
(* Properties *)

(* A snapshot never reports more unfinished admissions than were running    *)
(* when it loaded DecideTotal: the load order of Snapshot.                  *)
BacklogNotOverstated ==
  \A p \in Probes : probe[p].step = "done" =>
    probe[p].total <= probe[p].granted + probe[p].denied + probe[p].pending

(* r was admitted under a policy not yet replaced when it started. *)
Current(r) ==
  req[r].ok =>
    \/ req[r].since = 0 /\ req[r].used = Configured
    \/ \E k \in DOMAIN installed : k >= req[r].since /\ installed[k] = req[r].used

(* ReloadPolicy "atomically installs a new authorization policy for the     *)
(* next admission" (admin.go:174): an admission by the DecisionServer that  *)
(* starts after a policy was stored is decided under it or a later one.     *)
ReloadReachesServer == \A r \in Requests : Via[r] = "server" => Current(r)

===============================================================================

------------------------------ MODULE ReplayStore ------------------------------
(***************************************************************************)
(* Bearer replay protection (jwt.go): JWTVerifier.VerifyBearer run by      *)
(* concurrent requests on the shared memReplayStore.  A verification       *)
(* validates the token first and records its jti later, so time may pass   *)
(* between the two; the store forgets lapsed markers only under pressure.  *)
(* Time is a counter; the store's mutex makes CheckAndAdd one step.        *)
(***************************************************************************)
EXTENDS Naturals, FiniteSets

CONSTANTS
  Requests,   \* request goroutines, one verification each
  Tokens,     \* bearer tokens in circulation
  Nonces,     \* the strings used as jti or DA nonce
  NoNonce,    \* an absent jti, or an absent DA nonce (authorize mode)
  Jti,        \* [Tokens -> Nonces \cup {NoNonce}]
  DaNonce,    \* [Tokens -> Nonces \cup {NoNonce}]
  Iat, Exp,   \* [Tokens -> Nat]: issued at, expires at
  TTL, Max,   \* memReplayStore.ttl and .max
  MaxDelay,   \* longest time one verification may take
  MaxTime     \* bound on the clock

ASSUME ReplayStoreAssumption ==
  /\ Jti \in [Tokens -> Nonces \cup {NoNonce}]
  /\ DaNonce \in [Tokens -> Nonces \cup {NoNonce}]
  /\ Iat \in [Tokens -> Nat]
  /\ Exp \in [Tokens -> Nat]
  /\ TTL \in Nat
  /\ Max \in Nat \ {0}
  /\ MaxDelay \in Nat
  /\ MaxTime \in Nat
  /\ NoNonce \notin Nonces

VARIABLES
  now,    \* the clock
  seen,   \* memReplayStore.seen: which nonces, and when
  req     \* each request: where it is, its token, its start, its jti time

vars == <<now, seen, req>>

Steps    == {"idle", "da", "jti", "synth", "accepted", "refused"}
InFlight == {"da", "jti", "synth"}

TypeOK ==
  /\ now \in Nat
  /\ DOMAIN seen \subseteq Nonces
  /\ \A n \in DOMAIN seen : seen[n] \in Nat
  /\ req \in [Requests -> [step : Steps, token : Tokens, start : Nat, marked : Nat]]

Init ==
  /\ now = 0
  /\ seen = [n \in {} |-> 0]
  /\ req \in [Requests -> [step : {"idle"}, token : Tokens, start : {0}, marked : {0}]]

-------------------------------------------------------------------------------
(* memReplayStore *)

Without(s, gone) == [n \in DOMAIN s \ gone |-> s[n]]
Marked(s, n)     == [m \in DOMAIN s \cup {n} |-> IF m = n THEN now ELSE s[m]]

(* A faulty purge that evicts the oldest markers, lapsed or not. *)
MutantLapsed(s) == {n \in DOMAIN s : \A m \in DOMAIN s : s[n] <= s[m]}

(* Markers whose TTL has lapsed. *)
Lapsed(s) == {n \in DOMAIN s : s[n] + TTL < now}

(* A faulty capacity check that admits one marker too many. *)
MutantFits(s) == Cardinality(DOMAIN s) <= Max + 1

Fits(s) == Cardinality(DOMAIN s) <= Max

(* The store after recording n: as it is, purged, or purged and refused. *)
Recorded(n) ==
  LET full   == Marked(seen, n)
      purged == Without(full, Lapsed(full))
  IN  IF Fits(full) THEN full
      ELSE IF Fits(purged) THEN purged
      ELSE Without(purged, {n})

(* CheckAndAdd: a nonce already present is a replay; otherwise it is        *)
(* recorded, unless only live markers are left at capacity.                 *)
CheckAndAdd(n, ok) ==
  \/ /\ n \in DOMAIN seen
     /\ ok = FALSE
     /\ UNCHANGED seen
  \/ /\ n \notin DOMAIN seen
     /\ seen' = Recorded(n)
     /\ ok = (n \in DOMAIN Recorded(n))

-------------------------------------------------------------------------------
(* VerifyBearer *)

(* aicjwt.Validate accepts signature and validity window at the request's now. *)
Validate(r) ==
  /\ req[r].step = "idle"
  /\ LET t == req[r].token IN
     /\ Iat[t] <= now
     /\ now <= Exp[t]
     /\ req' = [req EXCEPT
          ![r].start = now,
          ![r].step = IF DaNonce[t] = NoNonce THEN "jti" ELSE "da"]
  /\ UNCHANGED <<now, seen>>

(* No trust root, or aicjwt.Validate refuses the token: nothing is recorded. *)
Reject(r) ==
  /\ req[r].step = "idle"
  /\ req' = [req EXCEPT ![r].step = "refused"]
  /\ UNCHANGED <<now, seen>>

(* aicjwt.Validate replay-checks the DA nonce of a representative token. *)
CheckDaNonce(r) ==
  /\ req[r].step = "da"
  /\ \E ok \in BOOLEAN :
       /\ CheckAndAdd(DaNonce[req[r].token], ok)
       /\ req' = [req EXCEPT ![r].step = IF ok THEN "jti" ELSE "refused"]
  /\ UNCHANGED now

(* A token without a jti cannot be protected against replay: refused. *)
MissingJti(r) ==
  /\ req[r].step = "jti"
  /\ Jti[req[r].token] = NoNonce
  /\ req' = [req EXCEPT ![r].step = "refused"]
  /\ UNCHANGED <<now, seen>>

(* The outer jti is recorded as a one-time-use nonce. *)
CheckJti(r) ==
  /\ req[r].step = "jti"
  /\ Jti[req[r].token] # NoNonce
  /\ \E ok \in BOOLEAN :
       /\ CheckAndAdd(Jti[req[r].token], ok)
       /\ req' = [req EXCEPT
            ![r].step = IF ok THEN "synth" ELSE "refused",
            ![r].marked = now]
  /\ UNCHANGED now

(* SynthesizeCertFromJWT succeeds, or fails after the jti has been burned. *)
Synthesize(r) ==
  /\ req[r].step = "synth"
  /\ \E outcome \in {"accepted", "refused"} :
       req' = [req EXCEPT ![r].step = outcome]
  /\ UNCHANGED <<now, seen>>

(* Time passes; no verification takes longer than MaxDelay. *)
Tick ==
  /\ now < MaxTime
  /\ \A r \in Requests : req[r].step \in InFlight => now < req[r].start + MaxDelay
  /\ now' = now + 1
  /\ UNCHANGED <<seen, req>>

Next ==
  \/ \E r \in Requests :
       \/ Validate(r) \/ Reject(r) \/ CheckDaNonce(r)
       \/ CheckJti(r) \/ MissingJti(r) \/ Synthesize(r)
  \/ Tick

Spec == Init /\ [][Next]_vars

-------------------------------------------------------------------------------
(* Properties *)

(* Every token expires before a marker recorded for it can lapse, even if   *)
(* the verification that recorded it is as slow as possible.                *)
LifetimeCovered == \A t \in Tokens : Exp[t] + MaxDelay <= Iat[t] + TTL

(* Every verified token is used once: no two requests are accepted with the *)
(* same token, whatever the interleaving of validation, recording, purging  *)
(* and expiry ("every verified token's jti is single-use",                  *)
(* aicverifier.go:87).                                                      *)
SingleUse ==
  \A r1, r2 \in Requests :
    (r1 # r2 /\ req[r1].step = "accepted" /\ req[r2].step = "accepted")
      => req[r1].token # req[r2].token

(* The store never holds more than max markers, and at capacity it refuses  *)
(* rather than evicting one (NewReplayNonceStore, "Capacity").              *)
CapacityBound == Cardinality(DOMAIN seen) <= Max

(* A marker younger than the TTL is never evicted.                          *)
LiveMarkersKept ==
  [][\A n \in DOMAIN seen : n \notin DOMAIN seen' => seen[n] + TTL < now]_vars
===============================================================================

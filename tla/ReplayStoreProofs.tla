--------------------------- MODULE ReplayStoreProofs ---------------------------
(***************************************************************************)
(* Single use of bearer tokens for any number of concurrent requests and   *)
(* any capacity, provided token lifetimes are covered by the store's TTL;  *)
(* and, whatever the lifetimes, what the store itself promises: it stays   *)
(* within its capacity and evicts no marker that has not lapsed.           *)
(***************************************************************************)
EXTENDS ReplayStore, FiniteSetTheorems, TLAPS

(* Recording a nonce keeps every other marker that has not lapsed, and the  *)
(* times of those it keeps.                                                 *)
LEMMA RecordedKeeps ==
  ASSUME TypeOK, NEW n \in Nonces, n \notin DOMAIN seen
  PROVE  /\ DOMAIN Recorded(n) \subseteq DOMAIN seen \cup {n}
         /\ \A k \in DOMAIN seen :
              IF k \in DOMAIN Recorded(n) THEN Recorded(n)[k] = seen[k] ELSE seen[k] + TTL < now
         /\ n \in DOMAIN Recorded(n) => Recorded(n)[n] = now
  <1> DEFINE full == Marked(seen, n)
             purged == Without(full, Lapsed(full))
  <1>1. /\ DOMAIN full = DOMAIN seen \cup {n}
        /\ \A k \in DOMAIN seen : full[k] = seen[k]
        /\ full[n] = now
    BY DEF Marked
  <1>2. /\ DOMAIN purged \subseteq DOMAIN full
        /\ \A k \in DOMAIN purged : purged[k] = full[k]
        /\ \A k \in DOMAIN full \ DOMAIN purged : full[k] + TTL < now
    BY DEF Without, Lapsed
  <1>3. /\ DOMAIN Without(purged, {n}) = DOMAIN purged \ {n}
        /\ \A k \in DOMAIN purged \ {n} : Without(purged, {n})[k] = purged[k]
    BY DEF Without
  <1>4. Recorded(n) \in {full, purged, Without(purged, {n})}
    BY DEF Recorded
  <1> HIDE DEF full, purged
  <1>5. CASE Recorded(n) = full
    BY <1>1, <1>5
  <1>6. CASE Recorded(n) = purged
    BY <1>1, <1>2, <1>6
  <1>7. CASE Recorded(n) = Without(purged, {n})
    BY <1>1, <1>2, <1>3, <1>7
  <1>8. QED
    BY <1>4, <1>5, <1>6, <1>7

(* CheckAndAdd as the steps use it: a success means the nonce was absent    *)
(* and is now marked, and no live marker is lost either way.                *)
LEMMA CheckAndAddFacts ==
  ASSUME TypeOK, NEW n \in Nonces, NEW ok \in BOOLEAN, CheckAndAdd(n, ok)
  PROVE  /\ DOMAIN seen' \subseteq DOMAIN seen \cup {n}
         /\ \A k \in DOMAIN seen :
              IF k \in DOMAIN seen' THEN seen'[k] = seen[k] ELSE seen[k] + TTL < now
         /\ n \in DOMAIN seen' /\ n \notin DOMAIN seen => seen'[n] = now
         /\ ok => n \notin DOMAIN seen /\ n \in DOMAIN seen'
  <1>1. CASE n \in DOMAIN seen /\ ok = FALSE /\ UNCHANGED seen
    BY <1>1
  <1>2. CASE n \notin DOMAIN seen /\ seen' = Recorded(n) /\ ok = (n \in DOMAIN Recorded(n))
    BY <1>2, RecordedKeeps
  <1>3. QED
    BY <1>1, <1>2 DEF CheckAndAdd

(* The verifications that hold a recorded jti. *)
Passed(r) == req[r].step \in {"synth", "accepted"}

(* Requests in flight are recent; a recorded jti is still marked, with its  *)
(* own or a later time, or it is older than the TTL; no two requests hold   *)
(* the same token.                                                          *)
FlightInv ==
  \A r \in Requests : req[r].step \in InFlight =>
    /\ req[r].start <= now /\ now <= req[r].start + MaxDelay
    /\ Iat[req[r].token] <= req[r].start /\ req[r].start <= Exp[req[r].token]
MarkInv ==
  /\ \A n \in DOMAIN seen : seen[n] <= now
  /\ \A r \in Requests : Passed(r) =>
       /\ req[r].marked <= now /\ Iat[req[r].token] <= req[r].marked
       /\ \/ Jti[req[r].token] \in DOMAIN seen /\ req[r].marked <= seen[Jti[req[r].token]]
          \/ req[r].marked + TTL < now
UseInv ==
  \A p, q \in Requests : (p # q /\ Passed(p) /\ Passed(q)) => req[p].token # req[q].token

(* Only a token with a DA nonce has it checked. *)
DaInv == \A r \in Requests : req[r].step = "da" => DaNonce[req[r].token] \in Nonces

IInv == TypeOK /\ DaInv /\ FlightInv /\ MarkInv /\ UseInv

(* A step that only moves one request on. *)
LEMMA StepOnly ==
  ASSUME TypeOK, NEW r \in Requests, NEW s \in Steps, req' = [req EXCEPT ![r].step = s]
  PROVE  /\ req' \in [Requests -> [step : Steps, token : Tokens, start : Nat, marked : Nat]]
         /\ \A p \in Requests : req'[p].token = req[p].token
         /\ \A p \in Requests \ {r} : req'[p] = req[p]
         /\ req'[r].step = s /\ req'[r].start = req[r].start /\ req'[r].marked = req[r].marked
  BY DEF TypeOK

(* A request that was in flight and stays before its jti check, or ends     *)
(* refused, keeps the invariant, whichever live markers were kept.          *)
LEMMA QuietStep ==
  ASSUME IInv, NEW r \in Requests, NEW s \in Steps,
         req' = [req EXCEPT ![r].step = s], now' = now,
         s \in {"jti", "refused"},
         s = "jti" => req[r].step \in InFlight,
         DOMAIN seen' \subseteq Nonces,
         \A k \in DOMAIN seen :
            IF k \in DOMAIN seen' THEN seen'[k] = seen[k] ELSE seen[k] + TTL < now,
         \A k \in DOMAIN seen' \ DOMAIN seen : seen'[k] = now
  PROVE  IInv'
  <1> USE ReplayStoreAssumption
  <1>1. /\ TypeOK /\ FlightInv /\ MarkInv /\ UseInv /\ DaInv
    BY DEF IInv
  <1>2. /\ req' \in [Requests -> [step : Steps, token : Tokens, start : Nat, marked : Nat]]
        /\ \A p \in Requests : req'[p].token = req[p].token
        /\ \A p \in Requests \ {r} : req'[p] = req[p]
        /\ req'[r].step = s /\ req'[r].start = req[r].start /\ req'[r].marked = req[r].marked
    BY <1>1, StepOnly
  <1>3. \A p \in Requests : Passed(p)' => p # r /\ Passed(p)
    BY <1>2 DEF Passed
  <1>4. TypeOK'
    BY <1>1, <1>2 DEF TypeOK
  <1>5. FlightInv'
    BY <1>1, <1>2 DEF FlightInv, InFlight
  <1>6. UseInv'
    BY <1>1, <1>2, <1>3 DEF UseInv
  <1>7. DaInv'
    BY <1>1, <1>2 DEF DaInv
  <1>8. MarkInv'
    <2>1. \A n \in DOMAIN seen' : seen'[n] <= now
      BY <1>1 DEF MarkInv, TypeOK
    <2>2. ASSUME NEW p \in Requests, Passed(p)'
          PROVE  /\ req'[p].marked <= now /\ Iat[req'[p].token] <= req'[p].marked
                 /\ \/ Jti[req'[p].token] \in DOMAIN seen' /\ req'[p].marked <= seen'[Jti[req'[p].token]]
                    \/ req'[p].marked + TTL < now
      <3>1. p # r /\ Passed(p) /\ req'[p] = req[p]
        BY <1>2, <1>3, <2>2
      <3>2. /\ req[p].marked <= now /\ Iat[req[p].token] <= req[p].marked
            /\ \/ Jti[req[p].token] \in DOMAIN seen /\ req[p].marked <= seen[Jti[req[p].token]]
               \/ req[p].marked + TTL < now
        BY <1>1, <3>1 DEF MarkInv
      <3>3. req[p].marked \in Nat /\ \A k \in DOMAIN seen : seen[k] \in Nat /\ now \in Nat
        BY <1>1 DEF TypeOK
      <3>4. QED
        BY <3>1, <3>2, <3>3
    <2>3. QED
      BY <2>1, <2>2 DEF MarkInv
  <1>9. QED
    BY <1>4, <1>5, <1>6, <1>7, <1>8 DEF IInv

(* A validated request starts inside its token's validity window. *)
LEMMA ValidateStep == ASSUME IInv, NEW r \in Requests, Validate(r) PROVE IInv'
  <1> USE ReplayStoreAssumption
  <1>1. TypeOK /\ FlightInv /\ MarkInv /\ UseInv /\ DaInv
    BY DEF IInv
  <1> DEFINE t == req[r].token
             s == IF DaNonce[t] = NoNonce THEN "jti" ELSE "da"
  <1>2. t \in Tokens /\ s \in Steps /\ now \in Nat /\ req[r].step = "idle"
    BY <1>1 DEF TypeOK, Steps, Validate
  <1>3. /\ req' \in [Requests -> [step : Steps, token : Tokens, start : Nat, marked : Nat]]
        /\ \A p \in Requests : req'[p].token = req[p].token
        /\ \A p \in Requests \ {r} : req'[p] = req[p]
        /\ req'[r].step = s /\ req'[r].start = now
    BY <1>1, <1>2 DEF TypeOK, Validate
  <1>4. Iat[t] <= now /\ now <= Exp[t] /\ UNCHANGED <<now, seen>>
    BY DEF Validate
  <1>5. s = "da" => DaNonce[t] \in Nonces
    BY <1>2
  <1>6. s \in {"da", "jti"}
    OBVIOUS
  <1> HIDE DEF s, t
  <1>7. \A p \in Requests : Passed(p)' => p # r /\ Passed(p)
    BY <1>3, <1>6 DEF Passed
  <1>8. TypeOK'
    BY <1>1, <1>3, <1>4 DEF TypeOK
  <1>9. FlightInv'
    BY <1>1, <1>2, <1>3, <1>4 DEF FlightInv, t
  <1>10. UseInv'
    BY <1>1, <1>3, <1>7 DEF UseInv
  <1>11. DaInv'
    BY <1>1, <1>3, <1>5 DEF DaInv, t
  <1>12. MarkInv'
    BY <1>1, <1>3, <1>4, <1>7 DEF MarkInv
  <1>13. QED
    BY <1>8, <1>9, <1>10, <1>11, <1>12 DEF IInv

(* Recording a jti: another request that already holds the token would have *)
(* a marker too young to have lapsed.                                       *)
LEMMA CheckJtiStep ==
  ASSUME LifetimeCovered, IInv, NEW r \in Requests, CheckJti(r)
  PROVE  IInv'
  <1> USE ReplayStoreAssumption
  <1>1. TypeOK /\ FlightInv /\ MarkInv /\ UseInv /\ DaInv
    BY DEF IInv
  <1> DEFINE t == req[r].token
             n == Jti[t]
  <1>2. t \in Tokens /\ n \in Nonces /\ now \in Nat /\ req[r].step = "jti" /\ now' = now
    BY <1>1 DEF TypeOK, CheckJti
  <1>3. PICK ok \in BOOLEAN :
          /\ CheckAndAdd(n, ok)
          /\ req' = [req EXCEPT ![r].step = IF ok THEN "synth" ELSE "refused", ![r].marked = now]
    BY DEF CheckJti
  <1> DEFINE s == IF ok THEN "synth" ELSE "refused"
  <1>4. /\ req' \in [Requests -> [step : Steps, token : Tokens, start : Nat, marked : Nat]]
        /\ \A p \in Requests : req'[p].token = req[p].token
        /\ \A p \in Requests \ {r} : req'[p] = req[p]
        /\ req'[r].step = s /\ req'[r].start = req[r].start /\ req'[r].marked = now
    BY <1>1, <1>2, <1>3 DEF TypeOK, Steps
  <1>5. /\ DOMAIN seen' \subseteq DOMAIN seen \cup {n}
        /\ \A k \in DOMAIN seen :
             IF k \in DOMAIN seen' THEN seen'[k] = seen[k] ELSE seen[k] + TTL < now
        /\ n \in DOMAIN seen' /\ n \notin DOMAIN seen => seen'[n] = now
        /\ ok => n \notin DOMAIN seen /\ n \in DOMAIN seen'
    BY <1>1, <1>2, <1>3, CheckAndAddFacts
  <1>6. s \in {"synth", "refused"} /\ (s = "synth" <=> ok)
    OBVIOUS
  <1>7. /\ req[r].start \in Nat /\ now <= req[r].start + MaxDelay
        /\ Iat[t] <= req[r].start /\ req[r].start <= Exp[t]
    BY <1>1, <1>2 DEF TypeOK, FlightInv, InFlight
  <1> HIDE DEF s, n, t
  <1>8. TypeOK'
    <2>1. \A k \in DOMAIN seen' : k \in Nonces /\ seen'[k] \in Nat
      BY <1>1, <1>2, <1>5 DEF TypeOK
    <2>2. QED
      BY <1>2, <1>4, <2>1 DEF TypeOK
  <1>9. FlightInv'
    BY <1>1, <1>2, <1>4, <1>6 DEF FlightInv, InFlight
  <1>10. DaInv'
    BY <1>1, <1>4, <1>6 DEF DaInv
  <1>11. \A p \in Requests \ {r} : Passed(p)' => Passed(p)
    BY <1>4 DEF Passed
  <1>12. ASSUME NEW p \in Requests \ {r}, Passed(p), ok PROVE req[p].token # t
    <2> SUFFICES ASSUME req[p].token = t PROVE FALSE
      OBVIOUS
    <2>1. Iat[t] <= req[p].marked /\ req[p].marked + TTL < now
      BY <1>1, <1>5, <1>12 DEF MarkInv, n
    <2>2. Exp[t] + MaxDelay <= Iat[t] + TTL
      BY <1>2 DEF LifetimeCovered
    <2>3. /\ Iat[t] \in Nat /\ Exp[t] \in Nat /\ TTL \in Nat /\ MaxDelay \in Nat
          /\ req[p].marked \in Nat
      BY <1>1, <1>2 DEF TypeOK
    <2>4. QED
      BY <1>2, <1>7, <2>1, <2>2, <2>3
  <1>13. UseInv'
    <2> SUFFICES ASSUME NEW p \in Requests, NEW q \in Requests, p # q, Passed(p)', Passed(q)'
                 PROVE  req'[p].token # req'[q].token
      BY DEF UseInv
    <2>1. CASE p # r /\ q # r
      BY <2>1, <1>1, <1>4, <1>11 DEF UseInv
    <2>2. CASE p = r
      <3>1. ok
        BY <2>2, <1>4, <1>6 DEF Passed
      <3>2. QED
        BY <2>2, <3>1, <1>4, <1>11, <1>12 DEF t
    <2>3. CASE q = r
      <3>1. ok
        BY <2>3, <1>4, <1>6 DEF Passed
      <3>2. QED
        BY <2>3, <3>1, <1>4, <1>11, <1>12 DEF t
    <2>4. QED
      BY <2>1, <2>2, <2>3
  <1>14. MarkInv'
    <2>1. \A k \in DOMAIN seen' : seen'[k] <= now
      BY <1>1, <1>2, <1>5 DEF MarkInv, TypeOK
    <2>2. ASSUME NEW p \in Requests, Passed(p)'
          PROVE  /\ req'[p].marked <= now /\ Iat[req'[p].token] <= req'[p].marked
                 /\ \/ Jti[req'[p].token] \in DOMAIN seen' /\ req'[p].marked <= seen'[Jti[req'[p].token]]
                    \/ req'[p].marked + TTL < now
      <3>1. CASE p = r
        <4>1. ok /\ n \in DOMAIN seen' /\ seen'[n] = now
          BY <3>1, <2>2, <1>4, <1>5, <1>6 DEF Passed
        <4>2. Iat[t] <= now
          BY <1>1, <1>2, <1>7 DEF FlightInv, InFlight, TypeOK
        <4>3. QED
          BY <3>1, <4>1, <4>2, <1>2, <1>4 DEF n, t
      <3>2. CASE p # r
        <4>1. Passed(p) /\ req'[p] = req[p]
          BY <3>2, <2>2, <1>4, <1>11
        <4>2. /\ req[p].marked <= now /\ Iat[req[p].token] <= req[p].marked
              /\ \/ Jti[req[p].token] \in DOMAIN seen /\ req[p].marked <= seen[Jti[req[p].token]]
                 \/ req[p].marked + TTL < now
          BY <1>1, <4>1 DEF MarkInv
        <4>3. req[p].marked \in Nat /\ \A k \in DOMAIN seen : seen[k] \in Nat
          BY <1>1 DEF TypeOK
        <4>4. QED
          BY <4>1, <4>2, <4>3, <1>2, <1>5
      <3>3. QED
        BY <3>1, <3>2
    <2>3. QED
      BY <2>1, <2>2, <1>2 DEF MarkInv
  <1>15. QED
    BY <1>8, <1>9, <1>10, <1>13, <1>14 DEF IInv

(* Finishing a verification neither adds a holder nor removes a marker. *)
LEMMA SynthesizeStep == ASSUME IInv, NEW r \in Requests, Synthesize(r) PROVE IInv'
  <1>1. TypeOK /\ FlightInv /\ MarkInv /\ UseInv /\ DaInv
    BY DEF IInv
  <1>2. PICK s \in {"accepted", "refused"} : req' = [req EXCEPT ![r].step = s]
    BY DEF Synthesize
  <1>3. /\ req' \in [Requests -> [step : Steps, token : Tokens, start : Nat, marked : Nat]]
        /\ \A p \in Requests : req'[p].token = req[p].token
        /\ \A p \in Requests \ {r} : req'[p] = req[p]
        /\ req'[r].step = s /\ req'[r].start = req[r].start /\ req'[r].marked = req[r].marked
    BY <1>1, <1>2, StepOnly DEF Steps
  <1>4. \A p \in Requests : Passed(p)' => Passed(p) /\ req'[p].marked = req[p].marked
    BY <1>3 DEF Passed, Synthesize
  <1>5. UNCHANGED <<now, seen>>
    BY DEF Synthesize
  <1>6. TypeOK'
    BY <1>1, <1>3, <1>5 DEF TypeOK
  <1>7. FlightInv'
    BY <1>1, <1>3, <1>5 DEF FlightInv, InFlight
  <1>8. UseInv'
    BY <1>1, <1>3, <1>4 DEF UseInv
  <1>9. DaInv'
    BY <1>1, <1>3 DEF DaInv
  <1>10. MarkInv'
    BY <1>1, <1>3, <1>4, <1>5 DEF MarkInv
  <1>11. QED
    BY <1>6, <1>7, <1>8, <1>9, <1>10 DEF IInv

(* Time passing can only let markers lapse. *)
LEMMA TickStep == ASSUME IInv, Tick PROVE IInv'
  <1> USE ReplayStoreAssumption
  <1>1. TypeOK /\ FlightInv /\ MarkInv /\ UseInv /\ DaInv
    BY DEF IInv
  <1>2. now' = now + 1 /\ now \in Nat /\ seen' = seen /\ req' = req
    BY <1>1 DEF Tick, TypeOK
  <1>3. TypeOK' /\ UseInv' /\ DaInv'
    BY <1>1, <1>2 DEF TypeOK, UseInv, DaInv, Passed
  <1>4. FlightInv'
    <2> SUFFICES ASSUME NEW r \in Requests, req[r].step \in InFlight
                 PROVE  /\ req[r].start <= now + 1 /\ now + 1 <= req[r].start + MaxDelay
                        /\ Iat[req[r].token] <= req[r].start /\ req[r].start <= Exp[req[r].token]
      BY <1>2 DEF FlightInv
    <2>1. req[r].start \in Nat
      BY <1>1 DEF TypeOK
    <2>2. QED
      BY <1>1, <1>2, <2>1 DEF FlightInv, Tick
  <1>5. MarkInv'
    <2>1. \A n \in DOMAIN seen : seen[n] <= now + 1
      BY <1>1, <1>2 DEF MarkInv, TypeOK
    <2>2. ASSUME NEW r \in Requests, Passed(r)
          PROVE  /\ req[r].marked <= now + 1 /\ Iat[req[r].token] <= req[r].marked
                 /\ \/ Jti[req[r].token] \in DOMAIN seen /\ req[r].marked <= seen[Jti[req[r].token]]
                    \/ req[r].marked + TTL < now + 1
      <3>1. req[r].marked \in Nat /\ TTL \in Nat
        BY <1>1 DEF TypeOK
      <3>2. QED
        BY <1>1, <1>2, <2>2, <3>1 DEF MarkInv
    <2>3. QED
      BY <1>2, <2>1, <2>2 DEF MarkInv, Passed
  <1>6. QED
    BY <1>3, <1>4, <1>5 DEF IInv

(* One token, one acceptance: for every interleaving of any number of       *)
(* verifications, if token lifetimes are covered by the TTL.                *)
THEOREM SingleUseHolds ==
  ASSUME LifetimeCovered
  PROVE  Spec => []SingleUse
  <1>1. Init => IInv
    <2> SUFFICES ASSUME Init PROVE IInv
      OBVIOUS
    <2>1. TypeOK
      BY DEF Init, TypeOK, Steps
    <2>2. \A r \in Requests : req[r].step = "idle"
      BY DEF Init
    <2>3. QED
      BY <2>1, <2>2 DEF IInv, FlightInv, MarkInv, UseInv, DaInv, Passed, InFlight, Init
  <1>2. IInv /\ [Next]_vars => IInv'
    <2> SUFFICES ASSUME IInv, [Next]_vars PROVE IInv'
      OBVIOUS
    <2>1. ASSUME NEW r \in Requests, CheckDaNonce(r) PROVE IInv'
      <3> DEFINE n == DaNonce[req[r].token]
      <3>1. n \in Nonces /\ req[r].step = "da" /\ now' = now /\ TypeOK
        BY <2>1 DEF IInv, DaInv, CheckDaNonce
      <3>2. PICK ok \in BOOLEAN :
              /\ CheckAndAdd(n, ok)
              /\ req' = [req EXCEPT ![r].step = IF ok THEN "jti" ELSE "refused"]
        BY <2>1 DEF CheckDaNonce
      <3>3. /\ DOMAIN seen' \subseteq DOMAIN seen \cup {n}
            /\ \A k \in DOMAIN seen :
                 IF k \in DOMAIN seen' THEN seen'[k] = seen[k] ELSE seen[k] + TTL < now
            /\ n \in DOMAIN seen' /\ n \notin DOMAIN seen => seen'[n] = now
        BY <3>1, <3>2, CheckAndAddFacts
      <3> DEFINE s == IF ok THEN "jti" ELSE "refused"
      <3>4. s \in Steps /\ s \in {"jti", "refused"} /\ req[r].step \in InFlight
        BY <3>1 DEF Steps, InFlight
      <3>5. req' = [req EXCEPT ![r].step = s]
        BY <3>2
      <3>6. DOMAIN seen' \subseteq Nonces /\ \A k \in DOMAIN seen' \ DOMAIN seen : seen'[k] = now
        BY <3>1, <3>3 DEF TypeOK
      <3> HIDE DEF s, n
      <3>7. QED
        BY <3>1, <3>3, <3>4, <3>5, <3>6, QuietStep
    <2>2. ASSUME NEW r \in Requests, Validate(r) PROVE IInv'
      BY <2>2, ValidateStep
    <2>3. ASSUME NEW r \in Requests, CheckJti(r) PROVE IInv'
      BY <2>3, CheckJtiStep
    <2>4. ASSUME NEW r \in Requests, Synthesize(r) PROVE IInv'
      BY <2>4, SynthesizeStep
    <2>5. ASSUME NEW r \in Requests, Reject(r) \/ MissingJti(r) PROVE IInv'
      <3>1. /\ req' = [req EXCEPT ![r].step = "refused"]
            /\ now' = now /\ seen' = seen /\ DOMAIN seen \subseteq Nonces
        BY <2>5 DEF Reject, MissingJti, IInv, TypeOK
      <3>2. "refused" \in Steps
        BY DEF Steps
      <3>3. QED
        BY <3>1, <3>2, QuietStep
    <2>6. CASE Tick
      BY <2>6, TickStep
    <2>7. CASE UNCHANGED vars
      BY <2>7 DEF vars, IInv, TypeOK, FlightInv, MarkInv, UseInv, DaInv, Passed
    <2>8. QED
      BY <2>1, <2>2, <2>3, <2>4, <2>5, <2>6, <2>7 DEF Next
  <1>3. IInv => SingleUse
    BY DEF IInv, UseInv, SingleUse, Passed
  <1>4. QED
    BY <1>1, <1>2, <1>3, PTL DEF Spec

-------------------------------------------------------------------------------
(* The store on its own. *)

(* What the store's promises rest on, with no assumption on lifetimes: the  *)
(* nonces checked are nonces, and the finitely many markers fit.            *)
StoreInv == TypeOK /\ DaInv /\ IsFiniteSet(DOMAIN seen) /\ CapacityBound

(* Recording keeps the markers finite in number and within the capacity:    *)
(* refusing n takes back the one marker that did not fit.                   *)
LEMMA RecordedFits ==
  ASSUME NEW n, n \notin DOMAIN seen, IsFiniteSet(DOMAIN seen), CapacityBound
  PROVE  IsFiniteSet(DOMAIN Recorded(n)) /\ Cardinality(DOMAIN Recorded(n)) <= Max
  <1> USE ReplayStoreAssumption
  <1> DEFINE full == Marked(seen, n)
             purged == Without(full, Lapsed(full))
  <1>1. DOMAIN full = DOMAIN seen \cup {n}
    BY DEF Marked
  <1>2. DOMAIN purged \subseteq DOMAIN full
    BY DEF Without
  <1>3. DOMAIN Without(purged, {n}) = DOMAIN purged \ {n}
    BY DEF Without
  <1>4. Recorded(n) = IF Fits(full) THEN full
                      ELSE IF Fits(purged) THEN purged
                      ELSE Without(purged, {n})
    BY DEF Recorded
  <1> HIDE DEF full, purged
  <1>5. IsFiniteSet(DOMAIN full)
    BY <1>1, FS_AddElement
  <1>6. IsFiniteSet(DOMAIN purged)
    BY <1>2, <1>5, FS_Subset
  <1>7. DOMAIN purged \ {n} \subseteq DOMAIN seen
    BY <1>1, <1>2
  <1>8. /\ IsFiniteSet(DOMAIN purged \ {n})
        /\ Cardinality(DOMAIN purged \ {n}) <= Cardinality(DOMAIN seen)
        /\ Cardinality(DOMAIN purged \ {n}) \in Nat
    BY <1>7, FS_Subset, FS_CardinalityType
  <1>9. Cardinality(DOMAIN seen) \in Nat /\ Cardinality(DOMAIN seen) <= Max /\ Max \in Nat
    BY FS_CardinalityType DEF CapacityBound
  <1>10. Cardinality(DOMAIN purged \ {n}) <= Max
    BY <1>8, <1>9
  <1>11. CASE Fits(full)
    BY <1>4, <1>5, <1>11 DEF Fits
  <1>12. CASE ~Fits(full) /\ Fits(purged)
    BY <1>4, <1>6, <1>12 DEF Fits
  <1>13. CASE ~Fits(full) /\ ~Fits(purged)
    BY <1>3, <1>4, <1>8, <1>10, <1>13
  <1>14. QED
    BY <1>11, <1>12, <1>13

(* A step that touches the store is one CheckAndAdd of a nonce. *)
LEMMA StoreStep ==
  ASSUME TypeOK, DaInv, [Next]_vars
  PROVE  \/ UNCHANGED seen
         \/ now' = now /\ \E n \in Nonces, ok \in BOOLEAN : CheckAndAdd(n, ok)
  <1> USE ReplayStoreAssumption
  <1>1. ASSUME NEW r \in Requests, CheckDaNonce(r)
        PROVE  now' = now /\ \E n \in Nonces, ok \in BOOLEAN : CheckAndAdd(n, ok)
    BY <1>1 DEF CheckDaNonce, DaInv
  <1>2. ASSUME NEW r \in Requests, CheckJti(r)
        PROVE  now' = now /\ \E n \in Nonces, ok \in BOOLEAN : CheckAndAdd(n, ok)
    <2>1. Jti[req[r].token] \in Nonces
      BY <1>2 DEF CheckJti, TypeOK
    <2>2. QED
      BY <1>2, <2>1 DEF CheckJti
  <1>3. ASSUME NEW r \in Requests, Validate(r) \/ Reject(r) \/ MissingJti(r) \/ Synthesize(r)
        PROVE  UNCHANGED seen
    BY <1>3 DEF Validate, Reject, MissingJti, Synthesize
  <1>4. CASE Tick \/ UNCHANGED vars
    BY <1>4 DEF Tick, vars
  <1>5. QED
    BY <1>1, <1>2, <1>3, <1>4 DEF Next

(* The requests keep their type, and only tokens with a DA nonce have it    *)
(* checked, whatever CheckAndAdd answers.                                   *)
LEMMA RequestStep ==
  ASSUME TypeOK, DaInv, [Next]_vars
  PROVE  /\ now' \in Nat
         /\ req' \in [Requests -> [step : Steps, token : Tokens, start : Nat, marked : Nat]]
         /\ DaInv'
  <1> USE ReplayStoreAssumption
  <1>1. ASSUME NEW r \in Requests, NEW s \in Steps, s # "da",
               req' = [req EXCEPT ![r].step = s]
        PROVE  /\ req' \in [Requests -> [step : Steps, token : Tokens, start : Nat, marked : Nat]]
               /\ DaInv'
    <2>1. /\ req' \in [Requests -> [step : Steps, token : Tokens, start : Nat, marked : Nat]]
          /\ \A p \in Requests : /\ req'[p].token = req[p].token
                                 /\ req'[p].step = "da" => req[p].step = "da"
      BY <1>1, StepOnly
    <2>2. QED
      BY <2>1 DEF DaInv
  <1>2. ASSUME NEW r \in Requests, CheckDaNonce(r)
        PROVE  \E s \in Steps : s # "da" /\ req' = [req EXCEPT ![r].step = s]
    <2>1. {"jti", "refused"} \subseteq Steps
      BY DEF Steps
    <2>2. QED
      BY <1>2, <2>1 DEF CheckDaNonce
  <1>3. ASSUME NEW r \in Requests, Reject(r) \/ MissingJti(r) \/ Synthesize(r)
        PROVE  \E s \in Steps : s # "da" /\ req' = [req EXCEPT ![r].step = s]
    BY <1>3 DEF Reject, MissingJti, Synthesize, Steps
  <1>4. ASSUME NEW r \in Requests, CheckJti(r)
        PROVE  /\ req' \in [Requests -> [step : Steps, token : Tokens, start : Nat, marked : Nat]]
               /\ DaInv'
    <2>1. PICK ok \in BOOLEAN :
            req' = [req EXCEPT ![r].step = IF ok THEN "synth" ELSE "refused", ![r].marked = now]
      BY <1>4 DEF CheckJti
    <2>2. PICK s \in Steps : s # "da" /\ req' = [req EXCEPT ![r].step = s, ![r].marked = now]
      BY <2>1 DEF Steps
    <2>3. now \in Nat /\ req \in [Requests -> [step : Steps, token : Tokens, start : Nat, marked : Nat]]
      BY DEF TypeOK
    <2> DEFINE new == [req[r] EXCEPT !.step = s, !.marked = now]
    <2>4. new \in [step : Steps, token : Tokens, start : Nat, marked : Nat] /\ new.step # "da"
      BY <2>2, <2>3
    <2>5. req' = [req EXCEPT ![r] = new]
      BY <2>2, <2>3, Zenon
    <2> HIDE DEF new
    <2>6. /\ req' \in [Requests -> [step : Steps, token : Tokens, start : Nat, marked : Nat]]
          /\ \A p \in Requests \ {r} : req'[p] = req[p]
          /\ req'[r].step # "da"
      BY <2>3, <2>4, <2>5
    <2>7. QED
      BY <2>6 DEF DaInv
  <1>5. ASSUME NEW r \in Requests, Validate(r)
        PROVE  /\ req' \in [Requests -> [step : Steps, token : Tokens, start : Nat, marked : Nat]]
               /\ DaInv'
    <2> DEFINE s == IF DaNonce[req[r].token] = NoNonce THEN "jti" ELSE "da"
    <2>1. s \in Steps /\ req[r].token \in Tokens /\ now \in Nat
      BY DEF TypeOK, Steps
    <2>2. req' = [req EXCEPT ![r].start = now, ![r].step = s]
      BY <1>5 DEF Validate
    <2>3. s = "da" => DaNonce[req[r].token] \in Nonces
      BY <2>1
    <2> HIDE DEF s
    <2>4. /\ req' \in [Requests -> [step : Steps, token : Tokens, start : Nat, marked : Nat]]
          /\ \A p \in Requests \ {r} : req'[p] = req[p]
          /\ req'[r].step = s /\ req'[r].token = req[r].token
      BY <2>1, <2>2 DEF TypeOK
    <2>5. QED
      BY <2>3, <2>4 DEF DaInv
  <1>6. CASE Tick \/ UNCHANGED vars
    BY <1>6 DEF Tick, vars, TypeOK, DaInv
  <1>7. now' \in Nat
    <2>1. ASSUME NEW r \in Requests,
                 \/ Validate(r) \/ Reject(r) \/ CheckDaNonce(r)
                 \/ CheckJti(r) \/ MissingJti(r) \/ Synthesize(r)
          PROVE  now' = now
      BY <2>1 DEF Validate, Reject, CheckDaNonce, CheckJti, MissingJti, Synthesize
    <2>2. CASE Tick \/ UNCHANGED vars
      BY <2>2 DEF Tick, vars, TypeOK
    <2>3. QED
      BY <2>1, <2>2 DEF Next, TypeOK
  <1>8. QED
    BY <1>1, <1>2, <1>3, <1>4, <1>5, <1>6, <1>7 DEF Next

(* Under any interleaving, and whatever the lifetimes, the markers fit. *)
LEMMA StoreInvInvariant == Spec => []StoreInv
  <1>1. Init => StoreInv
    <2> SUFFICES ASSUME Init PROVE StoreInv
      OBVIOUS
    <2>1. TypeOK /\ DaInv /\ DOMAIN seen = {}
      BY DEF Init, TypeOK, DaInv, Steps
    <2>2. QED
      BY <2>1, FS_EmptySet, ReplayStoreAssumption DEF StoreInv, CapacityBound
  <1>2. StoreInv /\ [Next]_vars => StoreInv'
    <2> SUFFICES ASSUME StoreInv, [Next]_vars PROVE StoreInv'
      OBVIOUS
    <2>1. TypeOK /\ DaInv /\ IsFiniteSet(DOMAIN seen) /\ CapacityBound
      BY DEF StoreInv
    <2>2. /\ now' \in Nat
          /\ req' \in [Requests -> [step : Steps, token : Tokens, start : Nat, marked : Nat]]
          /\ DaInv'
      BY <2>1, RequestStep
    <2>3. CASE UNCHANGED seen
      BY <2>1, <2>2, <2>3 DEF StoreInv, TypeOK, CapacityBound
    <2>4. CASE now' = now /\ \E n \in Nonces, ok \in BOOLEAN : CheckAndAdd(n, ok)
      <3>1. PICK n \in Nonces, ok \in BOOLEAN : CheckAndAdd(n, ok)
        BY <2>4
      <3>2. DOMAIN seen' \subseteq Nonces /\ \A k \in DOMAIN seen' : seen'[k] \in Nat
        BY <2>1, <3>1, CheckAndAddFacts DEF TypeOK
      <3>3. IsFiniteSet(DOMAIN seen') /\ Cardinality(DOMAIN seen') <= Max
        BY <2>1, <3>1, RecordedFits DEF CheckAndAdd, CapacityBound
      <3>4. QED
        BY <2>2, <3>2, <3>3 DEF StoreInv, TypeOK, CapacityBound
    <2>5. QED
      BY <2>1, <2>3, <2>4, StoreStep
  <1>3. QED
    BY <1>1, <1>2, PTL DEF Spec

(* The store never holds more than max markers (NewReplayNonceStore), for   *)
(* every capacity and any number of concurrent verifications.               *)
THEOREM CapacityBoundHolds == Spec => []CapacityBound
  <1>1. StoreInv => CapacityBound
    BY DEF StoreInv
  <1>2. QED
    BY <1>1, StoreInvInvariant, PTL

(* No step evicts a marker younger than the TTL, however full the store is. *)
THEOREM LiveMarkersKeptHolds == Spec => LiveMarkersKept
  <1>1. ASSUME StoreInv, [Next]_vars
        PROVE  \A n \in DOMAIN seen : n \notin DOMAIN seen' => seen[n] + TTL < now
    <2>1. TypeOK /\ DaInv
      BY <1>1 DEF StoreInv
    <2>2. CASE UNCHANGED seen
      BY <2>2
    <2>3. ASSUME NEW n \in Nonces, NEW ok \in BOOLEAN, CheckAndAdd(n, ok)
          PROVE  \A k \in DOMAIN seen : k \notin DOMAIN seen' => seen[k] + TTL < now
      BY <2>1, <2>3, CheckAndAddFacts
    <2>4. QED
      BY <1>1, <2>1, <2>2, <2>3, StoreStep
  <1>2. StoreInv /\ [Next]_vars
          => [\A n \in DOMAIN seen : n \notin DOMAIN seen' => seen[n] + TTL < now]_vars
    BY <1>1
  <1>3. QED
    BY <1>2, StoreInvInvariant, PTL DEF Spec, LiveMarkersKept
===============================================================================

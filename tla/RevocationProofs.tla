--------------------------- MODULE RevocationProofs ---------------------------
(***************************************************************************)
(* The safety properties of checkRevocation for any number of callers, any *)
(* clock, TTL and validity, and every deployment.                          *)
(***************************************************************************)
EXTENDS Revocation, TLAPS

Stages == {"idle", "lookup", "join", "wait", "fetch", "fallback", "store",
           "release", "close", "done"}
Entry == [resp : Response, cachedAt : 0 .. MaxTime]

TypeInv ==
  /\ now \in Times /\ revokedAt \in Times \cup {Never}
  /\ crl \in List /\ fetched \in List
  /\ ocfg \in OCSPConfig /\ rcfg \in RevocationConfig
  /\ entry \in Entry /\ got \in [Checks -> Entry]
  /\ inflight \in Checks \cup {Nobody} /\ waitsFor \in [Checks -> Checks \cup {Nobody}]
  /\ pc \in [Checks -> Stages]
  /\ verdict \in [Checks -> {"none", "ok", "refused"}] /\ at \in [Checks -> 0 .. MaxTime]
  /\ reported \in BOOLEAN /\ warned \in [Checks -> BOOLEAN]

\* OCSP is asked only where it is configured.
AskInv == \A c \in Checks : pc[c] \notin {"idle", "done"} => rcfg.ocsp

\* The lists kept and fetched say what was true when they were issued.
TrueList(list) ==
  \/ list = Nothing
  \/ /\ list.this \in 1 .. now
     /\ list.next = list.this + Validity
     /\ list.lists = RevokedBy(list.this)
ListInv == TrueList(crl) /\ TrueList(fetched)

\* So do the responses cached and received; one without nextUpdate was cached as
\* it was issued.
TrueEntry(e) ==
  \/ e = NoEntry
  \/ /\ e.resp.status = "good" => e.resp.this < revokedAt
     /\ e.resp.next # Zero => e.resp.next <= e.resp.this + Validity
     /\ e.resp.next = Zero => e.resp.this = e.cachedAt
EntryInv == TrueEntry(entry) /\ \A c \in Checks : TrueEntry(got[c])

\* Once reported, the revocation stays on the list in force; a caller that began
\* after that was turned away at once.
ReportInv ==
  /\ reported => rcfg.crl /\ rcfg.name # "other" /\ crl.lists
  /\ \A c \in Checks : warned[c] => pc[c] = "done" /\ verdict[c] = "refused"

-------------------------------------------------------------------------------
(* Types *)

\* The empty list and the empty entry are of their types, and so is what answers.
LEMMA Shapes ==
  /\ Nothing \in List /\ NoEntry \in Entry
  /\ MaxTime \in Nat /\ Validity \in Nat /\ TTL \in Nat /\ Times \subseteq Nat
  /\ MaxTime >= 2
  /\ \A s : Answer(s) \in {"ok", "refused"}
BY AuthorityAssumption, OCSPAssumption
   DEF Nothing, List, NoEntry, NoResponse, Entry, Response, Zero, Times, Answer

\* What the CRL and the fallback answer.
LEMMA Answers ==
  ASSUME TypeInv
  PROVE  /\ \A n : IsRevoked(n) = IF Expired THEN "error"
                     ELSE IF n = "same" /\ crl.lists THEN "revoked" ELSE "no"
         /\ \A n : IsRevokedCert(n) = IF Expired THEN "error"
                     ELSE IF n \in {"same", "reordered"} /\ crl.lists THEN "revoked" ELSE "no"
         /\ \A a : FallbackVerdict(a) = IF ocfg.fallback = "allow" \/
                       (ocfg.fallback = "crl" /\ ocfg.checker /\ a = "no") THEN "ok" ELSE "refused"
<1>1. ocfg.fallback \in {"allow", "deny", "crl"}
  BY DEF TypeInv, OCSPConfig
<1>2. \A n : IsRevoked(n) = IF Expired THEN "error"
                     ELSE IF n = "same" /\ crl.lists THEN "revoked" ELSE "no"
  BY DEF IsRevoked
<1>3. \A n : IsRevokedCert(n) = IF Expired THEN "error"
                     ELSE IF n \in {"same", "reordered"} /\ crl.lists THEN "revoked" ELSE "no"
  BY DEF IsRevokedCert
<1>4. \A a : FallbackVerdict(a) = IF ocfg.fallback = "allow" \/
                       (ocfg.fallback = "crl" /\ ocfg.checker /\ a = "no") THEN "ok" ELSE "refused"
  BY <1>1 DEF FallbackVerdict
<1>5. QED
  BY <1>2, <1>3, <1>4

\* Before the first check nothing is listed, cached or answered.
LEMMA InitTypeInv == Init => TypeInv
<1> SUFFICES ASSUME Init PROVE TypeInv
  OBVIOUS
<1>1. now \in Times /\ revokedAt \in Times \cup {Never}
  BY Shapes DEF Init, AuthorityInit, Times
<1>2. crl \in List /\ fetched \in List /\ ocfg \in OCSPConfig /\ rcfg \in RevocationConfig
  BY Shapes DEF Init, CRLInit, OCSPInit
<1>3. /\ entry \in Entry /\ got \in [Checks -> Entry]
      /\ inflight \in Checks \cup {Nobody} /\ waitsFor \in [Checks -> Checks \cup {Nobody}]
  BY Shapes DEF Init, OCSPInit
<1>4. /\ pc \in [Checks -> Stages]
      /\ verdict \in [Checks -> {"none", "ok", "refused"}] /\ at \in [Checks -> 0 .. MaxTime]
  BY Shapes DEF Init, OCSPInit, Stages, Zero
<1>5. QED
  BY <1>1, <1>2, <1>3, <1>4 DEF Init, TypeInv

\* Every step of a check, a refresh, a flush and the clock keeps the types.
LEMMA NextTypeInv == TypeInv /\ [Next]_vars => TypeInv'
<1> SUFFICES ASSUME TypeInv, [Next]_vars PROVE TypeInv'
  OBVIOUS
<1> USE Shapes DEF TypeInv, Stages
<1>1. ASSUME NEW c \in Checks, Begin(c) PROVE TypeInv'
  <2> DEFINE answer == IF rcfg.crl THEN IsRevokedCert(rcfg.name) ELSE "no"
  <2>1. UNCHANGED <<now, revokedAt, crlVars, ocfg, entry, inflight, waitsFor, got, rcfg>>
    BY <1>1 DEF Begin
  <2>2. pc' \in [Checks -> Stages] /\ verdict' \in [Checks -> {"none", "ok", "refused"}]
    BY <1>1 DEF Begin, Decide, Goto
  <2>3. at' \in [Checks -> 0 .. MaxTime]
    BY <1>1 DEF Begin, Decide, Zero, Times
  <2>4. reported' \in BOOLEAN
    <3>1. reported' = (reported \/ answer = "revoked")
      BY <1>1 DEF Begin
    <3>2. QED
      BY <3>1
  <2>5. warned' \in [Checks -> BOOLEAN]
    BY <1>1 DEF Begin
  <2>6. QED
    BY <2>1, <2>2, <2>3, <2>4, <2>5 DEF crlVars
<1>2. ASSUME NEW c \in Checks, CheckStep(c) PROVE TypeInv'
  <2>0. UNCHANGED <<now, revokedAt, crlVars, rcfg, reported, warned>>
    BY <1>2 DEF CheckStep
  <2>1. CASE Lookup(c)
    BY <2>0, <2>1 DEF Lookup, Decide, Goto, Zero, Times, crlVars
  <2>2. CASE Join(c)
    BY <2>0, <2>2 DEF Join, Goto, crlVars
  <2>3. CASE Wake(c)
    BY <2>0, <2>3 DEF Wake, Decide, Goto, Zero, Times, crlVars
  <2>4. CASE FetchFail(c)
    BY <2>0, <2>4 DEF FetchFail, Decide, Goto, Zero, Times, crlVars
  <2>5. CASE Receive(c)
    <3>1. PICK r \in Response :
            \/ /\ got' = [got EXCEPT ![c] = EntryOf(r)]
               /\ Decide(c, Answer(r.status)) /\ Goto(c, "store")
            \/ Goto(c, "fallback") /\ UNCHANGED <<got, verdict, at>>
      BY <2>5 DEF Receive
    <3>2. EntryOf(r) \in Entry
      BY DEF EntryOf, Entry, Times
    <3>3. got' \in [Checks -> Entry] /\ pc' \in [Checks -> Stages]
      BY <3>1, <3>2 DEF Goto
    <3>4. verdict' \in [Checks -> {"none", "ok", "refused"}] /\ at' \in [Checks -> 0 .. MaxTime]
      BY <3>1 DEF Decide, Zero, Times
    <3>5. UNCHANGED <<ocfg, entry, inflight, waitsFor>>
      BY <2>5 DEF Receive
    <3>6. QED
      BY <2>0, <3>3, <3>4, <3>5 DEF crlVars
  <2>6. CASE Store(c)
    BY <2>0, <2>6 DEF Store, Goto, crlVars
  <2>7. CASE Release(c)
    BY <2>0, <2>7 DEF Release, Goto, crlVars
  <2>8. CASE CloseChan(c)
    BY <2>0, <2>8 DEF CloseChan, Goto, crlVars
  <2>9. CASE Fallback(c, IsRevoked(rcfg.name))
    <3>1. FallbackVerdict(IsRevoked(rcfg.name)) \in {"ok", "refused"}
      BY Answers
    <3>2. AfterFallback(c) \in Stages
      BY DEF AfterFallback
    <3>3. QED
      BY <2>0, <2>9, <3>1, <3>2 DEF Fallback, Decide, Goto, Zero, Times, crlVars
  <2>10. QED
    BY <1>2, <2>1, <2>2, <2>3, <2>4, <2>5, <2>6, <2>7, <2>8, <2>9 DEF CheckStep, OCSPStep
<1>3. ASSUME RefreshStep PROVE TypeInv'
  BY <1>3 DEF RefreshStep, CRLStep, RefreshFetch, RefreshCommit, ocspVars
<1>4. ASSUME FlushCache PROVE TypeInv'
  BY <1>4 DEF FlushCache, Flush, crlVars
<1>5. ASSUME Tick PROVE TypeInv'
  BY <1>5 DEF Tick, Advance, crlVars, ocspVars, Times
<1>6. CASE UNCHANGED vars
  BY <1>6 DEF vars, crlVars, ocspVars
<1>7. QED
  BY <1>1, <1>2, <1>3, <1>4, <1>5, <1>6 DEF Next

-------------------------------------------------------------------------------
(* Coalescing *)

\* Whoever fetches is the one registered and whoever is registered is at it,
\* for any number of callers of OCSPCache.Check, flushes and failures.
THEOREM SingleFlightHolds == Spec => []SingleFlight
<1>1. Init => SingleFlight
  BY NobodyAssumption DEF Init, OCSPInit, SingleFlight
<1>2. TypeInv /\ SingleFlight /\ [Next]_vars => SingleFlight'
  <2> SUFFICES ASSUME TypeInv, SingleFlight, [Next]_vars PROVE SingleFlight'
    OBVIOUS
  <2> USE NobodyAssumption DEF TypeInv, SingleFlight
  <2>1. ASSUME NEW c \in Checks, Begin(c) PROVE SingleFlight'
    BY <2>1 DEF Begin, Goto
  <2>2. ASSUME NEW c \in Checks, CheckStep(c) PROVE SingleFlight'
    <3>1. CASE Lookup(c)
      BY <3>1 DEF Lookup, Goto
    <3>2. CASE Join(c)
      BY <3>2 DEF Join, Goto
    <3>3. CASE Wake(c)
      BY <3>3 DEF Wake, Goto
    <3>4. CASE FetchFail(c)
      BY <3>4 DEF FetchFail, Goto
    <3>5. CASE Receive(c)
      <4>1. /\ pc[c] = "fetch" /\ UNCHANGED inflight
            /\ Goto(c, "store") \/ Goto(c, "fallback")
        BY <3>5 DEF Receive
      <4>2. QED
        BY <4>1 DEF Goto
    <3>6. CASE Store(c)
      BY <3>6 DEF Store, Goto
    <3>7. CASE Release(c)
      BY <3>7 DEF Release, Goto
    <3>8. CASE CloseChan(c)
      BY <3>8 DEF CloseChan, Goto
    <3>9. CASE Fallback(c, IsRevoked(rcfg.name))
      BY <3>9 DEF Fallback, Goto, AfterFallback
    <3>10. QED
      BY <2>2, <3>1, <3>2, <3>3, <3>4, <3>5, <3>6, <3>7, <3>8, <3>9 DEF CheckStep, OCSPStep
  <2>3. CASE RefreshStep \/ FlushCache \/ Tick
    BY <2>3 DEF RefreshStep, FlushCache, Flush, Tick, ocspVars
  <2>4. CASE UNCHANGED vars
    BY <2>4 DEF vars, ocspVars
  <2>5. QED
    BY <2>1, <2>2, <2>3, <2>4 DEF Next
<1>3. QED
  BY <1>1, <1>2, InitTypeInv, NextTypeInv, PTL DEF Spec

-------------------------------------------------------------------------------
(* The lists and the responses *)

\* Statements stay true as time passes: they speak of the time they were issued.
LEMMA ListInvStep == TypeInv /\ ListInv /\ [Next]_vars => ListInv'
<1> SUFFICES ASSUME TypeInv, ListInv, [Next]_vars PROVE ListInv'
  OBVIOUS
<1> USE Shapes DEF ListInv, TrueList, RevokedBy
<1>1. CASE RefreshStep
  <2>1. UNCHANGED <<now, revokedAt>>
    BY <1>1 DEF RefreshStep
  <2>2. CASE RefreshFetch
    BY <2>1, <2>2 DEF RefreshFetch, Served
  <2>3. CASE RefreshCommit
    BY <2>1, <2>3 DEF RefreshCommit
  <2>4. QED
    BY <1>1, <2>2, <2>3 DEF RefreshStep, CRLStep
<1>2. CASE Tick
  <2>1. now \in Nat /\ now' = now + 1 /\ UNCHANGED <<revokedAt, crl, fetched>>
    BY <1>2 DEF Tick, Advance, crlVars, TypeInv
  <2>2. QED
    BY <2>1
<1>3. CASE FlushCache \/ UNCHANGED vars \/ \E c \in Checks : Begin(c) \/ CheckStep(c)
  BY <1>3 DEF FlushCache, vars, Begin, CheckStep, crlVars
<1>4. QED
  BY <1>1, <1>2, <1>3 DEF Next

\* Every response cached or received is one a responder may have given.
LEMMA EntryInvStep ==
  ASSUME ~OldWithoutNext
  PROVE  TypeInv /\ EntryInv /\ [Next]_vars => EntryInv'
<1> SUFFICES ASSUME TypeInv, EntryInv, [Next]_vars PROVE EntryInv'
  OBVIOUS
<1>1. CASE \E c \in Checks : Receive(c) /\ UNCHANGED revokedAt
  <2>1. PICK c \in Checks : Receive(c) /\ UNCHANGED revokedAt
    BY <1>1
  <2>2. PICK r \in Response :
          /\ Offered(r)
          /\ got' = [got EXCEPT ![c] = EntryOf(r)] \/ got' = got
    BY <2>1 DEF Receive
  <2>3. TrueEntry(EntryOf(r))
    <3>1. r.this \in Nat /\ revokedAt \in Nat /\ r.next \in Nat /\ now \in Nat
      BY <2>2, Shapes DEF Response, TypeInv, Never, Zero, Times
    <3>2. r.status = "good" => ~RevokedBy(r.this)
      BY <2>2 DEF Offered
    <3>3. r.next # Zero => r.next <= r.this + Validity
      BY <2>2, <3>1, Shapes DEF Offered
    <3>4. r.next = Zero => r.this = now
      BY <2>2, <3>1, Shapes DEF Offered, Zero
    <3>5. QED
      BY <3>1, <3>2, <3>3, <3>4 DEF TrueEntry, EntryOf, RevokedBy
  <2>4. UNCHANGED entry
    BY <2>1 DEF Receive
  <2>5. QED
    BY <2>1, <2>2, <2>3, <2>4 DEF EntryInv, TrueEntry, TypeInv
<1>2. CASE \E c \in Checks : Store(c) /\ UNCHANGED revokedAt
  BY <1>2 DEF Store, EntryInv, TrueEntry, TypeInv
<1>3. CASE FlushCache
  BY <1>3 DEF FlushCache, Flush, EntryInv, TrueEntry
<1>4. CASE UNCHANGED <<entry, got, revokedAt>>
  BY <1>4 DEF EntryInv, TrueEntry
<1>5. QED
  <2>1. ASSUME NEW c \in Checks, CheckStep(c)
        PROVE  \/ (Receive(c) \/ Store(c)) /\ UNCHANGED revokedAt
               \/ UNCHANGED <<entry, got, revokedAt>>
    BY <2>1 DEF CheckStep, OCSPStep, Lookup, Join, Wake, FetchFail, Release, CloseChan, Fallback
  <2>2. ASSUME NEW c \in Checks, Begin(c) PROVE UNCHANGED <<entry, got, revokedAt>>
    BY <2>2 DEF Begin
  <2>3. RefreshStep \/ Tick \/ UNCHANGED vars => UNCHANGED <<entry, got, revokedAt>>
    BY DEF RefreshStep, Tick, vars, ocspVars
  <2>4. QED
    BY <1>1, <1>2, <1>3, <1>4, <2>1, <2>2, <2>3 DEF Next

-------------------------------------------------------------------------------
(* No way back *)

\* A certificate that one caller was told is revoked is never accepted by a check
\* that begins later, for any interleaving of refreshes with the checks.
THEOREM NeverUnrevokedHolds == Spec => []NeverUnrevoked
<1>1. Init => ListInv /\ ReportInv
  BY DEF Init, CRLInit, ListInv, TrueList, ReportInv
<1>2. TypeInv /\ ListInv /\ ReportInv /\ [Next]_vars => ReportInv'
  <2> SUFFICES ASSUME TypeInv, ListInv, ReportInv, [Next]_vars PROVE ReportInv'
    OBVIOUS
  <2>1. ASSUME NEW c \in Checks, Begin(c) PROVE ReportInv'
    <3> DEFINE answer == IF rcfg.crl THEN IsRevokedCert(rcfg.name) ELSE "no"
    <3>1. /\ UNCHANGED <<rcfg, crl>>
          /\ warned' = [warned EXCEPT ![c] = reported]
          /\ reported' = (reported \/ answer = "revoked")
          /\ answer # "no" => Decide(c, "refused") /\ Goto(c, "done")
          /\ \A d \in Checks \ {c} : pc'[d] = pc[d] /\ verdict'[d] = verdict[d]
      BY <2>1 DEF Begin, crlVars, Decide, Goto, TypeInv
    <3>2. rcfg.name \in {"same", "reordered", "other"}
      BY DEF TypeInv, RevocationConfig
    <3>3. answer = "revoked" => rcfg.crl /\ rcfg.name # "other" /\ crl.lists
      BY <3>2, Answers
    <3>4. reported => answer # "no"
      BY <3>2, Answers DEF ReportInv
    <3>5. reported' => rcfg'.crl /\ rcfg'.name # "other" /\ crl'.lists
      BY <3>1, <3>3 DEF ReportInv
    <3>6. ASSUME NEW d \in Checks, warned'[d] PROVE pc'[d] = "done" /\ verdict'[d] = "refused"
      <4>1. CASE d = c
        BY <3>1, <3>4, <3>6, <4>1 DEF Decide, Goto, TypeInv
      <4>2. CASE d # c
        BY <3>1, <3>6, <4>2 DEF ReportInv, TypeInv
      <4>3. QED
        BY <4>1, <4>2
    <3>7. QED
      BY <3>5, <3>6 DEF ReportInv
  <2>2. ASSUME NEW c \in Checks, CheckStep(c) PROVE ReportInv'
    <3>1. pc[c] # "done" /\ \A d \in Checks \ {c} : pc'[d] = pc[d] /\ verdict'[d] = verdict[d]
      <4>1. CASE Receive(c)
        <5>1. pc[c] = "fetch" /\ (Goto(c, "store") \/ Goto(c, "fallback"))
          BY <4>1 DEF Receive
        <5>2. UNCHANGED verdict \/ \E v \in {"ok", "refused"} : Decide(c, v)
          BY <4>1, Shapes DEF Receive
        <5>3. QED
          BY <5>1, <5>2 DEF Goto, Decide, TypeInv
      <4>2. CASE Lookup(c) \/ Join(c) \/ Wake(c) \/ FetchFail(c) \/ Store(c) \/ Release(c)
                 \/ CloseChan(c) \/ Fallback(c, IsRevoked(rcfg.name))
        BY <4>2 DEF TypeInv, Lookup, Join, Wake, FetchFail, Store, Release, CloseChan, Fallback,
                    Goto, Decide
      <4>3. QED
        BY <2>2, <4>1, <4>2 DEF CheckStep, OCSPStep
    <3>2. QED
      BY <2>2, <3>1 DEF CheckStep, ReportInv, crlVars
  <2>3. CASE RefreshStep
    <3>1. UNCHANGED <<reported, rcfg, warned, pc, verdict, revokedAt>>
      BY <2>3 DEF RefreshStep, ocspVars
    <3>2. crl.lists => crl'.lists
      <4>1. SUFFICES ASSUME RefreshCommit, crl.lists, Newer(fetched), fetched # Nothing
                     PROVE  fetched.lists
        BY <2>3 DEF RefreshStep, CRLStep, RefreshFetch, RefreshCommit
      <4>2. now \in Nat /\ revokedAt \in Nat
        BY Shapes DEF TypeInv, Never
      <4>3. crl # Nothing
        BY <4>1 DEF Nothing
      <4>4. crl.this \in 1 .. now /\ (crl.lists = (revokedAt <= crl.this))
        BY <4>3 DEF ListInv, TrueList, RevokedBy
      <4>5. fetched.this \in 1 .. now /\ (fetched.lists = (revokedAt <= fetched.this))
        BY <4>1 DEF ListInv, TrueList, RevokedBy
      <4>6. fetched.this > crl.this
        BY <4>1, <4>2, <4>4 DEF Newer, Zero
      <4>7. revokedAt <= crl.this
        BY <4>1, <4>4
      <4>8. revokedAt <= fetched.this
        BY <4>2, <4>4, <4>5, <4>6, <4>7
      <4>9. QED
        BY <4>5, <4>8
    <3>3. QED
      BY <3>1, <3>2 DEF ReportInv
  <2>4. CASE FlushCache \/ Tick \/ UNCHANGED vars
    BY <2>4 DEF FlushCache, Flush, Tick, vars, crlVars, ocspVars, ReportInv
  <2>5. QED
    BY <2>1, <2>2, <2>3, <2>4 DEF Next
<1>3. TypeInv /\ ReportInv => NeverUnrevoked
  BY DEF ReportInv, NeverUnrevoked
<1>4. QED
  BY <1>1, <1>2, <1>3, InitTypeInv, NextTypeInv, ListInvStep, PTL DEF Spec

-------------------------------------------------------------------------------
(* Bounded staleness *)

\* The bound, as a number.
LEMMA LongestBound == Longest \in Nat /\ Longest >= TTL /\ Longest >= Validity /\ Longest >= 1
BY AuthorityAssumption, OCSPAssumption DEF Longest

\* A fresh response that says good is younger than the bound.
LEMMA FreshEntry ==
  ASSUME TypeInv, NEW e \in Entry, TrueEntry(e), e # NoEntry, ResponseFresh(e),
         Answer(e.resp.status) = "ok"
  PROVE  now < revokedAt + Longest
<1>1. /\ now \in Nat /\ revokedAt \in Nat /\ e.cachedAt \in Nat
      /\ e.resp.this \in Nat /\ e.resp.next \in Nat
  <2>1. now \in Nat /\ revokedAt \in Nat
    BY Shapes DEF TypeInv, Never
  <2>2. e.cachedAt \in 0 .. MaxTime /\ e.resp \in Response
    BY DEF Entry
  <2>3. e.resp.this \in {Zero} \cup Times /\ e.resp.next \in 0 .. MaxTime + Validity
    BY <2>2 DEF Response
  <2>4. e.resp.this \in Nat
    BY <2>3, AuthorityAssumption DEF Zero, Times
  <2>5. e.cachedAt \in Nat /\ e.resp.next \in Nat
    <3>1. MaxTime \in Nat /\ Validity \in Nat
      BY Shapes
    <3>2. QED
      BY <2>2, <2>3, <3>1
  <2>6. QED
    BY <2>1, <2>4, <2>5
<1>2. e.resp.this < revokedAt
  BY DEF Answer, TrueEntry
<1>3. CASE e.resp.next # Zero
  <2>1. now < e.resp.next /\ e.resp.next <= e.resp.this + Validity
    BY <1>3 DEF ResponseFresh, TrueEntry
  <2>2. QED
    BY <1>1, <1>2, <2>1, LongestBound, Shapes
<1>4. CASE e.resp.next = Zero
  <2>1. now < e.cachedAt + TTL /\ e.resp.this = e.cachedAt
    BY <1>4 DEF ResponseFresh, TrueEntry
  <2>2. QED
    BY <1>1, <1>2, <2>1, LongestBound, Shapes
<1>5. QED
  BY <1>3, <1>4

\* A list that has not run out and does not name the certificate is, too.
LEMMA FreshList ==
  ASSUME TypeInv, ListInv, ~Expired, ~crl.lists
  PROVE  now < revokedAt + Longest
<1>1. now \in Nat /\ now >= 1 /\ revokedAt \in Nat /\ crl.this \in Nat /\ crl.next \in Nat
  BY Shapes DEF TypeInv, Never, List, Zero, Times
<1>2. now <= crl.next
  BY <1>1 DEF Expired
<1>3. crl # Nothing
  BY <1>1, <1>2 DEF Nothing, Zero
<1>4. crl.next = crl.this + Validity /\ crl.lists = (revokedAt <= crl.this)
  BY <1>3 DEF ListInv, TrueList, RevokedBy
<1>5. ~(revokedAt <= crl.this)
  BY <1>4
<1>6. QED
  BY <1>1, <1>2, <1>4, <1>5, LongestBound, Shapes

\* Who is accepted, and when.
Accepts(c) ==
  verdict[c] = "ok" /\ (rcfg.crl \/ rcfg.ocsp) /\ (rcfg.ocsp => ocfg.fallback # "allow") /\ Covered

\* A step that answers none but c, and c only when the bound is met, keeps it.
LEMMA EffectStep ==
  ASSUME TypeInv, TypeInv', RevocationTakesEffect, UNCHANGED <<revokedAt, rcfg, ocfg>>,
         \A d \in Checks : \/ verdict'[d] = verdict[d] /\ at'[d] = at[d]
                           \/ Accepts(d)' => at'[d] < revokedAt + Longest
  PROVE  RevocationTakesEffect'
<1> SUFFICES ASSUME NEW d \in Checks, Accepts(d)' PROVE at'[d] < revokedAt' + Longest
  BY DEF RevocationTakesEffect, Accepts, Longest
<1>1. CASE verdict'[d] = verdict[d] /\ at'[d] = at[d]
  <2>1. Accepts(d)
    BY <1>1 DEF Accepts, Covered
  <2>2. QED
    BY <1>1, <2>1 DEF RevocationTakesEffect, Accepts
<1>2. QED
  BY <1>1

\* Unless the deployment chose to allow, no check accepts the certificate once its
\* revocation is older than the longest life of a statement, whoever fetched,
\* waited, flushed or refreshed meanwhile, provided responders do not repeat old
\* responses without nextUpdate.
THEOREM RevocationTakesEffectHolds ==
  ASSUME ~OldWithoutNext
  PROVE  Spec => []RevocationTakesEffect
<1> DEFINE EInv == AskInv /\ ListInv /\ EntryInv /\ RevocationTakesEffect
<1>1. Init => EInv
  BY DEF Init, OCSPInit, CRLInit, AskInv, ListInv, TrueList, EntryInv, TrueEntry,
         RevocationTakesEffect
<1>2. TypeInv /\ AskInv /\ [Next]_vars => AskInv'
  <2> SUFFICES ASSUME TypeInv, AskInv, [Next]_vars PROVE AskInv'
    OBVIOUS
  <2>1. ASSUME NEW c \in Checks, Begin(c) PROVE AskInv'
    BY <2>1 DEF Begin, Goto, AskInv, TypeInv
  <2>2. ASSUME NEW c \in Checks, CheckStep(c) PROVE AskInv'
    <3>1. pc[c] \notin {"idle", "done"} /\ UNCHANGED rcfg
      BY <2>2 DEF CheckStep, OCSPStep, Lookup, Join, Wake, FetchFail, Receive, Store, Release,
                  CloseChan, Fallback
    <3>2. rcfg.ocsp
      BY <3>1 DEF AskInv
    <3>3. QED
      BY <3>1, <3>2 DEF AskInv
  <2>3. CASE RefreshStep \/ FlushCache \/ Tick \/ UNCHANGED vars
    BY <2>3 DEF RefreshStep, FlushCache, Flush, Tick, vars, ocspVars, AskInv
  <2>4. QED
    BY <2>1, <2>2, <2>3 DEF Next
<1>3. TypeInv /\ TypeInv' /\ EInv /\ [Next]_vars => RevocationTakesEffect'
  <2> SUFFICES ASSUME TypeInv, TypeInv', EInv, [Next]_vars PROVE RevocationTakesEffect'
    OBVIOUS
  <2>1. ASSUME NEW c \in Checks, Begin(c) PROVE RevocationTakesEffect'
    <3> DEFINE answer == IF rcfg.crl THEN IsRevokedCert(rcfg.name) ELSE "no"
    <3>1. /\ UNCHANGED <<now, revokedAt, rcfg, ocfg>>
          /\ \A d \in Checks \ {c} : verdict'[d] = verdict[d] /\ at'[d] = at[d]
          /\ verdict'[c] = "ok" => answer = "no" /\ ~rcfg.ocsp /\ at'[c] = now
      BY <2>1 DEF Begin, Decide, TypeInv
    <3>2. ASSUME Accepts(c)' PROVE at'[c] < revokedAt + Longest
      <4>1. rcfg.crl /\ rcfg.name # "other" /\ answer = "no" /\ at'[c] = now
        BY <3>1, <3>2 DEF Accepts, Covered
      <4>2. rcfg.name \in {"same", "reordered", "other"}
        BY DEF TypeInv, RevocationConfig
      <4>3. ~Expired /\ ~crl.lists
        BY <4>1, <4>2, Answers
      <4>4. QED
        BY <4>1, <4>3, FreshList
    <3>3. QED
      BY <3>1, <3>2, EffectStep
  <2>2. ASSUME NEW c \in Checks, CheckStep(c) PROVE RevocationTakesEffect'
    <3>0. UNCHANGED <<now, revokedAt, crl, rcfg, ocfg>>
      BY <2>2 DEF CheckStep, crlVars, OCSPStep, Lookup, Join, Wake, FetchFail, Receive, Store,
                  Release, CloseChan, Fallback
    <3>1. CASE Lookup(c) \/ Wake(c)
      <4>1. /\ \A d \in Checks \ {c} : verdict'[d] = verdict[d] /\ at'[d] = at[d]
            /\ \/ UNCHANGED <<verdict, at>>
               \/ /\ entry # NoEntry /\ ResponseFresh(entry)
                  /\ Decide(c, Answer(entry.resp.status))
        BY <3>1 DEF Lookup, Wake, Decide, TypeInv
      <4>2. ASSUME entry # NoEntry, ResponseFresh(entry), Decide(c, Answer(entry.resp.status)),
                   Accepts(c)'
            PROVE  at'[c] < revokedAt + Longest
        <5>1. Answer(entry.resp.status) = "ok" /\ at'[c] = now
          BY <4>2 DEF Accepts, Decide, TypeInv
        <5>2. entry \in Entry /\ TrueEntry(entry)
          BY DEF TypeInv, EntryInv
        <5>3. QED
          BY <4>2, <5>1, <5>2, FreshEntry
      <4>3. QED
        BY <3>0, <4>1, <4>2, EffectStep
    <3>2. CASE Receive(c)
      <4>1. PICK r \in Response :
              \/ UNCHANGED <<verdict, at>>
              \/ /\ ResponseFresh(EntryOf(r)) /\ got' = [got EXCEPT ![c] = EntryOf(r)]
                 /\ Decide(c, Answer(r.status))
        BY <3>2 DEF Receive
      <4>2. \A d \in Checks \ {c} : verdict'[d] = verdict[d] /\ at'[d] = at[d]
        BY <4>1 DEF Decide, TypeInv
      <4>3. ASSUME ResponseFresh(EntryOf(r)), got' = [got EXCEPT ![c] = EntryOf(r)],
                   Decide(c, Answer(r.status)), Accepts(c)'
            PROVE  at'[c] < revokedAt + Longest
        <5>1. Answer(r.status) = "ok" /\ at'[c] = now
          BY <4>3 DEF Accepts, Decide, TypeInv
        <5>2. EntryInv'
          BY EntryInvStep
        <5>3. got'[c] = EntryOf(r) /\ got'[c] \in Entry
          BY <4>3 DEF TypeInv
        <5>4. EntryOf(r) \in Entry /\ TrueEntry(EntryOf(r))
          BY <3>0, <5>2, <5>3 DEF EntryInv, TrueEntry
        <5>5. EntryOf(r) # NoEntry
          BY <5>1 DEF EntryOf, NoEntry, NoResponse, Answer
        <5>6. EntryOf(r).resp = r
          BY DEF EntryOf
        <5>7. QED
          BY <4>3, <5>1, <5>4, <5>5, <5>6, FreshEntry
      <4>4. QED
        BY <3>0, <4>1, <4>2, <4>3, EffectStep
    <3>3. CASE Fallback(c, IsRevoked(rcfg.name))
      <4>1. Decide(c, FallbackVerdict(IsRevoked(rcfg.name))) /\ rcfg.ocsp
        BY <3>3 DEF Fallback, AskInv
      <4>2. \A d \in Checks \ {c} : verdict'[d] = verdict[d] /\ at'[d] = at[d]
        BY <4>1 DEF Decide, TypeInv
      <4>3. ASSUME Accepts(c)' PROVE at'[c] < revokedAt + Longest
        <5>1. FallbackVerdict(IsRevoked(rcfg.name)) = "ok" /\ at'[c] = now
          BY <4>1, <4>3 DEF Accepts, Decide, TypeInv
        <5>2. ocfg.fallback # "allow" /\ Covered
          BY <3>0, <4>1, <4>3 DEF Accepts, Covered
        <5>3. ocfg.fallback = "crl" /\ ocfg.checker /\ IsRevoked(rcfg.name) = "no"
          BY <5>1, <5>2, Answers
        <5>4. rcfg.name = "same"
          BY <4>1, <5>2, <5>3 DEF Covered
        <5>5. ~Expired /\ ~crl.lists
          BY <5>3, <5>4, Answers
        <5>6. QED
          BY <5>1, <5>5, FreshList
      <4>4. QED
        BY <3>0, <4>2, <4>3, EffectStep
    <3>4. CASE FetchFail(c)
      <4>1. /\ \A d \in Checks \ {c} : verdict'[d] = verdict[d] /\ at'[d] = at[d]
            /\ UNCHANGED <<verdict, at>> \/ verdict'[c] = "refused"
        BY <3>4 DEF FetchFail, Decide, TypeInv
      <4>2. QED
        BY <3>0, <4>1, EffectStep DEF Accepts
    <3>5. CASE Join(c) \/ Store(c) \/ Release(c) \/ CloseChan(c)
      <4>1. UNCHANGED <<verdict, at>>
        BY <3>5 DEF Join, Store, Release, CloseChan
      <4>2. QED
        BY <3>0, <4>1, EffectStep
    <3>6. QED
      BY <2>2, <3>1, <3>2, <3>3, <3>4, <3>5 DEF CheckStep, OCSPStep
  <2>3. CASE RefreshStep \/ FlushCache \/ Tick \/ UNCHANGED vars
    <3>1. UNCHANGED <<verdict, at, revokedAt, rcfg, ocfg>>
      BY <2>3 DEF RefreshStep, FlushCache, Flush, Tick, vars, ocspVars
    <3>2. QED
      BY <3>1, EffectStep
  <2>4. QED
    BY <2>1, <2>2, <2>3 DEF Next
<1>4. TypeInv /\ EInv /\ [Next]_vars => TypeInv' /\ EInv'
  BY <1>2, <1>3, NextTypeInv, ListInvStep, EntryInvStep
<1>5. EInv => RevocationTakesEffect
  OBVIOUS
<1> HIDE DEF EInv
<1>6. QED
  BY <1>1, <1>4, <1>5, InitTypeInv, PTL DEF Spec
===============================================================================

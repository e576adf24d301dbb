------------------------------- MODULE OCSPCache -------------------------------
(***************************************************************************)
(* ocsp.go: OCSPCache.Check by concurrent callers for one certificate (one *)
(* key of entries and inflight: keys are independent), the coalescing of   *)
(* their requests, and Flush.  A critical section under mu or inflightMu   *)
(* is one step; time passes and others run between the steps.              *)
(***************************************************************************)
EXTENDS Authority

CONSTANTS
  Checks,        \* the callers
  TTL,           \* OCSPCache.ttl
  OldWithoutNext \* may a responder repeat an old response without nextUpdate?

ASSUME OCSPAssumption == TTL \in Nat \ {0} /\ OldWithoutNext \in BOOLEAN

\* What the certificate carries and how the cache is configured.
OCSPConfig == [url : BOOLEAN, issuer : BOOLEAN, fallback : {"allow", "deny", "crl"},
               checker : BOOLEAN]

Response == [status : {"good", "revoked", "unknown"}, this : {Zero} \cup Times,
             next : 0 .. MaxTime + Validity]

NoResponse == [status |-> "unknown", this |-> Zero, next |-> Zero]
NoEntry == [resp |-> NoResponse, cachedAt |-> Zero]

VARIABLES
  ocfg,      \* the configuration, fixed for a behaviour
  entry,     \* entries[key], or NoEntry
  inflight,  \* the caller whose channel is in inflight[key], or Nobody
  pc,        \* pc[c]: where c is in Check
  waitsFor,  \* waitsFor[c]: whose open channel c receives from
  got,       \* got[c]: the entry c built from a response
  verdict,   \* verdict[c]: what Check returns (nil is "ok")
  at         \* at[c]: when it was accepted

Nobody == "nobody"

ASSUME NobodyAssumption == Nobody \notin Checks

ocspVars == <<ocfg, entry, inflight, pc, waitsFor, got, verdict, at>>

OCSPInit ==
  /\ ocfg \in OCSPConfig
  /\ entry = NoEntry
  /\ inflight = Nobody
  /\ pc = [c \in Checks |-> "idle"]
  /\ waitsFor = [c \in Checks |-> Nobody]
  /\ got = [c \in Checks |-> NoEntry]
  /\ verdict = [c \in Checks |-> "none"]
  /\ at = [c \in Checks |-> Zero]

Goto(c, stage) == pc' = [pc EXCEPT ![c] = stage]

Decide(c, v) ==
  /\ verdict' = [verdict EXCEPT ![c] = v]
  /\ at' = [at EXCEPT ![c] = IF v = "ok" THEN now ELSE Zero]

\* The switch on an entry's status.
Answer(status) == IF status = "good" THEN "ok" ELSE "refused"

\* responseFresh: begun, and before its nextUpdate or, without one, within the
\* TTL of its arrival.
ResponseFresh(e) ==
  /\ e.resp.this # Zero => now >= e.resp.this
  /\ IF e.resp.next # Zero THEN now < e.resp.next ELSE now < e.cachedAt + TTL

\* A certificate without a responder goes to the fallback; a usable entry answers.
Lookup(c) ==
  /\ pc[c] = "lookup"
  /\ \/ /\ ~ocfg.url
        /\ Goto(c, "fallback")
        /\ UNCHANGED <<verdict, at>>
     \/ /\ ocfg.url
        /\ entry # NoEntry /\ now - entry.cachedAt < TTL /\ ResponseFresh(entry)
        /\ Decide(c, Answer(entry.resp.status))
        /\ Goto(c, "done")
     \/ /\ ocfg.url
        /\ ~(entry # NoEntry /\ now - entry.cachedAt < TTL /\ ResponseFresh(entry))
        /\ Goto(c, "join")
        /\ UNCHANGED <<verdict, at>>
  /\ UNCHANGED <<ocfg, entry, inflight, waitsFor, got>>

\* Plausible bug: the check and the registration are not one step.
MutantJoin(c) ==
  /\ pc[c] = "join"
  /\ inflight' = c
  /\ Goto(c, "fetch")
  /\ UNCHANGED <<ocfg, entry, waitsFor, got, verdict, at>>

\* Under inflightMu: wait for the fetcher there is, or become it.
Join(c) ==
  /\ pc[c] = "join"
  /\ \/ /\ inflight # Nobody
        /\ waitsFor' = [waitsFor EXCEPT ![c] = inflight]
        /\ Goto(c, "wait")
        /\ UNCHANGED inflight
     \/ /\ inflight = Nobody
        /\ inflight' = c
        /\ Goto(c, "fetch")
        /\ UNCHANGED waitsFor
  /\ UNCHANGED <<ocfg, entry, got, verdict, at>>

\* The channel is closed: the cache is read again, without the TTL this time.
Wake(c) ==
  /\ pc[c] = "wait"
  /\ waitsFor[c] = Nobody
  /\ \/ /\ entry # NoEntry /\ ResponseFresh(entry)
        /\ Decide(c, Answer(entry.resp.status))
        /\ Goto(c, "done")
     \/ /\ ~(entry # NoEntry /\ ResponseFresh(entry))
        /\ Goto(c, "fallback")
        /\ UNCHANGED <<verdict, at>>
  /\ UNCHANGED <<ocfg, entry, inflight, waitsFor, got>>

\* A response a responder may give (external): true when it was issued.  One
\* without nextUpdate is issued on the spot unless OldWithoutNext.
Offered(r) ==
  /\ r.this \in 1 .. now
  /\ IF r.status = "unknown" THEN r.this = now
                             ELSE (r.status = "revoked") = RevokedBy(r.this)
  /\ \/ r.next \in r.this + 1 .. r.this + Validity
     \/ r.next = Zero /\ (r.this = now \/ OldWithoutNext)

\* No issuer, no answer, or one that cannot be read: the fallback decides.  A
\* request that cannot be built is an error at once.
FetchFail(c) ==
  /\ pc[c] = "fetch"
  /\ \/ /\ Goto(c, "fallback")
        /\ UNCHANGED <<verdict, at>>
     \/ /\ ocfg.issuer
        /\ Decide(c, "refused")
        /\ Goto(c, "release")
  /\ UNCHANGED <<ocfg, entry, inflight, waitsFor, got>>

EntryOf(r) == [resp |-> r, cachedAt |-> now]

\* A response arrives and is examined: outside its window it is not used.
Receive(c) ==
  /\ pc[c] = "fetch"
  /\ ocfg.issuer
  /\ \E r \in {x \in Response : Offered(x)} :
       IF ResponseFresh(EntryOf(r))
         THEN /\ got' = [got EXCEPT ![c] = EntryOf(r)]
              /\ Decide(c, Answer(r.status))
              /\ Goto(c, "store")
         ELSE /\ Goto(c, "fallback")
              /\ UNCHANGED <<got, verdict, at>>
  /\ UNCHANGED <<ocfg, entry, inflight, waitsFor>>

Store(c) ==
  /\ pc[c] = "store"
  /\ entry' = got[c]
  /\ got' = [got EXCEPT ![c] = NoEntry]
  /\ Goto(c, "release")
  /\ UNCHANGED <<ocfg, inflight, waitsFor, verdict, at>>

\* Plausible bug: only the path that stored an entry wakes the waiters.
MutantAfterFallback(c) == "done"

\* The fetcher runs its deferred function, any other caller just returns.
AfterFallback(c) == IF inflight = c THEN "release" ELSE "done"

\* fallbackErr, given what the CRL says.
FallbackVerdict(crlAnswer) ==
  CASE ocfg.fallback = "allow" -> "ok"
    [] ocfg.fallback = "crl" -> IF ocfg.checker /\ crlAnswer = "no" THEN "ok" ELSE "refused"
    [] ocfg.fallback = "deny" -> "refused"

Fallback(c, crlAnswer) ==
  /\ pc[c] = "fallback"
  /\ Decide(c, FallbackVerdict(crlAnswer))
  /\ Goto(c, AfterFallback(c))
  /\ UNCHANGED <<ocfg, entry, inflight, waitsFor, got>>

\* The deferred function: first the registration goes, then the channel closes.
Release(c) ==
  /\ pc[c] = "release"
  /\ inflight' = Nobody
  /\ Goto(c, "close")
  /\ UNCHANGED <<ocfg, entry, waitsFor, got, verdict, at>>

CloseChan(c) ==
  /\ pc[c] = "close"
  /\ waitsFor' = [w \in Checks |-> IF waitsFor[w] = c THEN Nobody ELSE waitsFor[w]]
  /\ Goto(c, "done")
  /\ UNCHANGED <<ocfg, entry, inflight, got, verdict, at>>

Flush ==
  /\ entry # NoEntry
  /\ entry' = NoEntry
  /\ UNCHANGED <<ocfg, inflight, pc, waitsFor, got, verdict, at>>

OCSPStep(c) ==
  \/ Lookup(c) \/ Join(c) \/ Wake(c) \/ FetchFail(c) \/ Receive(c) \/ Store(c)
  \/ Release(c) \/ CloseChan(c)
===============================================================================

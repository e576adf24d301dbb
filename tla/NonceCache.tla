------------------------------ MODULE NonceCache ------------------------------
(***************************************************************************)
(* The DA nonce cache (nonce_cache.go) shared by all admissions, with its  *)
(* background cleanup goroutine.  CheckAndAdd is one sync.Map operation;   *)
(* cleanup reads its deadline once and then visits the keys one by one,    *)
(* so admissions run between two of its deletions.                         *)
(***************************************************************************)
EXTENDS Naturals

CONSTANTS
  Certs,       \* certificates; a certificate is its scope (issuer/serial)
  DANonces,    \* DA nonces
  NonceOf,     \* [Certs -> DANonces]: the DA nonce inside each certificate
  NotBefore,   \* [Certs -> Nat]
  NotAfter,    \* [Certs -> Nat]
  Retention,   \* cleanup's 24h
  MaxTime      \* bound on the clock

ASSUME NonceCacheAssumption ==
  /\ NonceOf \in [Certs -> DANonces]
  /\ NotBefore \in [Certs -> Nat]
  /\ NotAfter \in [Certs -> Nat]
  /\ Retention \in Nat
  /\ MaxTime \in Nat

VARIABLES
  now,       \* the clock
  m,         \* the map: nonce -> [scope, seen]
  stopped,   \* Stop has closed nc.done
  sweep,     \* cleanup in progress: its deadline has been read
  deadline,  \* entries seen before this are deleted by the current sweep
  todo,      \* keys the current sweep has not visited yet
  allowed,   \* history: certificates whose nonce was allowed
  refused    \* history: certificates whose last check was refused

cacheVars == <<now, m, stopped, sweep, deadline, todo, allowed, refused>>

CacheInit ==
  /\ now = 0
  /\ m = [n \in {} |-> 0]
  /\ stopped = FALSE
  /\ sweep = FALSE
  /\ deadline = 0
  /\ todo = {}
  /\ allowed = {}
  /\ refused = {}

Valid(c) == NotBefore[c] <= now /\ now <= NotAfter[c]

(* A faulty CheckAndAdd that overwrites instead of LoadOrStore. *)
MutantCheckAndAdd(c) ==
  /\ Valid(c)
  /\ m' = [k \in DOMAIN m \cup {NonceOf[c]} |->
             IF k = NonceOf[c] THEN [scope |-> c, seen |-> now] ELSE m[k]]
  /\ allowed' = allowed \cup {c}
  /\ UNCHANGED <<now, stopped, sweep, deadline, todo, refused>>

(* CheckAndAdd(scope, nonce) by an admission whose certificate is in its    *)
(* validity window: the first scope owns the nonce, it may reuse it without *)
(* bound, another scope is refused.                                         *)
CheckAndAdd(c) ==
  LET n == NonceOf[c] IN
  /\ Valid(c)
  /\ \/ /\ n \notin DOMAIN m
        /\ m' = [k \in DOMAIN m \cup {n} |->
                   IF k = n THEN [scope |-> c, seen |-> now] ELSE m[k]]
        /\ allowed' = allowed \cup {c}
        /\ refused' = refused \ {c}
     \/ /\ n \in DOMAIN m
        /\ m[n].scope = c
        /\ allowed' = allowed \cup {c}
        /\ refused' = refused \ {c}
        /\ UNCHANGED m
     \/ /\ n \in DOMAIN m
        /\ m[n].scope # c
        /\ refused' = refused \cup {c}
        /\ UNCHANGED <<m, allowed>>
  /\ UNCHANGED <<now, stopped, sweep, deadline, todo>>

(* The hourly tick: cleanup computes its deadline and starts to range. *)
SweepStart ==
  /\ ~stopped
  /\ ~sweep
  /\ now >= Retention
  /\ sweep' = TRUE
  /\ deadline' = now - Retention
  /\ todo' = DOMAIN m
  /\ UNCHANGED <<now, m, stopped, allowed, refused>>

(* A faulty sweep that deletes entries at or after its deadline as well. *)
MutantSweepKey(n) ==
  /\ sweep
  /\ n \in todo
  /\ todo' = todo \ {n}
  /\ m' = [k \in DOMAIN m \ {n} |-> m[k]]
  /\ UNCHANGED <<now, stopped, sweep, deadline, allowed, refused>>

(* Range visits one key and deletes its entry if it is old enough. *)
SweepKey(n) ==
  /\ sweep
  /\ n \in todo
  /\ todo' = todo \ {n}
  /\ m' = IF n \in DOMAIN m /\ m[n].seen < deadline
          THEN [k \in DOMAIN m \ {n} |-> m[k]]
          ELSE m
  /\ UNCHANGED <<now, stopped, sweep, deadline, allowed, refused>>

SweepEnd ==
  /\ sweep
  /\ todo = {}
  /\ sweep' = FALSE
  /\ UNCHANGED <<now, m, stopped, deadline, todo, allowed, refused>>

(* Stop: the select takes nc.done instead of another tick. *)
Stop ==
  /\ ~stopped
  /\ stopped' = TRUE
  /\ UNCHANGED <<now, m, sweep, deadline, todo, allowed, refused>>

Tick ==
  /\ now < MaxTime
  /\ now' = now + 1
  /\ UNCHANGED <<m, stopped, sweep, deadline, todo, allowed, refused>>

CacheNext ==
  \/ \E c \in Certs : CheckAndAdd(c)
  \/ \E n \in DANonces : SweepKey(n)
  \/ SweepStart \/ SweepEnd \/ Stop \/ Tick

CacheSpec == CacheInit /\ [][CacheNext]_cacheVars

-------------------------------------------------------------------------------
(* Properties *)

(* Certificates that expire before the sweep may forget their nonce.        *)
WithinRetention == \A c \in Certs : NotAfter[c] <= NotBefore[c] + Retention

(* DA evidence copied into a different certificate is refused: a nonce is   *)
(* not allowed for a second certificate while a certificate it was allowed  *)
(* for is still valid (CheckAndAdd's comment, nonce_cache.go:57-69).        *)
OneLiveScopePerNonce ==
  [][\A c \in Certs : (c \notin allowed /\ c \in allowed') =>
       \A d \in allowed : NonceOf[d] = NonceOf[c] => NotAfter[d] < now]_cacheVars

(* A certificate that owned its nonce once keeps being admitted: "capping   *)
(* reuses denies legitimate traffic".                                       *)
OwnerNeverRefused ==
  [][\A c \in Certs : (c \notin refused /\ c \in refused') => c \notin allowed]_cacheVars
===============================================================================
